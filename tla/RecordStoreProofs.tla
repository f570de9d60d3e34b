------------------------- MODULE RecordStoreProofs -------------------------
(***************************************************************************)
(* Proof that RecordStore implements RecordShelf for any number of         *)
(* recordings, removals and crashes, as long as no two recordings share a  *)
(* name.                                                                   *)
(*                                                                         *)
(* A recording is reported once at most, so it becomes one row at most,    *)
(* and only a reported one can be removed; with names that do not clash    *)
(* all files with the name of a recording hold its audio.  So the file a   *)
(* row names can neither be written again nor be the one that is deleted.  *)
(*                                                                         *)
(* Then the counters, for the type invariant, and what is left behind: as  *)
(* long as no error leaves it where it is, a temporary file belongs to a   *)
(* thread that will remove it, and a file of the audio directory to a row, *)
(* to a report that will become one, or to the removal that is deleting it.*)
(***************************************************************************)
EXTENDS RecordStore, SequenceTheorems, FiniteSetTheorems, TLAPS

Places == {"new", "queued", "found", "filtered", "unfiltered", "cleaning", "copied", "failed",
           "notified", "ended"}

Messages == [kind : {"insert"}, rec : Recordings, path : Paths]
              \cup [kind : {"failed"}, rec : Recordings]
              \cup [kind : {"remove"}, id : Nat] \cup {GetAll}

\* The types the proof needs; TypeOK also bounds what is counted.
Types ==
  /\ second \in [Recordings -> Seconds \cup {None}] /\ place \in [Recordings -> Places]
  /\ result \in [Recordings -> Paths \cup {NoPath}]
  /\ \A r \in Recordings : place[r] \in {"cleaning", "copied"} => result[r] \in Paths
  /\ sources \in [Seconds -> Recordings \cup {None}] /\ temps \in [Seconds -> Recordings \cup {None}]
  /\ files \in [Paths -> Recordings \cup {None}]
  /\ toCore \in Seq(Messages)
  /\ rows \subseteq [id : Nat, path : Paths, rec : Recordings] /\ lastId \in Nat
  /\ deleting \in Paths \cup {NoPath} /\ list \subseteq [id : Nat, rec : Recordings]
  /\ reported \subseteq Recordings /\ meant \subseteq reported /\ clashed \in BOOLEAN

\* Recordings are saved in the order of their numbers.
InOrder == /\ \E n \in 0 .. MaxRecordings : Saved = 1 .. n
           /\ \A r \in Saved : second[r] \in Seconds

\* Whatever has the name of a second holds a recording of that second.
Audio ==
  /\ \A t \in Seconds : /\ sources[t] # None => sources[t] \in Saved /\ second[sources[t]] = t
                        /\ temps[t] # None => temps[t] \in Saved /\ second[temps[t]] = t
  /\ \A p \in Paths : files[p] # None => files[p] \in Saved /\ second[files[p]] = p[2]

IsReport(m) == m.kind \in {"insert", "failed"}
Over(r)     == place[r] \in {"notified", "ended"}

\* A message reports its recording when the thread is done with the files ...
TrueReport(i) ==
  /\ Over(toCore[i].rec) /\ toCore[i].rec \notin reported
  /\ toCore[i].kind = "insert" => toCore[i].path = result[toCore[i].rec]

\* ... and once.
ReportedOnce ==
  /\ \A r \in reported : Over(r)
  /\ \A i \in 1 .. Len(toCore) : IsReport(toCore[i]) => TrueReport(i)
  /\ \A i, j \in 1 .. Len(toCore) :
       IsReport(toCore[i]) /\ IsReport(toCore[j]) /\ toCore[j].rec = toCore[i].rec => j = i

\* Row and list entry, or row and request, with the same id are about the same recording,
\* and no row has the path that is being deleted.
Ids ==
  /\ \A row \in rows : row.id <= lastId /\ row.rec \in reported /\ row.path # deleting
  /\ \A row, other \in rows :
       row.id = other.id \/ row.path = other.path \/ row.rec = other.rec => row = other
  /\ \A entry \in list : /\ entry.id <= lastId /\ entry.rec \in reported
                         /\ \A row \in rows : row.id = entry.id => row.rec = entry.rec
  /\ \A i \in 1 .. Len(toCore) : toCore[i].kind = "remove" =>
       /\ toCore[i].id <= lastId
       /\ \A row \in rows : row.id = toCore[i].id => row.rec \in meant

\* A row of r is still to come.
Awaited(r) == \/ place[r] \in {"cleaning", "copied"}
              \/ \E i \in 1 .. Len(toCore) : toCore[i].kind = "insert" /\ toCore[i].rec = r

\* While names do not clash: the file is there when its row comes, and as long as it stays.
Match ==
  /\ \A q, r \in Saved : second[q] = second[r] => q = r
  /\ \A r \in Recordings :
       Awaited(r) => result[r] \in Paths /\ result[r][2] = second[r] /\ files[result[r]] = r
  /\ \A row \in rows : files[row.path] = row.rec
  /\ deleting # NoPath => files[deleting] \in reported

Inv == Types /\ InOrder /\ Audio /\ ReportedOnce /\ Ids /\ (clashed \/ Match)

-----------------------------------------------------------------------------
(* Sequences, and the number of the next recording                         *)

LEMMA AppendIndex ==
  ASSUME NEW S, NEW q \in Seq(S), NEW m \in S
  PROVE  /\ Append(q, m) \in Seq(S) /\ Len(Append(q, m)) = Len(q) + 1
         /\ \A i \in 1 .. Len(q) + 1 : Append(q, m)[i] = IF i = Len(q) + 1 THEN m ELSE q[i]
OBVIOUS

LEMMA TailIndex ==
  ASSUME NEW S, NEW q \in Seq(S), q # <<>>
  PROVE  /\ Tail(q) \in Seq(S) /\ Len(Tail(q)) = Len(q) - 1 /\ Head(q) \in S /\ Head(q) = q[1]
         /\ Len(q) \in Nat \ {0} /\ \A i \in 1 .. Len(Tail(q)) : Tail(q)[i] = q[i + 1]
OBVIOUS

LEMMA NoPathIsNone == NoPath \notin Paths
BY DEF NoPath, Paths

LEMMA NextNumber ==
  ASSUME InOrder, NEW r \in Recordings, r = Cardinality(Saved) + 1
  PROVE  place[r] = "new" /\ Saved = 1 .. r - 1
<1>1. PICK n \in 0 .. MaxRecordings : Saved = 1 .. n
  BY DEF InOrder
<1>2. n \in Nat /\ MaxRecordings \in Nat
  BY <1>1, BoundsAreNat DEF BoundsAreNat
<1>3. Cardinality(1 .. n) = n
  <2>1. 1 \in Int /\ n \in Int /\ (IF 1 > n THEN 0 ELSE n - 1 + 1) = n
    BY <1>2
  <2>2. QED BY <2>1, FS_Interval
<1>4. r = n + 1 /\ n = r - 1 /\ r \notin 1 .. n
  BY <1>1, <1>2, <1>3
<1>5. QED BY <1>1, <1>4 DEF Saved

LEMMA InitInv == Init => Inv
<1> SUFFICES ASSUME Init
             PROVE  Inv
  OBVIOUS
<1>1. Types
  BY EmptySeq DEF Init, Types, Places
<1>2. InOrder
  <2>1. 0 \in 0 .. MaxRecordings /\ 1 .. 0 = {}
    BY BoundsAreNat DEF BoundsAreNat
  <2>2. Saved = {}
    BY DEF Init, Saved
  <2>3. QED BY <2>1, <2>2 DEF InOrder
<1>3. Audio /\ ReportedOnce /\ Ids
  BY DEF Init, Audio, ReportedOnce, Ids
<1>4. Match
  BY DEF Init, Match, Saved, Awaited
<1>5. QED BY <1>1, <1>2, <1>3, <1>4 DEF Inv

-----------------------------------------------------------------------------
(* What ReportedOnce and Ids need of a step: the queue stays, grows by one *)
(* message or loses its head.                                              *)

Adds(m)  == m \in Messages /\ toCore' = Append(toCore, m)
Takes    == toCore # <<>> /\ toCore' = Tail(toCore)

LEMMA AddsIndex ==
  ASSUME Types, NEW m, Adds(m)
  PROVE  /\ toCore' \in Seq(Messages)
         /\ \A i \in 1 .. Len(toCore)' :
              \/ i \in 1 .. Len(toCore) /\ toCore'[i] = toCore[i]
              \/ i = Len(toCore) + 1 /\ toCore'[i] = m
<1>1. toCore \in Seq(Messages) /\ m \in Messages /\ toCore' = Append(toCore, m)
  BY DEF Types, Adds
<1>2. Len(toCore) \in Nat
  BY <1>1
<1>3. QED BY <1>1, <1>2, AppendIndex

LEMMA TakesIndex ==
  ASSUME Types, Takes
  PROVE  /\ toCore' \in Seq(Messages) /\ Head(toCore) \in Messages
         /\ 1 \in 1 .. Len(toCore) /\ Head(toCore) = toCore[1]
         /\ \A i \in 1 .. Len(toCore)' :
              i \in Int /\ i + 1 \in 1 .. Len(toCore) /\ i + 1 # 1 /\ toCore'[i] = toCore[i + 1]
<1>1. toCore \in Seq(Messages) /\ toCore # <<>> /\ toCore' = Tail(toCore)
  BY DEF Types, Takes
<1>2. /\ toCore' \in Seq(Messages) /\ Len(toCore)' = Len(toCore) - 1 /\ Len(toCore) \in Nat \ {0}
      /\ Head(toCore) \in Messages /\ Head(toCore) = toCore[1]
      /\ \A i \in 1 .. Len(toCore)' : toCore'[i] = toCore[i + 1]
  BY <1>1, TailIndex
<1>3. QED BY <1>2

\* A thread that has reported does not touch its result any more.
OverStays == \A r \in Recordings : Over(r) => Over(r)' /\ result'[r] = result[r]

LEMMA ReportsTyped ==
  ASSUME Types
  PROVE  \A i \in 1 .. Len(toCore) : IsReport(toCore[i]) => toCore[i].rec \in Recordings
<1>1. \A i \in 1 .. Len(toCore) : toCore[i] \in Messages
  BY DEF Types
<1>2. QED BY <1>1 DEF Messages, IsReport, GetAll

LEMMA ReportsStay ==
  ASSUME Types, ReportedOnce, OverStays, UNCHANGED <<toCore, reported>>
  PROVE  ReportedOnce'
<1>1. reported \subseteq Recordings
  BY DEF Types
<1>2. QED BY <1>1, ReportsTyped DEF OverStays, ReportedOnce, TrueReport, IsReport

LEMMA ReportsAdd ==
  ASSUME Types, ReportedOnce, OverStays, UNCHANGED reported, NEW m, Adds(m),
         IsReport(m) => /\ m.rec \in Recordings /\ ~ Over(m.rec) /\ Over(m.rec)'
                        /\ m.kind = "insert" => m.path = result'[m.rec]
  PROVE  ReportedOnce'
<1>1. reported \subseteq Recordings
  BY DEF Types
<1>2. \A i \in 1 .. Len(toCore)' :
        \/ i \in 1 .. Len(toCore) /\ toCore'[i] = toCore[i]
        \/ i = Len(toCore) + 1 /\ toCore'[i] = m
  BY AddsIndex
<1>3. \A r \in reported' : Over(r)'
  BY <1>1 DEF OverStays, ReportedOnce
<1>4. ASSUME NEW i \in 1 .. Len(toCore)', IsReport(toCore[i])'
      PROVE  TrueReport(i)'
  <2>1. CASE i \in 1 .. Len(toCore) /\ toCore'[i] = toCore[i]
    BY <1>4, <2>1, ReportsTyped DEF OverStays, ReportedOnce, TrueReport, IsReport
  <2>2. CASE toCore'[i] = m
    BY <1>1, <1>4, <2>2 DEF OverStays, ReportedOnce, TrueReport, IsReport
  <2>3. QED BY <1>2, <2>1, <2>2
<1>5. ASSUME NEW i \in 1 .. Len(toCore)', NEW j \in 1 .. Len(toCore)', IsReport(toCore[i])',
             IsReport(toCore[j])', toCore'[j].rec = toCore'[i].rec
      PROVE  j = i
  BY <1>2, <1>5 DEF ReportedOnce, TrueReport, IsReport
<1>6. QED BY <1>3, <1>4, <1>5 DEF ReportedOnce

LEMMA ReportsTake ==
  ASSUME Types, ReportedOnce, OverStays, Takes,
         \/ reported' = reported
         \/ IsReport(Head(toCore)) /\ reported' = reported \cup {Head(toCore).rec}
  PROVE  ReportedOnce'
<1>1. reported \subseteq Recordings
  BY DEF Types
<1>2. /\ 1 \in 1 .. Len(toCore) /\ Head(toCore) = toCore[1]
      /\ \A i \in 1 .. Len(toCore)' :
           i \in Int /\ i + 1 \in 1 .. Len(toCore) /\ i + 1 # 1 /\ toCore'[i] = toCore[i + 1]
  BY TakesIndex
<1>3. \A r \in reported' : Over(r)'
  BY <1>1, <1>2, ReportsTyped DEF OverStays, ReportedOnce, TrueReport
<1>4. ASSUME NEW i \in 1 .. Len(toCore)', IsReport(toCore[i])'
      PROVE  TrueReport(i)'
  <2>1. /\ i + 1 \in 1 .. Len(toCore) /\ toCore'[i] = toCore[i + 1] /\ IsReport(toCore[i + 1])
        /\ i + 1 # 1
    BY <1>2, <1>4 DEF IsReport
  <2>2. toCore[i + 1].rec \notin reported'
    BY <1>2, <2>1 DEF ReportedOnce, TrueReport
  <2>3. QED BY <2>1, <2>2, ReportsTyped DEF OverStays, ReportedOnce, TrueReport
<1>5. ASSUME NEW i \in 1 .. Len(toCore)', NEW j \in 1 .. Len(toCore)', IsReport(toCore[i])',
             IsReport(toCore[j])', toCore'[j].rec = toCore'[i].rec
      PROVE  j = i
  <2>1. i \in Int /\ j \in Int /\ j + 1 = i + 1
    BY <1>2, <1>5 DEF ReportedOnce, IsReport
  <2>2. QED BY <2>1
<1>6. QED BY <1>3, <1>4, <1>5 DEF ReportedOnce

\* Nothing gets an id, and nothing that has one loses it for another.
IdsKept == /\ rows' \subseteq rows /\ lastId' = lastId
           /\ reported \subseteq reported' /\ meant \subseteq meant'
           /\ deleting' = deleting \/ \A row \in rows' : row.path # deleting'

LEMMA IdsStay ==
  ASSUME Types, Ids, IdsKept, list' \subseteq list, UNCHANGED toCore \/ toCore' = <<>>
  PROVE  Ids'
BY DEF Ids, IdsKept

LEMMA IdsAdd ==
  ASSUME Types, Ids, IdsKept, list' = list, NEW m, Adds(m),
         m.kind = "remove" => /\ m.id <= lastId
                              /\ \A row \in rows : row.id = m.id => row.rec \in meant'
  PROVE  Ids'
<1>1. \A i \in 1 .. Len(toCore)' :
        \/ i \in 1 .. Len(toCore) /\ toCore'[i] = toCore[i]
        \/ i = Len(toCore) + 1 /\ toCore'[i] = m
  BY AddsIndex
<1>2. QED BY <1>1 DEF Ids, IdsKept

LEMMA IdsTake ==
  ASSUME Types, Ids, IdsKept, Takes,
         \A entry \in list' : \/ entry \in list
                              \/ \E row \in rows : entry.id = row.id /\ entry.rec = row.rec
  PROVE  Ids'
<1>1. \A i \in 1 .. Len(toCore)' :
        i \in Int /\ i + 1 \in 1 .. Len(toCore) /\ i + 1 # 1 /\ toCore'[i] = toCore[i + 1]
  BY TakesIndex
<1>2. \A entry \in list' : /\ entry.id <= lastId' /\ entry.rec \in reported'
                           /\ \A row \in rows' : row.id = entry.id => row.rec = entry.rec
  BY DEF Ids, IdsKept
<1>3. QED BY <1>1, <1>2 DEF Ids, IdsKept

\* Match, as long as no file, name or new row is involved.
LEMMA MatchStays ==
  ASSUME Types, Match, UNCHANGED <<second, files, deleting>>, Saved' = Saved, rows' \subseteq rows,
         reported \subseteq reported',
         \A r \in Recordings : Awaited(r)' => Awaited(r) /\ result'[r] = result[r]
  PROVE  Match'
BY DEF Match

\* Taking a message awaits nothing new.
LEMMA AwaitedTakes ==
  ASSUME Types, Takes, UNCHANGED place, NEW r, Awaited(r)'
  PROVE  Awaited(r)
<1>1. \A i \in 1 .. Len(toCore)' :
        i \in Int /\ i + 1 \in 1 .. Len(toCore) /\ i + 1 # 1 /\ toCore'[i] = toCore[i + 1]
  BY TakesIndex
<1>2. QED BY <1>1 DEF Awaited

\* Nor does a message other than an insertion.
LEMMA AwaitedAdds ==
  ASSUME Types, NEW m, Adds(m), NEW r, Awaited(r)'
  PROVE  Awaited(r) \/ place'[r] \in {"cleaning", "copied"} \/ (m.kind = "insert" /\ m.rec = r)
<1>1. \A i \in 1 .. Len(toCore)' :
        \/ i \in 1 .. Len(toCore) /\ toCore'[i] = toCore[i]
        \/ i = Len(toCore) + 1 /\ toCore'[i] = m
  BY AddsIndex
<1>2. QED BY <1>1 DEF Awaited

-----------------------------------------------------------------------------
(* The record manager keeps Inv                                            *)

\* What the steps of a filter thread have in common.
LEMMA ThreadMoves ==
  ASSUME Inv, NEW r \in Recordings, NEW from \in Places \ {"new"}, NEW to \in Places \ {"new"},
         FilterStep(r, from, to)
  PROVE  /\ r \in Saved /\ second[r] \in Seconds /\ place[r] = from
         /\ place' = [place EXCEPT ![r] = to] /\ place' \in [Recordings -> Places]
         /\ Saved' = Saved /\ InOrder'
         /\ UNCHANGED <<second, rows, lastId, deleting, list, reported, meant, clashed>>
<1>1. /\ place \in [Recordings -> Places] /\ place[r] = from /\ place' = [place EXCEPT ![r] = to]
      /\ UNCHANGED <<second, rows, lastId, deleting, list, reported, meant, clashed>>
  BY DEF Inv, Types, FilterStep, database, history
<1>2. r \in Saved /\ Saved' = Saved
  BY <1>1 DEF Saved
<1>3. second[r] \in Seconds /\ InOrder'
  BY <1>1, <1>2 DEF Inv, InOrder
<1>4. QED BY <1>1, <1>2, <1>3

\* The steps that copy nothing and report nothing.
QuietThread(r) == \/ FindSource(r) \/ SoxFilters(r) \/ SoxFails(r) \/ RemoveTemp(r)
                  \/ RemoveTempThrows(r) \/ RemoveSource(r) \/ RemoveSourceFails(r)

\* Reading, filtering and cleaning up.
LEMMA QuietThreadInv ==
  ASSUME Inv, NEW r \in Recordings, QuietThread(r)
  PROVE  Inv'
<1>1. PICK from \in Places \ {"new"}, to \in Places \ {"new"} :
        /\ FilterStep(r, from, to) /\ (from \in {"notified", "ended"} => to = "ended")
        /\ to # "cleaning" /\ (to = "copied" => from = "cleaning")
  BY DEF QuietThread, FindSource, SoxFilters, SoxFails, RemoveTemp, RemoveTempThrows, RemoveSource,
         RemoveSourceFails, Places
<1>2. /\ r \in Saved /\ second[r] \in Seconds /\ place[r] = from
      /\ place' = [place EXCEPT ![r] = to] /\ place' \in [Recordings -> Places]
      /\ Saved' = Saved /\ InOrder'
      /\ UNCHANGED <<second, rows, lastId, deleting, list, reported, meant, clashed>>
  BY <1>1, ThreadMoves
<1>3. UNCHANGED <<result, files, toCore>>
  BY DEF QuietThread, FindSource, SoxFilters, SoxFails, RemoveTemp, RemoveTempThrows, RemoveSource,
         RemoveSourceFails
<1>4. /\ sources' \in [Seconds -> Recordings \cup {None}]
      /\ temps' \in [Seconds -> Recordings \cup {None}]
      /\ \A t \in Seconds : /\ sources'[t] \in {None, sources[t]}
                            /\ temps'[t] \in {None, temps[t], sources[t]}
  <2>1. /\ sources \in [Seconds -> Recordings \cup {None}]
        /\ temps \in [Seconds -> Recordings \cup {None}]
    BY DEF Inv, Types
  <2>2. CASE FindSource(r) \/ RemoveTempThrows(r) \/ RemoveSourceFails(r)
    BY <2>1, <2>2 DEF FindSource, RemoveTempThrows, RemoveSourceFails
  <2>3. CASE SoxFilters(r) \/ SoxFails(r) \/ RemoveTemp(r)
    <3>1. PICK part \in {None, temps[second[r]], sources[second[r]]} :
            temps' = [temps EXCEPT ![second[r]] = part] /\ UNCHANGED sources
      BY <2>3 DEF SoxFilters, SoxFails, RemoveTemp
    <3>2. QED BY <1>2, <2>1, <3>1
  <2>4. CASE RemoveSource(r)
    BY <1>2, <2>1, <2>4 DEF RemoveSource
  <2>5. QED BY <2>2, <2>3, <2>4 DEF QuietThread
<1>5. Types'
  BY <1>1, <1>2, <1>3, <1>4 DEF Inv, Types
<1>6. Audio'
  BY <1>2, <1>3, <1>4 DEF Inv, Audio
<1>7. ReportedOnce'
  <2>1. OverStays
    BY <1>1, <1>2, <1>3 DEF Inv, Types, OverStays, Over
  <2>2. QED BY <1>2, <1>3, <2>1, ReportsStay DEF Inv
<1>8. Ids'
  BY <1>2, <1>3, IdsStay DEF Inv, IdsKept
<1>9. ASSUME Match
      PROVE  Match'
  <2>1. \A q \in Recordings : Awaited(q)' => Awaited(q) /\ result'[q] = result[q]
    BY <1>1, <1>2, <1>3 DEF Inv, Types, Awaited
  <2>2. QED BY <1>2, <1>3, <1>9, <2>1, MatchStays DEF Inv
<1>10. QED BY <1>2, <1>5, <1>6, <1>7, <1>8, <1>9 DEF Inv

\* A copy that breaks off leaves at most a part of the recording under a name of its own.
LEMMA CopyThrowsInv ==
  ASSUME Inv, NEW r \in Recordings, CopyThrows(r)
  PROVE  Inv'
<1>1. PICK from, path, audio :
        /\ from \in {"filtered", "unfiltered"} /\ CopyBreaksOff(r, from, path, audio)
        /\ path \in {"filtered_record", "record"} \X {second[r]}
        /\ audio \in {temps[second[r]], sources[second[r]]}
  BY DEF CopyThrows
<1>2. /\ r \in Saved /\ second[r] \in Seconds /\ place[r] = from
      /\ place' = [place EXCEPT ![r] = "failed"] /\ place' \in [Recordings -> Places]
      /\ Saved' = Saved /\ InOrder'
      /\ UNCHANGED <<second, rows, lastId, deleting, list, reported, meant, clashed>>
  BY <1>1, ThreadMoves DEF CopyBreaksOff, Places
<1>3. UNCHANGED <<result, sources, temps, toCore>>
  BY <1>1 DEF CopyBreaksOff
<1>4. path \in Paths /\ path[2] = second[r]
  BY <1>1, <1>2 DEF Paths
<1>5. \/ UNCHANGED files
      \/ /\ audio \in Recordings /\ audio \in Saved /\ second[audio] = second[r]
         /\ files' = [files EXCEPT ![path] = audio]
  <2>1. /\ sources[second[r]] \in Recordings \cup {None} /\ temps[second[r]] \in Recordings \cup {None}
    BY <1>2 DEF Inv, Types
  <2>2. audio # None => audio \in Recordings /\ audio \in Saved /\ second[audio] = second[r]
    BY <1>1, <1>2, <2>1 DEF Inv, Audio
  <2>3. UNCHANGED files \/ (audio # None /\ files' = [files EXCEPT ![path] = audio])
    BY <1>1 DEF CopyBreaksOff
  <2>4. QED BY <2>2, <2>3
<1>6. Types'
  BY <1>2, <1>3, <1>4, <1>5 DEF Inv, Types
<1>7. Audio'
  BY <1>2, <1>3, <1>4, <1>5 DEF Inv, Types, Audio
<1>8. ~ Over(r) /\ r \notin reported /\ OverStays
  BY <1>1, <1>2, <1>3 DEF Inv, Types, ReportedOnce, OverStays, Over
<1>9. ReportedOnce'
  BY <1>2, <1>3, <1>8, ReportsStay DEF Inv
<1>10. Ids'
  BY <1>2, <1>3, IdsStay DEF Inv, IdsKept
<1>11. ASSUME Match
       PROVE  Match'
  <2>1. \A q \in Recordings : Awaited(q)' => Awaited(q)
    BY <1>2, <1>3 DEF Inv, Types, Awaited
  <2>2. ~ Awaited(r)
    BY <1>1, <1>2, <1>8 DEF Awaited, Inv, ReportedOnce, TrueReport, IsReport
  <2>3. CASE UNCHANGED files
    BY <1>2, <1>3, <1>11, <2>1, <2>3, MatchStays DEF Inv
  <2>4. CASE audio \in Saved /\ files' = [files EXCEPT ![path] = audio]
    <3>1. \A q \in Saved : second[q] = path[2] => q = r
      BY <1>2, <1>4, <1>11 DEF Match
    <3>2. \A p \in Paths : files[p] # None /\ files[p] # r => p # path
      BY <3>1 DEF Inv, Audio
    <3>3. \A p \in Paths : files[p] \in Recordings /\ files[p] # r => files'[p] = files[p]
      BY <2>4, <3>2 DEF Inv, Types, Recordings, None
    <3>4. \A q \in Recordings : Awaited(q)' =>
            result'[q] \in Paths /\ result'[q][2] = second'[q] /\ files'[result'[q]] = q
      BY <1>2, <1>3, <1>11, <2>1, <2>2, <3>3 DEF Match
    <3>5. \A row \in rows : row.path \in Paths /\ row.rec \in Recordings /\ row.rec # r
      BY <1>8 DEF Inv, Types, Ids
    <3>6. \A row \in rows' : files'[row.path] = row.rec
      BY <1>2, <1>11, <3>3, <3>5 DEF Match
    <3>7. deleting' # NoPath => files'[deleting'] \in reported'
      <4>1. deleting # NoPath => deleting \in Paths /\ files[deleting] \in Recordings /\ files[deleting] # r
        BY <1>8, <1>11 DEF Inv, Types, Match
      <4>2. QED BY <1>2, <1>11, <3>3, <4>1 DEF Match
    <3>8. QED BY <1>2, <1>11, <3>4, <3>6, <3>7 DEF Match
  <2>5. QED BY <1>5, <2>3, <2>4
<1>12. QED BY <1>2, <1>6, <1>7, <1>9, <1>10, <1>11 DEF Inv

\* A copy goes to a name of the recording's own, which no row has and nobody deletes.
LEMMA CopyInv ==
  ASSUME Inv, NEW r \in Recordings, CopyFiltered(r) \/ CopySource(r)
  PROVE  Inv'
<1>1. PICK from \in {"filtered", "unfiltered"} : FilterStep(r, from, "cleaning")
  BY DEF CopyFiltered, CopySource
<1>2. /\ r \in Saved /\ second[r] \in Seconds /\ place[r] = from
      /\ place' = [place EXCEPT ![r] = "cleaning"] /\ place' \in [Recordings -> Places]
      /\ Saved' = Saved /\ InOrder'
      /\ UNCHANGED <<second, rows, lastId, deleting, list, reported, meant, clashed>>
  BY <1>1, ThreadMoves DEF Places
<1>3. PICK path \in Paths, audio \in Recordings :
        /\ path[2] = second[r] /\ audio \in Saved /\ second[audio] = second[r]
        /\ CopyTo(r, path, audio)
  <2>1. /\ temps[second[r]] \in Recordings \cup {None} /\ sources[second[r]] \in Recordings \cup {None}
        /\ <<"filtered_record", second[r]>> \in Paths /\ <<"record", second[r]>> \in Paths
    BY <1>2 DEF Inv, Types, Paths
  <2>2. CASE CopyFiltered(r)
    BY <1>2, <2>1, <2>2 DEF CopyFiltered, CopyTo, Inv, Audio
  <2>3. CASE CopySource(r)
    BY <1>2, <2>1, <2>3 DEF CopySource, CopyTo, Inv, Audio
  <2>4. QED BY <2>2, <2>3
<1>4. /\ files' = [files EXCEPT ![path] = audio] /\ result' = [result EXCEPT ![r] = path]
      /\ UNCHANGED <<sources, temps, toCore>>
  BY <1>3 DEF CopyTo
<1>5. Types'
  BY <1>2, <1>3, <1>4 DEF Inv, Types
<1>6. Audio'
  BY <1>2, <1>3, <1>4 DEF Inv, Types, Audio
<1>7. ~ Over(r) /\ r \notin reported /\ OverStays
  BY <1>1, <1>2, <1>3, <1>4 DEF Inv, Types, ReportedOnce, OverStays, Over
<1>8. ReportedOnce'
  BY <1>2, <1>4, <1>7, ReportsStay DEF Inv
<1>9. Ids'
  BY <1>2, <1>4, IdsStay DEF Inv, IdsKept
<1>10. ASSUME Match
       PROVE  Match'
  <2>1. audio = r
    BY <1>2, <1>3, <1>10 DEF Match
  <2>2. \A q \in Saved : second[q] = path[2] => q = r
    BY <1>2, <1>3, <1>10 DEF Match
  <2>3. \A q \in Recordings : Awaited(q)' =>
          result'[q] \in Paths /\ result'[q][2] = second[q] /\ files'[result'[q]] = q
    <3>1. ASSUME NEW q \in Recordings, q # r, Awaited(q)'
          PROVE  result'[q] \in Paths /\ result'[q][2] = second[q] /\ files'[result'[q]] = q
      <4>1. Awaited(q) /\ result'[q] = result[q]
        BY <1>2, <1>4, <3>1 DEF Inv, Types, Awaited
      <4>2. result[q] \in Paths /\ result[q][2] = second[q] /\ files[result[q]] = q
        BY <1>10, <4>1 DEF Match
      <4>3. q \in Saved
        BY <4>2 DEF Inv, Audio, Recordings, None
      <4>4. result[q] # path
        BY <2>2, <3>1, <4>2, <4>3
      <4>5. QED BY <1>3, <1>4, <4>1, <4>2, <4>4 DEF Inv, Types
    <3>2. result'[r] \in Paths /\ result'[r][2] = second[r] /\ files'[result'[r]] = r
      BY <1>3, <1>4, <2>1 DEF Inv, Types
    <3>3. QED BY <3>1, <3>2
  <2>4. \A p \in Paths : files[p] \in reported => p # path
    BY <1>7, <2>2 DEF Inv, Types, Audio, Recordings, None
  <2>5. \A row \in rows : files'[row.path] = row.rec
    BY <1>3, <1>4, <1>10, <2>4 DEF Inv, Types, Ids, Match
  <2>6. deleting # NoPath => files'[deleting] \in reported
    BY <1>3, <1>4, <1>10, <2>4 DEF Inv, Types, Match
  <2>7. QED BY <1>2, <1>10, <2>3, <2>5, <2>6 DEF Match
<1>11. QED BY <1>2, <1>5, <1>6, <1>8, <1>9, <1>10 DEF Inv

\* The report: from now on the queue, and not the thread, awaits the row.
LEMMA NotifyInv ==
  ASSUME Inv, NEW r \in Recordings, NotifyFiltered(r)
  PROVE  Inv'
<1>1. PICK from \in {"copied", "failed"} :
        /\ FilterStep(r, from, "notified")
        /\ toCore' = Append(toCore, IF from = "copied" THEN Insert(r) ELSE Failed(r))
  BY DEF NotifyFiltered
<1>2. /\ r \in Saved /\ second[r] \in Seconds /\ place[r] = from
      /\ place' = [place EXCEPT ![r] = "notified"] /\ place' \in [Recordings -> Places]
      /\ Saved' = Saved /\ InOrder'
      /\ UNCHANGED <<second, rows, lastId, deleting, list, reported, meant, clashed>>
  BY <1>1, ThreadMoves DEF Places
<1>3. UNCHANGED <<result, sources, temps, files>>
  BY DEF NotifyFiltered
<1> DEFINE m == IF from = "copied" THEN Insert(r) ELSE Failed(r)
<1>4. from = "copied" => Awaited(r)
  BY <1>2 DEF Awaited
<1>5. Adds(m) /\ IsReport(m) /\ m.rec = r /\ (m.kind = "insert" => from = "copied" /\ m.path = result[r])
      /\ m.kind # "remove"
  BY <1>1, <1>2 DEF Inv, Types, Adds, Messages, Insert, Failed, IsReport
<1>6. Types'
  <2>1. toCore' \in Seq(Messages)
    BY <1>5, AddsIndex DEF Inv
  <2>2. QED BY <1>2, <1>3, <2>1 DEF Inv, Types
<1>7. Audio'
  BY <1>2, <1>3 DEF Inv, Audio
<1>8. ReportedOnce'
  <2>1. ~ Over(r) /\ Over(r)' /\ OverStays
    BY <1>2, <1>3 DEF Inv, Types, OverStays, Over
  <2>2. QED BY <1>2, <1>3, <1>5, <2>1, ReportsAdd DEF Inv
<1>9. Ids'
  BY <1>2, <1>5, IdsAdd DEF Inv, IdsKept
<1>10. ASSUME Match
       PROVE  Match'
  <2>1. ASSUME NEW q \in Recordings, Awaited(q)'
        PROVE  Awaited(q) /\ result'[q] = result[q]
    <3>1. Awaited(q) \/ place'[q] \in {"cleaning", "copied"} \/ (m.kind = "insert" /\ m.rec = q)
      BY <1>5, <2>1, AwaitedAdds DEF Inv
    <3>2. place'[q] \in {"cleaning", "copied"} => Awaited(q)
      BY <1>2 DEF Inv, Types, Awaited
    <3>3. QED BY <1>3, <1>4, <1>5, <3>1, <3>2
  <2>2. QED BY <1>2, <1>3, <1>10, <2>1, MatchStays DEF Inv
<1>11. QED BY <1>2, <1>6, <1>7, <1>8, <1>9, <1>10 DEF Inv

\* A new recording, whose name is one of its own unless the names clash from now on.
LEMMA SaveInv ==
  ASSUME Inv, NEW r \in Recordings, NEW t \in Seconds, SaveWavFile(r, t)
  PROVE  Inv'
<1>1. place[r] = "new" /\ Saved = 1 .. r - 1
  BY NextNumber DEF SaveWavFile, Inv
<1>2. /\ second' = [second EXCEPT ![r] = t] /\ place' = [place EXCEPT ![r] = "queued"]
      /\ sources' = [sources EXCEPT ![t] = r]
      /\ clashed' = (clashed \/ \E q \in Saved : second[q] = t)
      /\ UNCHANGED <<result, temps, files, toCore, rows, lastId, deleting, list, reported, meant>>
  BY DEF SaveWavFile, database
<1>3. Saved' = Saved \cup {r} /\ r \notin Saved
  BY <1>1, <1>2 DEF Inv, Types, Saved
<1>4. Types'
  BY <1>2 DEF Inv, Types, Places
<1>5. InOrder'
  <2>1. r \in 0 .. MaxRecordings /\ 1 .. r = (1 .. r - 1) \cup {r}
    BY BoundsAreNat DEF BoundsAreNat, Recordings
  <2>2. \E n \in 0 .. MaxRecordings : Saved' = 1 .. n
    BY <1>1, <1>3, <2>1
  <2>3. \A q \in Saved' : second'[q] \in Seconds
    BY <1>2, <1>3 DEF Inv, Types, InOrder
  <2>4. QED BY <2>2, <2>3 DEF InOrder
<1>6. Audio'
  BY <1>2, <1>3 DEF Inv, Types, Audio
<1>7. ReportedOnce'
  <2>1. OverStays
    BY <1>1, <1>2 DEF Inv, Types, OverStays, Over
  <2>2. QED BY <1>2, <2>1, ReportsStay DEF Inv
<1>8. Ids'
  BY <1>2, IdsStay DEF Inv, IdsKept
<1>9. ASSUME Match, ~ clashed'
      PROVE  Match'
  <2>1. \A q, u \in Saved' : second'[q] = second'[u] => q = u
    <3>1. \A q \in Saved : second[q] # t
      BY <1>2, <1>9
    <3>2. second'[r] = t /\ \A q \in Saved : second'[q] = second[q]
      BY <1>2, <1>3 DEF Inv, Types, Saved
    <3>3. QED BY <1>3, <1>9, <3>1, <3>2 DEF Match
  <2>2. ASSUME NEW q \in Recordings, Awaited(q)'
        PROVE  result'[q] \in Paths /\ result'[q][2] = second'[q] /\ files'[result'[q]] = q
    <3>1. Awaited(q)
      BY <1>2, <2>2 DEF Inv, Types, Awaited
    <3>2. result[q] \in Paths /\ result[q][2] = second[q] /\ files[result[q]] = q
      BY <1>9, <3>1 DEF Match
    <3>3. q # r
      BY <1>3, <3>2 DEF Inv, Audio, Recordings, None
    <3>4. QED BY <1>2, <3>2, <3>3 DEF Inv, Types
  <2>3. /\ \A row \in rows' : files'[row.path] = row.rec
        /\ deleting' # NoPath => files'[deleting'] \in reported'
    BY <1>2, <1>9 DEF Match
  <2>4. QED BY <2>1, <2>2, <2>3 DEF Match
<1>10. QED BY <1>2, <1>4, <1>5, <1>6, <1>7, <1>8, <1>9 DEF Inv

-----------------------------------------------------------------------------
(* Clients and crashes keep Inv                                            *)

\* Somebody asks: the entry he sees says which recording he means.
LEMMA RemoveRecordInv ==
  ASSUME Inv, NEW entry \in list, RemoveRecord(entry)
  PROVE  Inv'
<1> DEFINE m == Remove(entry.id)
<1>1. /\ toCore' = Append(toCore, m) /\ meant' = meant \cup {entry.rec}
      /\ UNCHANGED <<second, place, result, sources, temps, files, rows, lastId, deleting, list,
                     reported, clashed>>
  BY DEF RemoveRecord, recorder, database
<1>2. /\ entry.id \in Nat /\ entry.rec \in reported /\ entry.id <= lastId
      /\ \A row \in rows : row.id = entry.id => row.rec = entry.rec
  BY DEF Inv, Types, Ids
<1>3. Adds(m) /\ ~ IsReport(m) /\ m.kind = "remove" /\ m.id = entry.id
  BY <1>1, <1>2 DEF Adds, Messages, Remove, IsReport
<1>4. Types'
  <2>1. toCore' \in Seq(Messages)
    BY <1>3, AddsIndex DEF Inv
  <2>2. QED BY <1>1, <1>2, <2>1 DEF Inv, Types
<1>5. Saved' = Saved /\ InOrder' /\ Audio'
  BY <1>1 DEF Inv, Saved, InOrder, Audio
<1>6. ReportedOnce'
  <2>1. OverStays
    BY <1>1 DEF OverStays, Over
  <2>2. QED BY <1>1, <1>3, <2>1, ReportsAdd DEF Inv
<1>7. Ids'
  BY <1>1, <1>2, <1>3, IdsAdd DEF Inv, IdsKept
<1>8. ASSUME Match
      PROVE  Match'
  <2>1. \A q \in Recordings : Awaited(q)' => Awaited(q) /\ result'[q] = result[q]
    BY <1>1, <1>3, AwaitedAdds DEF Inv, Awaited
  <2>2. QED BY <1>1, <1>5, <1>8, <2>1, MatchStays DEF Inv
<1>9. QED BY <1>1, <1>4, <1>5, <1>6, <1>7, <1>8 DEF Inv

LEMMA GetAllInv == Inv /\ GetAllRecord => Inv'
<1> SUFFICES ASSUME Inv, GetAllRecord
             PROVE  Inv'
  OBVIOUS
<1>1. /\ toCore' = Append(toCore, GetAll)
      /\ UNCHANGED <<second, place, result, sources, temps, files, rows, lastId, deleting, list,
                     reported, meant, clashed>>
  BY DEF GetAllRecord, recorder, database, history
<1>2. Adds(GetAll) /\ ~ IsReport(GetAll) /\ GetAll.kind # "remove" /\ GetAll.kind # "insert"
  BY <1>1 DEF Adds, Messages, GetAll, IsReport
<1>3. Types'
  <2>1. toCore' \in Seq(Messages)
    BY <1>2, AddsIndex DEF Inv
  <2>2. QED BY <1>1, <2>1 DEF Inv, Types
<1>4. Saved' = Saved /\ InOrder' /\ Audio'
  BY <1>1 DEF Inv, Saved, InOrder, Audio
<1>5. ReportedOnce'
  <2>1. OverStays
    BY <1>1 DEF OverStays, Over
  <2>2. QED BY <1>1, <1>2, <2>1, ReportsAdd DEF Inv
<1>6. Ids'
  BY <1>1, <1>2, IdsAdd DEF Inv, IdsKept
<1>7. ASSUME Match
      PROVE  Match'
  <2>1. \A q \in Recordings : Awaited(q)' => Awaited(q) /\ result'[q] = result[q]
    BY <1>1, <1>2, AwaitedAdds DEF Inv, Awaited
  <2>2. QED BY <1>1, <1>4, <1>7, <2>1, MatchStays DEF Inv
<1>8. QED BY <1>1, <1>3, <1>4, <1>5, <1>6, <1>7 DEF Inv

\* A crash loses messages and threads, so that less is awaited.
LEMMA CrashInv == Inv /\ (CrashCore \/ CrashRecord) => Inv'
<1> SUFFICES ASSUME Inv, CrashCore \/ CrashRecord
             PROVE  Inv'
  OBVIOUS
<1>1. UNCHANGED <<second, result, sources, temps, files, rows, lastId, list, reported, meant, clashed>>
  BY DEF CrashCore, CrashRecord, Crash, database, history
<1>2. CASE CrashCore
  <2>1. toCore' = <<>> /\ deleting' = NoPath /\ UNCHANGED place
    BY <1>2 DEF CrashCore
  <2>2. Types'
    BY <1>1, <2>1, EmptySeq DEF Inv, Types
  <2>3. InOrder' /\ Audio'
    BY <1>1, <2>1 DEF Inv, Saved, InOrder, Audio
  <2>4. ReportedOnce'
    BY <1>1, <2>1 DEF Inv, ReportedOnce, Over
  <2>5. Ids'
    <3>1. \A row \in rows : row.path # NoPath
      BY NoPathIsNone DEF Inv, Types
    <3>2. QED BY <1>1, <2>1, <3>1, IdsStay DEF Inv, IdsKept
  <2>6. ASSUME Match
        PROVE  Match'
    <3>1. \A r \in Recordings : Awaited(r)' => Awaited(r)
      BY <2>1 DEF Awaited
    <3>2. Saved' = Saved
      BY <2>1 DEF Saved
    <3>3. QED BY <1>1, <2>1, <2>6, <3>1, <3>2 DEF Match
  <2>7. QED BY <1>1, <2>2, <2>3, <2>4, <2>5, <2>6 DEF Inv
<1>3. CASE CrashRecord
  <2>1. /\ place' = [r \in Recordings |-> IF place[r] = "new" THEN "new" ELSE "ended"]
        /\ UNCHANGED <<toCore, deleting>>
    BY <1>3 DEF CrashRecord
  <2>2. Types'
    BY <1>1, <2>1 DEF Inv, Types, Places
  <2>3. Saved' = Saved
    BY <2>1 DEF Saved
  <2>4. InOrder' /\ Audio'
    BY <1>1, <2>3 DEF Inv, InOrder, Audio
  <2>5. ReportedOnce'
    <3>1. OverStays
      BY <1>1, <2>1 DEF OverStays, Over
    <3>2. QED BY <1>1, <2>1, <3>1, ReportsStay DEF Inv
  <2>6. Ids'
    BY <1>1, <2>1, IdsStay DEF Inv, IdsKept
  <2>7. ASSUME Match
        PROVE  Match'
    <3>1. \A r \in Recordings : Awaited(r)' => Awaited(r) /\ result'[r] = result[r]
      BY <1>1, <2>1 DEF Awaited
    <3>2. QED BY <1>1, <2>1, <2>3, <2>7, <3>1, MatchStays DEF Inv
  <2>8. QED BY <1>1, <2>2, <2>4, <2>5, <2>6, <2>7 DEF Inv
<1>4. QED BY <1>2, <1>3

-----------------------------------------------------------------------------
(* The core manager keeps Inv                                              *)

\* What all handlers have in common.
LEMMA HandlerTakes ==
  ASSUME Inv, NEW kind, Handle(kind)
  PROVE  /\ Takes /\ Head(toCore) \in Messages /\ Head(toCore).kind = kind /\ deleting = NoPath
         /\ 1 \in 1 .. Len(toCore) /\ Head(toCore) = toCore[1] /\ toCore' \in Seq(Messages)
         /\ UNCHANGED <<second, place, result, sources, temps, meant, clashed>>
         /\ Saved' = Saved /\ InOrder' /\ OverStays
<1>1. /\ Takes /\ Head(toCore).kind = kind /\ deleting = NoPath
      /\ UNCHANGED <<second, place, result, sources, temps, meant, clashed>>
  BY DEF Handle, Takes, recorder
<1>2. /\ Head(toCore) \in Messages /\ 1 \in 1 .. Len(toCore) /\ Head(toCore) = toCore[1]
      /\ toCore' \in Seq(Messages)
  BY <1>1, TakesIndex DEF Inv
<1>3. Saved' = Saved /\ InOrder' /\ OverStays
  BY <1>1 DEF Inv, Saved, InOrder, OverStays, Over
<1>4. QED BY <1>1, <1>2, <1>3

\* Handlers that change neither rows nor files.
LEMMA QuietHandlerInv ==
  ASSUME Inv, InsertFails \/ FilterWavFileNOTI \/ GetAllRecords \/ RemoveFails
  PROVE  Inv'
<1>1. PICK kind \in {"insert", "failed", "getAll", "remove"} :
        /\ Handle(kind)
        /\ \/ kind \in {"insert", "failed"} /\ reported' = reported \cup {Head(toCore).rec}
           \/ UNCHANGED reported
  BY DEF InsertFails, FilterWavFileNOTI, GetAllRecords, RemoveFails
<1>2. /\ Takes /\ Head(toCore) \in Messages /\ Head(toCore).kind = kind /\ deleting = NoPath
      /\ toCore' \in Seq(Messages)
      /\ UNCHANGED <<second, place, result, sources, temps, meant, clashed>>
      /\ Saved' = Saved /\ InOrder' /\ OverStays
  BY <1>1, HandlerTakes
<1>3. UNCHANGED <<files, rows, lastId, deleting>>
  BY DEF InsertFails, FilterWavFileNOTI, GetAllRecords, RemoveFails, database
<1>4. kind \in {"insert", "failed"} => Head(toCore).rec \in Recordings
  BY <1>2 DEF Messages, GetAll
<1>5. /\ list' \subseteq [id : Nat, rec : Recordings]
      /\ \A entry \in list' : \/ entry \in list
                             \/ \E row \in rows : entry.id = row.id /\ entry.rec = row.rec
  <2>1. CASE InsertFails \/ FilterWavFileNOTI \/ RemoveFails
    BY <2>1 DEF InsertFails, FilterWavFileNOTI, RemoveFails, Inv, Types
  <2>2. CASE GetAllRecords
    <3>1. PICK newest \in SUBSET rows : list' = {[id |-> row.id, rec |-> row.rec] : row \in newest}
      BY <2>2 DEF GetAllRecords
    <3>2. QED BY <3>1 DEF Inv, Types
  <2>3. QED BY <2>1, <2>2
<1>6. Types'
  BY <1>1, <1>2, <1>3, <1>4, <1>5 DEF Inv, Types
<1>7. Audio'
  BY <1>2, <1>3 DEF Inv, Audio
<1>8. ReportedOnce'
  BY <1>1, <1>2, ReportsTake DEF Inv, IsReport
<1>9. Ids'
  <2>1. IdsKept
    BY <1>1, <1>2, <1>3 DEF IdsKept
  <2>2. QED BY <1>2, <1>5, <2>1, IdsTake DEF Inv
<1>10. ASSUME Match
       PROVE  Match'
  <2>1. \A q \in Recordings : Awaited(q)' => Awaited(q) /\ result'[q] = result[q]
    BY <1>2, AwaitedTakes DEF Inv
  <2>2. QED BY <1>1, <1>2, <1>3, <1>10, <2>1, MatchStays DEF Inv
<1>11. QED BY <1>2, <1>6, <1>7, <1>8, <1>9, <1>10 DEF Inv

\* The new row has an id, a path and a recording that no other has.
LEMMA InsertInv == Inv /\ InsertAudioRecord => Inv'
<1> SUFFICES ASSUME Inv, InsertAudioRecord
             PROVE  Inv'
  OBVIOUS
<1> DEFINE msg == Head(toCore)
           row == [id |-> lastId + 1, path |-> msg.path, rec |-> msg.rec]
<1>1. /\ Takes /\ msg \in Messages /\ msg.kind = "insert" /\ deleting = NoPath
      /\ 1 \in 1 .. Len(toCore) /\ msg = toCore[1] /\ toCore' \in Seq(Messages)
      /\ UNCHANGED <<second, place, result, sources, temps, meant, clashed>>
      /\ Saved' = Saved /\ InOrder' /\ OverStays
  BY HandlerTakes DEF InsertAudioRecord
<1>2. /\ Unique(msg.path) /\ rows' = rows \cup {row} /\ lastId' = lastId + 1
      /\ list' = list \cup {[id |-> row.id, rec |-> row.rec]}
      /\ reported' = reported \cup {msg.rec} /\ UNCHANGED <<files, deleting>>
  BY DEF InsertAudioRecord
<1>3. msg.rec \in Recordings /\ msg.path \in Paths
  BY <1>1 DEF Messages, GetAll
<1>4. msg.rec \notin reported /\ msg.path = result[msg.rec] /\ Awaited(msg.rec)
  BY <1>1 DEF Inv, ReportedOnce, TrueReport, IsReport, Awaited
<1>5. Types'
  BY <1>1, <1>2, <1>3 DEF Inv, Types
<1>6. Audio'
  BY <1>1, <1>2 DEF Inv, Audio
<1>7. ReportedOnce'
  BY <1>1, <1>2, ReportsTake DEF Inv, IsReport
<1>8. Ids'
  <2>1. /\ lastId \in Nat /\ \A q \in rows : q.id \in Nat /\ q.id <= lastId /\ q.rec \in reported
        /\ \A entry \in list : entry.id \in Nat /\ entry.id <= lastId /\ entry.rec \in reported
    BY DEF Inv, Types, Ids
  <2>2. /\ \A q \in rows : q.id # lastId + 1 /\ q.path # msg.path /\ q.rec # msg.rec
        /\ \A entry \in list : entry.id # lastId + 1
    BY <1>2, <1>4, <2>1 DEF Unique
  <2>3. \A q \in rows' : q.id <= lastId' /\ q.rec \in reported' /\ q.path # deleting'
    BY <1>1, <1>2, <1>3, <2>1, NoPathIsNone DEF Inv, Ids
  <2>4. \A q, other \in rows' :
          q.id = other.id \/ q.path = other.path \/ q.rec = other.rec => q = other
    BY <1>2, <2>2 DEF Inv, Ids
  <2>5. \A entry \in list' : /\ entry.id <= lastId' /\ entry.rec \in reported'
                             /\ \A q \in rows' : q.id = entry.id => q.rec = entry.rec
    BY <1>2, <2>1, <2>2 DEF Inv, Ids
  <2>6. ASSUME NEW i \in 1 .. Len(toCore)', toCore'[i].kind = "remove"
        PROVE  /\ toCore'[i].id <= lastId'
               /\ \A q \in rows' : q.id = toCore'[i].id => q.rec \in meant'
    <3>1. i + 1 \in 1 .. Len(toCore) /\ toCore'[i] = toCore[i + 1]
      BY <1>1, TakesIndex DEF Inv
    <3>2. /\ toCore[i + 1].id <= lastId
          /\ \A q \in rows : q.id = toCore[i + 1].id => q.rec \in meant
      BY <2>6, <3>1 DEF Inv, Ids
    <3>3. toCore[i + 1].id \in Nat
      <4>1. toCore[i + 1] \in Messages
        BY <3>1 DEF Inv, Types
      <4>2. QED BY <2>6, <3>1, <4>1 DEF Messages, GetAll
    <3>4. QED BY <1>1, <1>2, <2>1, <3>1, <3>2, <3>3
  <2>7. QED BY <2>3, <2>4, <2>5, <2>6 DEF Ids
<1>9. ASSUME Match
      PROVE  Match'
  <2>1. files[msg.path] = msg.rec
    BY <1>3, <1>4, <1>9 DEF Match
  <2>2. \A q \in rows' : files'[q.path] = q.rec
    BY <1>2, <1>9, <2>1 DEF Match
  <2>3. \A q \in Recordings : Awaited(q)' => Awaited(q)
    BY <1>1, AwaitedTakes DEF Inv
  <2>4. QED BY <1>1, <1>2, <1>9, <2>2, <2>3 DEF Match
<1>10. QED BY <1>1, <1>5, <1>6, <1>7, <1>8, <1>9 DEF Inv

\* The file of the row is next; it holds what the row was made for.
LEMMA RemoveInv ==
  ASSUME Inv, NEW row \in rows, RemoveAudioRecord(row)
  PROVE  Inv'
<1>1. /\ Takes /\ Head(toCore) \in Messages /\ Head(toCore).kind = "remove" /\ deleting = NoPath
      /\ toCore' \in Seq(Messages)
      /\ UNCHANGED <<second, place, result, sources, temps, meant, clashed>>
      /\ Saved' = Saved /\ InOrder' /\ OverStays
  BY HandlerTakes DEF RemoveAudioRecord
<1>2. /\ rows' = rows \ {row} /\ deleting' = row.path /\ UNCHANGED <<files, lastId, reported>>
      /\ list' = {entry \in list : entry.id # row.id}
  BY DEF RemoveAudioRecord
<1>3. Types'
  BY <1>1, <1>2 DEF Inv, Types
<1>4. Audio'
  BY <1>1, <1>2 DEF Inv, Audio
<1>5. ReportedOnce'
  BY <1>1, <1>2, ReportsTake DEF Inv
<1>6. Ids'
  <2>1. \A q \in rows' : q.path # deleting'
    BY <1>2 DEF Inv, Ids
  <2>2. QED BY <1>1, <1>2, <2>1, IdsTake DEF Inv, IdsKept
<1>7. ASSUME Match
      PROVE  Match'
  <2>1. \A q \in rows' : files[q.path] = q.rec
    BY <1>2, <1>7 DEF Match
  <2>2. files[row.path] \in reported
    BY <1>7 DEF Inv, Ids, Match
  <2>3. \A q \in Recordings : Awaited(q)' => Awaited(q)
    BY <1>1, AwaitedTakes DEF Inv
  <2>4. QED BY <1>1, <1>2, <1>7, <2>1, <2>2, <2>3 DEF Match
<1>8. QED BY <1>1, <1>3, <1>4, <1>5, <1>6, <1>7 DEF Inv

\* Whoever awaits a row has not been reported, so his file is another.
LEMMA DeleteFileInv == Inv /\ DeleteFile => Inv'
<1> SUFFICES ASSUME Inv, DeleteFile
             PROVE  Inv'
  OBVIOUS
<1>1. /\ deleting \in Paths /\ deleting' = NoPath /\ files' = [files EXCEPT ![deleting] = None]
      /\ UNCHANGED <<second, place, result, sources, temps, toCore, rows, lastId, list, reported,
                     meant, clashed>>
  BY DEF DeleteFile, recorder, database, history, Inv, Types
<1>2. Types'
  BY <1>1 DEF Inv, Types
<1>3. Saved' = Saved /\ InOrder'
  BY <1>1 DEF Inv, Saved, InOrder
<1>4. Audio'
  BY <1>1, <1>3 DEF Inv, Types, Audio
<1>5. ReportedOnce' /\ Ids'
  <2>1. OverStays
    BY <1>1 DEF OverStays, Over
  <2>2. \A row \in rows' : row.path # deleting'
    BY <1>1, NoPathIsNone DEF Inv, Types
  <2>3. QED BY <1>1, <2>1, <2>2, ReportsStay, IdsStay DEF Inv, IdsKept
<1>6. ASSUME Match
      PROVE  Match'
  <2>1. files[deleting] \in reported
    BY <1>1, <1>6, NoPathIsNone DEF Match
  <2>2. ASSUME NEW q \in Recordings, Awaited(q)
        PROVE  /\ result[q] \in Paths /\ result[q][2] = second[q] /\ files[result[q]] = q
               /\ result[q] # deleting
    <3>1. result[q] \in Paths /\ result[q][2] = second[q] /\ files[result[q]] = q
      BY <1>6, <2>2 DEF Match
    <3>2. q \notin reported
      BY <2>2 DEF Inv, Awaited, ReportedOnce, TrueReport, IsReport, Over
    <3>3. QED BY <2>1, <3>1, <3>2
  <2>3. \A q \in Recordings : Awaited(q)' => Awaited(q)
    BY <1>1 DEF Awaited
  <2>4. \A row \in rows : files'[row.path] = row.rec
    BY <1>1, <1>6 DEF Inv, Types, Ids, Match
  <2>5. \A q \in Recordings : Awaited(q)' => /\ result'[q] \in Paths /\ result'[q][2] = second'[q]
                                             /\ files'[result'[q]] = q
    BY <1>1, <2>2, <2>3 DEF Inv, Types
  <2>6. QED BY <1>1, <1>3, <1>6, <2>4, <2>5 DEF Match
<1>7. QED BY <1>1, <1>2, <1>3, <1>4, <1>5, <1>6 DEF Inv

LEMMA DeleteFileFailsInv == Inv /\ DeleteFileFails => Inv'
<1> SUFFICES ASSUME Inv, DeleteFileFails
             PROVE  Inv'
  OBVIOUS
<1>1. /\ deleting' = NoPath
      /\ UNCHANGED <<second, place, result, sources, temps, files, toCore, rows, lastId, list,
                     reported, meant, clashed>>
  BY DEF DeleteFileFails, recorder, database
<1>2. Types'
  BY <1>1 DEF Inv, Types
<1>3. Saved' = Saved /\ InOrder' /\ Audio'
  BY <1>1 DEF Inv, Saved, InOrder, Audio
<1>4. ReportedOnce' /\ Ids'
  <2>1. OverStays
    BY <1>1 DEF OverStays, Over
  <2>2. \A row \in rows' : row.path # deleting'
    BY <1>1, NoPathIsNone DEF Inv, Types
  <2>3. QED BY <1>1, <2>1, <2>2, ReportsStay, IdsStay DEF Inv, IdsKept
<1>5. ASSUME Match
      PROVE  Match'
  BY <1>1, <1>3, <1>5 DEF Match, Awaited
<1>6. QED BY <1>1, <1>2, <1>3, <1>4, <1>5 DEF Inv

LEMMA StepInv == Inv /\ [Next]_vars => Inv'
<1> SUFFICES ASSUME Inv, [Next]_vars
             PROVE  Inv'
  OBVIOUS
<1>1. CASE UNCHANGED vars
  BY <1>1 DEF Inv, Types, InOrder, Audio, ReportedOnce, TrueReport, Over, Ids, Match, Awaited, Saved,
              vars, recorder, database, history
<1>2. ASSUME NEW r \in Recordings, FilterThread(r)
      PROVE  Inv'
  BY <1>2, QuietThreadInv, CopyInv, CopyThrowsInv, NotifyInv DEF FilterThread, QuietThread
<1>3. ASSUME NEW r \in Recordings, NEW t \in Seconds, SaveWavFile(r, t)
      PROVE  Inv'
  BY <1>3, SaveInv
<1>4. CASE MainWorker
  BY <1>4, QuietHandlerInv, InsertInv, RemoveInv, DeleteFileInv, DeleteFileFailsInv DEF MainWorker
<1>5. CASE GetAllRecord \/ (\E entry \in list : RemoveRecord(entry)) \/ CrashCore \/ CrashRecord
  BY <1>5, GetAllInv, RemoveRecordInv, CrashInv
<1>6. QED BY <1>1, <1>2, <1>3, <1>4, <1>5 DEF Next

LEMMA Invariance == Spec => []Inv
BY InitInv, StepInv, PTL DEF Spec

-----------------------------------------------------------------------------
(* Refinement                                                              *)

\* The recordings of the rows.
Kept == {row.rec : row \in rows}

\* What is not the business of a filter thread.
LEMMA ThreadSteps ==
  ASSUME NEW r \in Recordings, FilterThread(r)
  PROVE  UNCHANGED <<second, rows, lastId, deleting, list, removes, crashes, reported, meant, clashed>>
<1>1. PICK from, to : FilterStep(r, from, to)
  <2>1. CASE QuietThread(r)
    BY <2>1 DEF QuietThread, FindSource, SoxFilters, SoxFails, RemoveTemp, RemoveTempThrows,
                RemoveSource, RemoveSourceFails
  <2>2. CASE ~ QuietThread(r)
    BY <2>2 DEF FilterThread, QuietThread, CopyFiltered, CopySource, CopyThrows, CopyBreaksOff,
                NotifyFiltered
  <2>3. QED BY <2>1, <2>2
<1>2. QED BY <1>1 DEF FilterStep, database

LEMMA ClashesStay == [Next]_vars => (clashed => clashed')
<1> SUFFICES ASSUME [Next]_vars, clashed
             PROVE  clashed'
  OBVIOUS
<1>1. CASE UNCHANGED vars
  BY <1>1 DEF vars, history
<1>2. ASSUME NEW r \in Recordings, FilterThread(r) \/ \E t \in Seconds : SaveWavFile(r, t)
      PROVE  clashed'
  <2>1. CASE FilterThread(r)
    BY <2>1, ThreadSteps
  <2>2. CASE \E t \in Seconds : SaveWavFile(r, t)
    BY <2>2 DEF SaveWavFile
  <2>3. QED BY <1>2, <2>1, <2>2
<1>3. CASE MainWorker
  BY <1>3 DEF MainWorker, InsertAudioRecord, InsertFails, FilterWavFileNOTI, GetAllRecords,
              RemoveFails, RemoveAudioRecord, DeleteFile, DeleteFileFails, Handle, history
<1>4. CASE GetAllRecord \/ (\E entry \in list : RemoveRecord(entry)) \/ CrashCore \/ CrashRecord
  BY <1>4 DEF GetAllRecord, RemoveRecord, CrashCore, CrashRecord, Crash, history
<1>5. QED BY <1>1, <1>2, <1>3, <1>4 DEF Next

\* A new row is kept, a request asks, a deleted row is discarded; nothing else shows.
LEMMA ShelfStep ==
  Inv /\ [Next]_vars =>
    \/ UNCHANGED <<Kept, meant>>
    \/ \E r \in Recordings : \/ r \notin Kept \cup meant /\ Kept' = Kept \cup {r} /\ UNCHANGED meant
                             \/ meant' = meant \cup {r} /\ UNCHANGED Kept
                             \/ r \in Kept \cap meant /\ Kept' = Kept \ {r} /\ UNCHANGED meant
<1> SUFFICES ASSUME Inv, [Next]_vars
             PROVE  \/ UNCHANGED <<Kept, meant>>
                    \/ \E r \in Recordings :
                         \/ r \notin Kept \cup meant /\ Kept' = Kept \cup {r} /\ UNCHANGED meant
                         \/ meant' = meant \cup {r} /\ UNCHANGED Kept
                         \/ r \in Kept \cap meant /\ Kept' = Kept \ {r} /\ UNCHANGED meant
  OBVIOUS
<1>1. CASE UNCHANGED vars
  BY <1>1 DEF vars, database, history, Kept
<1>2. ASSUME NEW r \in Recordings, FilterThread(r) \/ \E t \in Seconds : SaveWavFile(r, t)
      PROVE  UNCHANGED <<Kept, meant>>
  <2>1. CASE FilterThread(r)
    BY <2>1, ThreadSteps DEF Kept
  <2>2. CASE \E t \in Seconds : SaveWavFile(r, t)
    BY <2>2 DEF SaveWavFile, database, Kept
  <2>3. QED BY <1>2, <2>1, <2>2
<1>3. CASE GetAllRecord \/ CrashCore \/ CrashRecord
             \/ DeleteFile \/ DeleteFileFails
  BY <1>3 DEF GetAllRecord, CrashCore, CrashRecord, Crash, DeleteFile, DeleteFileFails, database, history, Kept
<1>4. CASE InsertFails \/ FilterWavFileNOTI \/ GetAllRecords \/ RemoveFails
  BY <1>4 DEF InsertFails, FilterWavFileNOTI, GetAllRecords, RemoveFails, Handle, database, Kept
<1>5. CASE InsertAudioRecord
  <2> DEFINE r == Head(toCore).rec
  <2>1. /\ Head(toCore) \in Messages /\ Head(toCore).kind = "insert" /\ 1 \in 1 .. Len(toCore)
        /\ Head(toCore) = toCore[1] /\ UNCHANGED meant
    BY <1>5, HandlerTakes DEF InsertAudioRecord
  <2>2. r \in Recordings /\ r \notin reported
    BY <2>1 DEF Inv, ReportedOnce, TrueReport, IsReport, Messages, GetAll
  <2>3. r \notin Kept \cup meant
    BY <2>2 DEF Inv, Types, Ids, Kept
  <2>4. Kept' = Kept \cup {r}
    <3> DEFINE row == [id |-> lastId + 1, path |-> Head(toCore).path, rec |-> r]
    <3>1. rows' = rows \cup {row} /\ row.rec = r
      BY <1>5 DEF InsertAudioRecord
    <3> HIDE DEF row
    <3>2. QED BY <3>1 DEF Kept
  <2>5. QED BY <2>1, <2>2, <2>3, <2>4
<1>6. ASSUME NEW entry \in list, RemoveRecord(entry)
      PROVE  entry.rec \in Recordings /\ meant' = meant \cup {entry.rec} /\ UNCHANGED Kept
  BY <1>6 DEF RemoveRecord, database, Inv, Types, Kept
<1>7. ASSUME NEW row \in rows, RemoveAudioRecord(row)
      PROVE  /\ row.rec \in Recordings /\ row.rec \in Kept \cap meant /\ Kept' = Kept \ {row.rec}
             /\ UNCHANGED meant
  <2>1. /\ Head(toCore).kind = "remove" /\ 1 \in 1 .. Len(toCore) /\ Head(toCore) = toCore[1]
        /\ UNCHANGED meant
    BY <1>7, HandlerTakes DEF RemoveAudioRecord
  <2>2. row.rec \in Recordings /\ row.rec \in meant
    BY <1>7, <2>1 DEF RemoveAudioRecord, Inv, Types, Ids
  <2>3. rows' = rows \ {row} /\ \A q \in rows : q.rec = row.rec => q = row
    BY <1>7 DEF RemoveAudioRecord, Inv, Ids
  <2>4. row.rec \in Kept /\ Kept' = Kept \ {row.rec}
    BY <2>3 DEF Kept
  <2>5. QED BY <2>1, <2>2, <2>4
<1>8. QED BY <1>1, <1>2, <1>3, <1>4, <1>5, <1>6, <1>7 DEF Next, MainWorker

\* As long as names do not clash, however many recordings, removals and crashes there are,
\* the rows and files are a shelf.
THEOREM Refinement == Spec => ImplementsShelf
<1>1. Init => Shelf!ShelfInit
  BY DEF Init, Shelf!ShelfInit
<1>2. Inv /\ Inv' /\ [Next]_vars => [clashed' \/ Shelf!ShelfNext]_(Shelf!shelfVars)
  <2> SUFFICES ASSUME Inv, Inv', [Next]_vars, ~ clashed'
               PROVE  Shelf!ShelfNext \/ UNCHANGED Shelf!shelfVars
    OBVIOUS
  <2>1. Match /\ Match'
    BY ClashesStay DEF Inv
  <2>2. /\ {files[row.path] : row \in rows} = Kept
        /\ {files[row.path] : row \in rows}' = Kept'
    BY <2>1 DEF Match, Kept
  <2>3. QED
    BY <2>2, ShelfStep DEF Shelf!ShelfNext, Shelf!Keep, Shelf!Ask, Shelf!Discard, Shelf!shelfVars
<1>3. QED BY <1>1, <1>2, Invariance, PTL DEF Spec, ImplementsShelf

-----------------------------------------------------------------------------
(* Removal                                                                 *)

\* Only MainWorker takes files from the audio directory; filter threads write them.
LEMMA OnlyDeleteRemoves ==
  ASSUME Inv, [Next]_vars, NEW p \in Paths, files[p] # None, files'[p] = None
  PROVE  DeleteFile
<1>1. CASE UNCHANGED vars
  BY <1>1 DEF vars
<1>2. ASSUME NEW r \in Recordings, FilterThread(r) \/ \E t \in Seconds : SaveWavFile(r, t)
      PROVE  FALSE
  <2>1. CASE CopyFiltered(r) \/ CopySource(r)
    <3>1. PICK path, audio : CopyTo(r, path, audio)
      BY <2>1 DEF CopyFiltered, CopySource
    <3>2. QED BY <3>1 DEF CopyTo, Inv, Types
  <2>2. CASE QuietThread(r) \/ NotifyFiltered(r)
    BY <2>2 DEF QuietThread, FindSource, SoxFilters, SoxFails, RemoveTemp, RemoveTempThrows,
                RemoveSource, RemoveSourceFails, NotifyFiltered
  <2>3. CASE CopyThrows(r)
    <3>1. PICK from, path, audio : CopyBreaksOff(r, from, path, audio)
      BY <2>3 DEF CopyThrows
    <3>2. PICK part : part # None /\ (UNCHANGED files \/ files' = [files EXCEPT ![path] = part])
      <4>1. UNCHANGED files \/ \E part \in {audio} \ {None} : files' = [files EXCEPT ![path] = part]
        BY <3>1 DEF CopyBreaksOff
      <4>2. 1 # None
        BY DEF None
      <4>3. QED BY <4>1, <4>2
    <3>3. QED BY <3>2 DEF Inv, Types
  <2>4. CASE \E t \in Seconds : SaveWavFile(r, t)
    BY <2>4 DEF SaveWavFile
  <2>5. QED BY <1>2, <2>1, <2>2, <2>3, <2>4 DEF FilterThread, QuietThread
<1>3. CASE MainWorker
  BY <1>3 DEF MainWorker, DeleteFileFails, InsertAudioRecord, InsertFails, FilterWavFileNOTI, GetAllRecords,
              RemoveFails, RemoveAudioRecord
<1>4. CASE GetAllRecord \/ (\E entry \in list : RemoveRecord(entry)) \/ CrashCore \/ CrashRecord
  BY <1>4 DEF GetAllRecord, RemoveRecord, CrashCore, CrashRecord, Crash
<1>5. QED BY <1>1, <1>2, <1>3, <1>4 DEF Next

\* Names may clash as they like: the file that is deleted belongs to no row that is left.
THEOREM Removal == Spec => RemovalSparesOthers
<1>1. Inv /\ [Next]_vars =>
        [\A p \in Paths : files[p] # None /\ files'[p] = None => \A row \in rows' : row.path # p]_vars
  <2> SUFFICES ASSUME Inv, [Next]_vars, NEW p \in Paths, files[p] # None, files'[p] = None
               PROVE  \A row \in rows' : row.path # p
    OBVIOUS
  <2>1. DeleteFile
    BY OnlyDeleteRemoves
  <2>2. p = deleting /\ rows' = rows
    BY <2>1 DEF DeleteFile, database, Inv, Types
  <2>3. QED BY <2>2 DEF Inv, Ids
<1>2. QED BY <1>1, Invariance, PTL DEF Spec, RemovalSparesOthers

-----------------------------------------------------------------------------
(* Types.  Inv has most of them; that lastId stays within bounds is due to *)
(* a recording being inserted once at most, since it is reported once.     *)

Counted ==
  /\ lastId <= Cardinality(reported)
  /\ (\A row \in rows : row.id >= 1) /\ (\A entry \in list : entry.id >= 1)
  /\ removes \in 0 .. MaxRemoves /\ crashes \in 0 .. MaxCrashes /\ strays \subseteq Names

LEMMA RecordingsFinite ==
  ASSUME NEW S \in SUBSET Recordings
  PROVE  IsFiniteSet(S) /\ Cardinality(S) \in 0 .. MaxRecordings
<1>1. MaxRecordings \in Nat
  BY BoundsAreNat DEF BoundsAreNat
<1>2. 1 \in Int /\ MaxRecordings \in Int /\ (IF 1 > MaxRecordings THEN 0 ELSE MaxRecordings - 1 + 1) = MaxRecordings
  BY <1>1
<1>3. IsFiniteSet(Recordings) /\ Cardinality(Recordings) = MaxRecordings
  BY <1>2, FS_Interval DEF Recordings
<1>4. IsFiniteSet(S) /\ Cardinality(S) <= MaxRecordings
  BY <1>3, FS_Subset
<1>5. Cardinality(S) \in Nat
  BY <1>4, FS_CardinalityType
<1>6. QED BY <1>1, <1>4, <1>5

\* Only an insertion gives an id; a list has entries from before and from the rows.
LEMMA IdsGiven ==
  Inv /\ [Next]_vars =>
    \/ InsertAudioRecord
    \/ /\ lastId' = lastId /\ rows' \subseteq rows /\ reported \subseteq reported'
       /\ \A entry \in list' : entry \in list \/ \E row \in rows : entry.id = row.id
<1> SUFFICES ASSUME Inv, [Next]_vars, ~ InsertAudioRecord
             PROVE  /\ lastId' = lastId /\ rows' \subseteq rows /\ reported \subseteq reported'
                    /\ \A entry \in list' : entry \in list \/ \E row \in rows : entry.id = row.id
  OBVIOUS
<1>1. CASE UNCHANGED vars
  BY <1>1 DEF vars, database, history
<1>2. ASSUME NEW r \in Recordings, FilterThread(r) \/ \E t \in Seconds : SaveWavFile(r, t)
      PROVE  UNCHANGED <<lastId, rows, reported, list>>
  <2>1. CASE FilterThread(r)
    BY <2>1, ThreadSteps
  <2>2. CASE \E t \in Seconds : SaveWavFile(r, t)
    BY <2>2 DEF SaveWavFile, database
  <2>3. QED BY <1>2, <2>1, <2>2
<1>3. CASE GetAllRecord \/ (\E entry \in list : RemoveRecord(entry)) \/ CrashCore \/ CrashRecord
             \/ DeleteFile \/ DeleteFileFails
  BY <1>3 DEF GetAllRecord, RemoveRecord, CrashCore, CrashRecord, Crash, DeleteFile, DeleteFileFails, database, history
<1>4. CASE InsertFails \/ FilterWavFileNOTI \/ RemoveFails
  BY <1>4 DEF InsertFails, FilterWavFileNOTI, RemoveFails, database
<1>5. CASE GetAllRecords
  <2>1. PICK newest \in SUBSET rows : list' = {[id |-> row.id, rec |-> row.rec] : row \in newest}
    BY <1>5 DEF GetAllRecords
  <2>2. QED BY <1>5, <2>1 DEF GetAllRecords, database
<1>6. ASSUME NEW row \in rows, RemoveAudioRecord(row)
      PROVE  /\ lastId' = lastId /\ rows' \subseteq rows /\ reported' = reported /\ list' \subseteq list
  BY <1>6 DEF RemoveAudioRecord
<1>7. QED BY <1>1, <1>2, <1>3, <1>4, <1>5, <1>6 DEF Next, MainWorker

LEMMA BoundsKept == Counted /\ [Next]_vars => removes' \in 0 .. MaxRemoves /\ crashes' \in 0 .. MaxCrashes
<1> SUFFICES ASSUME Counted, [Next]_vars
             PROVE  removes' \in 0 .. MaxRemoves /\ crashes' \in 0 .. MaxCrashes
  OBVIOUS
<1>1. /\ removes' \in {removes, removes + 1} /\ (removes' = removes \/ removes < MaxRemoves)
      /\ crashes' \in {crashes, crashes + 1} /\ (crashes' = crashes \/ crashes < MaxCrashes)
  <2>1. CASE UNCHANGED vars
    BY <2>1 DEF vars
  <2>2. ASSUME NEW r \in Recordings, FilterThread(r) \/ \E t \in Seconds : SaveWavFile(r, t)
        PROVE  UNCHANGED <<removes, crashes>>
    BY <2>2, ThreadSteps DEF SaveWavFile
  <2>3. CASE MainWorker
    BY <2>3 DEF MainWorker, InsertAudioRecord, InsertFails, FilterWavFileNOTI, GetAllRecords,
                RemoveFails, RemoveAudioRecord, DeleteFile, DeleteFileFails, Handle
  <2>4. CASE GetAllRecord \/ (\E entry \in list : RemoveRecord(entry)) \/ CrashCore \/ CrashRecord
    BY <2>4 DEF GetAllRecord, RemoveRecord, CrashCore, CrashRecord, Crash
  <2>5. QED BY <2>1, <2>2, <2>3, <2>4 DEF Next
<1>2. MaxRemoves \in Nat /\ MaxCrashes \in Nat
  BY BoundsAreNat DEF BoundsAreNat
<1>3. removes \in 0 .. MaxRemoves /\ crashes \in 0 .. MaxCrashes
  BY DEF Counted
<1>4. QED BY <1>1, <1>2, <1>3

\* What an error leaves is remembered, under its name.
LEMMA StraysStay == Inv /\ [Next]_vars => strays \subseteq strays' /\ strays' \subseteq strays \cup Names
<1> SUFFICES ASSUME Inv, [Next]_vars
             PROVE  strays \subseteq strays' /\ strays' \subseteq strays \cup Names
  OBVIOUS
<1>1. CASE UNCHANGED vars
  BY <1>1 DEF vars, history
<1>2. ASSUME NEW r \in Recordings, FilterThread(r)
      PROVE  strays \subseteq strays' /\ strays' \subseteq strays \cup Names
  <2>1. CASE CopyThrows(r) \/ RemoveTempThrows(r) \/ RemoveSourceFails(r)
    <3>1. PICK from \in Places \ {"new"}, to \in Places \ {"new"} : FilterStep(r, from, to)
      BY <2>1 DEF CopyThrows, CopyBreaksOff, RemoveTempThrows, RemoveSourceFails, Places
    <3>2. /\ second[r] \in Seconds /\ (place[r] = "cleaning" => result[r] \in Paths)
      BY <3>1, ThreadMoves DEF Inv, Types
    <3>3. CASE CopyThrows(r)
      BY <3>2, <3>3 DEF CopyThrows, CopyBreaksOff, Names, Paths
    <3>4. CASE RemoveTempThrows(r)
      BY <3>2, <3>4 DEF RemoveTempThrows, FilterStep, Names
    <3>5. CASE RemoveSourceFails(r)
      BY <3>2, <3>5 DEF RemoveSourceFails, Names
    <3>6. QED BY <2>1, <3>3, <3>4, <3>5
  <2>2. CASE ~ (CopyThrows(r) \/ RemoveTempThrows(r) \/ RemoveSourceFails(r))
    BY <1>2, <2>2 DEF FilterThread, FindSource, SoxFilters, SoxFails, CopyFiltered, CopySource, CopyTo,
                      RemoveTemp, NotifyFiltered, RemoveSource
  <2>3. QED BY <2>1, <2>2
<1>3. ASSUME NEW r \in Recordings, NEW t \in Seconds, SaveWavFile(r, t)
      PROVE  strays' = strays
  BY <1>3 DEF SaveWavFile
<1>4. CASE InsertFails
  <2>1. Head(toCore) \in Messages /\ Head(toCore).kind = "insert"
    BY <1>4, HandlerTakes DEF InsertFails
  <2>2. Head(toCore).path \in Names
    BY <2>1 DEF Messages, GetAll, Names
  <2>3. QED BY <1>4, <2>2 DEF InsertFails
<1>5. CASE DeleteFileFails
  BY <1>5 DEF DeleteFileFails, Inv, Types, Names
<1>6. CASE MainWorker /\ ~ InsertFails /\ ~ DeleteFileFails
  BY <1>6 DEF MainWorker, InsertAudioRecord, FilterWavFileNOTI, GetAllRecords, RemoveFails,
              RemoveAudioRecord, DeleteFile, history
<1>7. CASE GetAllRecord \/ (\E entry \in list : RemoveRecord(entry)) \/ CrashCore \/ CrashRecord
  BY <1>7 DEF GetAllRecord, RemoveRecord, CrashCore, CrashRecord, Crash, history
<1>8. QED BY <1>1, <1>2, <1>3, <1>4, <1>5, <1>6, <1>7 DEF Next

LEMMA CountedInit == Init => Counted
<1> SUFFICES ASSUME Init
             PROVE  Counted
  OBVIOUS
<1>1. lastId = 0 /\ rows = {} /\ list = {} /\ removes = 0 /\ crashes = 0 /\ reported = {}
  BY DEF Init
<1>2. Cardinality({}) = 0
  BY FS_EmptySet
<1>3. 0 \in 0 .. MaxRemoves /\ 0 \in 0 .. MaxCrashes
  BY BoundsAreNat DEF BoundsAreNat
<1>4. strays \subseteq Names
  BY DEF Init
<1>5. QED BY <1>1, <1>2, <1>3, <1>4 DEF Counted

LEMMA CountedStep == Inv /\ Counted /\ Inv' /\ [Next]_vars => Counted'
<1> SUFFICES ASSUME Inv, Counted, Inv', [Next]_vars
             PROVE  Counted'
  OBVIOUS
<1>1. /\ removes' \in 0 .. MaxRemoves /\ crashes' \in 0 .. MaxCrashes
  BY BoundsKept
<1>2. strays' \subseteq Names
  BY StraysStay DEF Counted
<1>3. /\ IsFiniteSet(reported) /\ Cardinality(reported) \in Nat
      /\ IsFiniteSet(reported') /\ Cardinality(reported') \in Nat /\ lastId \in Nat
  BY RecordingsFinite DEF Inv, Types
<1>4. CASE InsertAudioRecord
  <2> DEFINE msg == Head(toCore)
             row == [id |-> lastId + 1, path |-> msg.path, rec |-> msg.rec]
  <2>1. /\ msg.kind = "insert" /\ 1 \in 1 .. Len(toCore) /\ msg = toCore[1]
    BY <1>4, HandlerTakes DEF InsertAudioRecord
  <2>2. msg.rec \notin reported
    BY <2>1 DEF Inv, ReportedOnce, TrueReport, IsReport
  <2>3. /\ rows' = rows \cup {row} /\ lastId' = lastId + 1
        /\ list' = list \cup {[id |-> row.id, rec |-> row.rec]}
        /\ reported' = reported \cup {msg.rec}
    BY <1>4 DEF InsertAudioRecord
  <2>4. Cardinality(reported') = Cardinality(reported) + 1
    BY <1>3, <2>2, <2>3, FS_AddElement
  <2>5. lastId' <= Cardinality(reported')
    BY <1>3, <2>3, <2>4 DEF Counted
  <2>6. lastId + 1 >= 1
    BY <1>3
  <2>7. (\A q \in rows' : q.id >= 1) /\ (\A entry \in list' : entry.id >= 1)
    BY <2>3, <2>6 DEF Counted
  <2>8. QED BY <1>1, <1>2, <2>5, <2>7 DEF Counted
<1>5. CASE /\ lastId' = lastId /\ rows' \subseteq rows /\ reported \subseteq reported'
           /\ \A entry \in list' : entry \in list \/ \E row \in rows : entry.id = row.id
  <2>1. Cardinality(reported) <= Cardinality(reported')
    BY <1>3, <1>5, FS_Subset
  <2>2. lastId' <= Cardinality(reported')
    BY <1>3, <1>5, <2>1 DEF Counted
  <2>3. (\A q \in rows' : q.id >= 1) /\ (\A entry \in list' : entry.id >= 1)
    BY <1>5 DEF Counted
  <2>4. QED BY <1>1, <1>2, <2>2, <2>3 DEF Counted
<1>6. QED BY <1>4, <1>5, IdsGiven

\* All variables keep their types; in particular no more ids are given than recordings are
\* saved, since neither a thread nor a crash reports one twice.
THEOREM TypeCorrect == Spec => []TypeOK
<1>1. Inv /\ Counted => TypeOK
  <2> SUFFICES ASSUME Inv, Counted
               PROVE  TypeOK
    OBVIOUS
  <2>1. Cardinality(reported) \in 0 .. MaxRecordings /\ lastId \in Nat /\ MaxRecordings \in Nat
    BY RecordingsFinite, BoundsAreNat DEF Inv, Types, BoundsAreNat
  <2>2. lastId \in 0 .. MaxRecordings
    BY <2>1 DEF Counted
  <2>3. Recordings \cup {None} = 0 .. MaxRecordings
    BY <2>1 DEF Recordings, None
  <2>4. rows \subseteq [id : 1 .. lastId, path : Paths, rec : Recordings]
    <3>1. \A row \in rows : /\ row \in [id : Nat, path : Paths, rec : Recordings]
                            /\ row.id <= lastId /\ row.id >= 1
      BY DEF Inv, Types, Ids, Counted
    <3>2. \A row \in rows : row.id \in 1 .. lastId
      BY <2>1, <3>1
    <3>3. QED BY <3>1, <3>2
  <2>5. list \subseteq [id : 1 .. lastId, rec : Recordings]
    <3>1. \A entry \in list : /\ entry \in [id : Nat, rec : Recordings]
                              /\ entry.id <= lastId /\ entry.id >= 1
      BY DEF Inv, Types, Ids, Counted
    <3>2. \A entry \in list : entry.id \in 1 .. lastId
      BY <2>1, <3>1
    <3>3. QED BY <3>1, <3>2
  <2>6. meant \subseteq Recordings
    BY DEF Inv, Types
  <2>7. QED BY <2>2, <2>3, <2>4, <2>5, <2>6, Zenon DEF Inv, Types, Counted, TypeOK, Places
<1>2. QED BY <1>1, Invariance, CountedInit, CountedStep, PTL DEF Spec

-----------------------------------------------------------------------------
(* What is left behind.  A source waits for a thread that has not ended, a *)
(* filtered file for one that has not reported, and a file in the audio    *)
(* directory has its row, awaits it or is about to be deleted; or an error *)
(* has left it.                                                            *)

Fine == crashes = 0 /\ ~ clashed

Filtering == {"found", "filtered", "unfiltered", "cleaning"}

SourcesNeeded == \A t \in Seconds : sources[t] # None =>
                   place[sources[t]] # "ended" \/ <<"source", t>> \in strays
TempsNeeded   == \A t \in Seconds : temps[t] # None =>
                   place[temps[t]] \in Filtering \/ <<"temp", t>> \in strays
FilesNeeded   == \A p \in Paths : files[p] # None =>
                   \/ ~ Unique(p) \/ deleting = p \/ p \in strays
                   \/ \E r \in Recordings : Awaited(r) /\ result[r] = p

Tidy == Fine => SourcesNeeded /\ TempsNeeded /\ FilesNeeded

LEMMA TidyInit == Init => Tidy
BY DEF Init, Tidy, SourcesNeeded, TempsNeeded, FilesNeeded

\* What went wrong stays wrong.
LEMMA FineBefore == Counted /\ [Next]_vars /\ Fine' => Fine
<1> SUFFICES ASSUME Counted, [Next]_vars, Fine'
             PROVE  Fine
  OBVIOUS
<1>1. ~ clashed
  BY ClashesStay DEF Fine
<1>2. crashes = 0
  <2>1. crashes \in Nat /\ crashes' = 0
    BY DEF Counted, Fine
  <2>2. crashes' = crashes \/ crashes' = crashes + 1
    <3>1. CASE UNCHANGED vars
      BY <3>1 DEF vars
    <3>2. ASSUME NEW r \in Recordings, FilterThread(r) \/ \E t \in Seconds : SaveWavFile(r, t)
          PROVE  crashes' = crashes
      BY <3>2, ThreadSteps DEF SaveWavFile
    <3>3. CASE MainWorker
      BY <3>3 DEF MainWorker, InsertAudioRecord, InsertFails, FilterWavFileNOTI, GetAllRecords,
                  RemoveFails, RemoveAudioRecord, DeleteFile, DeleteFileFails, Handle
    <3>4. CASE GetAllRecord \/ (\E entry \in list : RemoveRecord(entry)) \/ CrashCore \/ CrashRecord
      BY <3>4 DEF GetAllRecord, RemoveRecord, CrashCore, CrashRecord, Crash
    <3>5. QED BY <3>1, <3>2, <3>3, <3>4 DEF Next
  <2>3. QED BY <2>1, <2>2
<1>3. QED BY <1>1, <1>2 DEF Fine

\* Nothing that is awaited is forgotten, but for the insertion that is taken.
LEMMA StillAwaitedTakes ==
  ASSUME Types, Takes, UNCHANGED place, NEW r, Awaited(r),
         ~ (Head(toCore).kind = "insert" /\ Head(toCore).rec = r)
  PROVE  Awaited(r)'
<1>1. CASE place[r] \in {"cleaning", "copied"}
  BY <1>1 DEF Awaited
<1>2. ASSUME NEW i \in 1 .. Len(toCore), toCore[i].kind = "insert", toCore[i].rec = r
      PROVE  Awaited(r)'
  <2>1. /\ toCore \in Seq(Messages) /\ toCore # <<>> /\ toCore' = Tail(toCore)
    BY DEF Types, Takes
  <2>2. /\ Len(toCore)' = Len(toCore) - 1 /\ Head(toCore) = toCore[1] /\ Len(toCore) \in Nat \ {0}
        /\ \A k \in 1 .. Len(toCore)' : toCore'[k] = toCore[k + 1]
    BY <2>1, TailIndex
  <2>3. i # 1
    BY <1>2, <2>2
  <2>4. i - 1 \in 1 .. Len(toCore)' /\ (i - 1) + 1 = i
    BY <2>2, <2>3
  <2>5. toCore'[i - 1] = toCore[i]
    BY <2>2, <2>4
  <2>6. QED BY <1>2, <2>4, <2>5 DEF Awaited
<1>3. QED BY <1>1, <1>2 DEF Awaited

LEMMA StillAwaitedAdds ==
  ASSUME Types, NEW m, Adds(m), NEW r, Awaited(r),
         place[r] \in {"cleaning", "copied"} => place'[r] \in {"cleaning", "copied"}
  PROVE  Awaited(r)'
<1>1. /\ Len(toCore)' = Len(toCore) + 1 /\ Len(toCore) \in Nat
      /\ \A i \in 1 .. Len(toCore) : toCore'[i] = toCore[i]
  <2>1. toCore \in Seq(Messages) /\ m \in Messages /\ toCore' = Append(toCore, m)
    BY DEF Types, Adds
  <2>2. QED BY <2>1
<1>2. QED BY <1>1 DEF Awaited

\* A file stays needed where rows, files, results and what is awaited stay.
LEMMA FilesStay ==
  ASSUME FilesNeeded, UNCHANGED <<files, rows, deleting>>, strays \subseteq strays',
         \A r \in Recordings : Awaited(r) => Awaited(r)' /\ result'[r] = result[r]
  PROVE  FilesNeeded'
BY DEF FilesNeeded, Unique

-----------------------------------------------------------------------------
(* Filter threads                                                          *)

\* With names that do not clash, what a recording finds under its name is its own.
LEMMA OwnAudio ==
  ASSUME Inv, Fine, NEW r \in Saved
  PROVE  /\ second[r] \in Seconds
         /\ sources[second[r]] # None => sources[second[r]] = r
         /\ temps[second[r]] # None => temps[second[r]] = r
<1>1. second[r] \in Seconds
  BY DEF Inv, InOrder
<1>2. Match
  BY DEF Inv, Fine
<1>3. QED BY <1>1, <1>2 DEF Inv, Audio, Match

LEMMA TidyQuietThread ==
  ASSUME Inv, Fine, Tidy, NEW r \in Recordings, QuietThread(r), strays \subseteq strays'
  PROVE  Tidy'
<1>1. PICK from \in Places \ {"new"}, to \in Places \ {"new"} :
        /\ FilterStep(r, from, to) /\ (to = "ended" <=> RemoveSource(r) \/ RemoveSourceFails(r))
        /\ from # "copied" /\ (from = "cleaning" <=> RemoveTemp(r) \/ RemoveTempThrows(r))
        /\ (RemoveTemp(r) => to = "copied")
        /\ (from \in Filtering \ {"cleaning"} => to \in Filtering)
        /\ (from \notin Filtering \ {"cleaning"} => UNCHANGED temps \/ RemoveTemp(r))
  <2>1. CASE FindSource(r) \/ SoxFilters(r) \/ SoxFails(r)
    BY <2>1 DEF FindSource, SoxFilters, SoxFails, RemoveTemp, RemoveTempThrows, RemoveSource,
                RemoveSourceFails, FilterStep, Places, Filtering
  <2>2. CASE RemoveTemp(r) \/ RemoveTempThrows(r)
    BY <2>2 DEF RemoveTemp, RemoveTempThrows, RemoveSource, RemoveSourceFails, FilterStep, Places,
                Filtering
  <2>3. CASE RemoveSource(r) \/ RemoveSourceFails(r)
    BY <2>3 DEF RemoveTemp, RemoveTempThrows, RemoveSource, RemoveSourceFails, FilterStep, Places,
                Filtering
  <2>4. QED BY <2>1, <2>2, <2>3 DEF QuietThread
<1>2. /\ r \in Saved /\ place[r] = from /\ place' = [place EXCEPT ![r] = to]
      /\ place \in [Recordings -> Places] /\ UNCHANGED <<second, rows, deleting>>
  BY <1>1, ThreadMoves DEF Inv, Types
<1>3. UNCHANGED <<result, files, toCore>>
  BY DEF QuietThread, FindSource, SoxFilters, SoxFails, RemoveTemp, RemoveTempThrows, RemoveSource,
         RemoveSourceFails
<1>4. /\ second[r] \in Seconds /\ (sources[second[r]] # None => sources[second[r]] = r)
      /\ (temps[second[r]] # None => temps[second[r]] = r)
      /\ sources \in [Seconds -> Recordings \cup {None}] /\ temps \in [Seconds -> Recordings \cup {None}]
      /\ \A t \in Seconds : sources[t] = r \/ temps[t] = r => t = second[r]
  <2>1. r # None
    BY DEF Recordings, None
  <2>2. \A t \in Seconds : sources[t] = r \/ temps[t] = r => t = second[r]
    BY <2>1 DEF Inv, Audio
  <2>3. QED BY <1>2, <2>2, OwnAudio DEF Inv, Types
<1>5. SourcesNeeded'
  <2>1. CASE RemoveSource(r)
    <3>1. sources' = [sources EXCEPT ![second[r]] = None]
      BY <2>1 DEF RemoveSource
    <3>2. \A t \in Seconds : sources'[t] # None => sources'[t] = sources[t] /\ sources[t] # r
      BY <1>4, <3>1
    <3>3. QED BY <1>2, <1>4, <3>2 DEF Tidy, SourcesNeeded
  <2>2. CASE RemoveSourceFails(r)
    <3>1. UNCHANGED sources /\ <<"source", second[r]>> \in strays'
      BY <2>2 DEF RemoveSourceFails
    <3>2. \A q \in Recordings : q # r => place'[q] = place[q]
      BY <1>2
    <3>3. QED BY <1>4, <3>1, <3>2 DEF Tidy, SourcesNeeded
  <2>3. CASE ~ RemoveSource(r) /\ ~ RemoveSourceFails(r)
    <3>1. UNCHANGED sources
      BY <2>3 DEF QuietThread, FindSource, SoxFilters, SoxFails, RemoveTemp, RemoveTempThrows
    <3>2. \A q \in Recordings : place[q] # "ended" => place'[q] # "ended"
      BY <1>1, <1>2, <2>3
    <3>3. QED BY <1>4, <3>1, <3>2 DEF Tidy, SourcesNeeded
  <2>4. QED BY <2>1, <2>2, <2>3
<1>6. TempsNeeded'
  <2>1. \A q \in Recordings : q # r => place'[q] = place[q]
    BY <1>2
  <2>2. \A t \in Seconds : t # second[r] => temps'[t] = temps[t]
    BY <1>4 DEF QuietThread, FindSource, SoxFilters, SoxFails, RemoveTemp, RemoveTempThrows,
                RemoveSource, RemoveSourceFails
  <2>3. CASE RemoveTemp(r)
    <3>1. temps'[second[r]] = None
      BY <1>4, <2>3 DEF RemoveTemp
    <3>2. QED BY <1>4, <2>1, <2>2, <3>1 DEF Tidy, TempsNeeded
  <2>4. CASE RemoveTempThrows(r)
    <3>1. UNCHANGED temps /\ <<"temp", second[r]>> \in strays'
      BY <2>4 DEF RemoveTempThrows
    <3>2. QED BY <1>4, <2>1, <3>1 DEF Tidy, TempsNeeded
  <2>5. CASE from \in Filtering \ {"cleaning"}
    <3>1. place'[r] \in Filtering
      BY <1>1, <1>2, <2>5
    <3>2. temps'[second[r]] \in {None, r}
      BY <1>4 DEF QuietThread, FindSource, SoxFilters, SoxFails, RemoveTemp, RemoveTempThrows,
                  RemoveSource, RemoveSourceFails
    <3>3. QED BY <1>4, <2>1, <2>2, <3>1, <3>2 DEF Tidy, TempsNeeded
  <2>6. CASE from \notin Filtering /\ ~ RemoveTemp(r)
    <3>1. UNCHANGED temps
      BY <1>1, <2>6
    <3>2. place[r] \notin Filtering
      BY <1>2, <2>6
    <3>3. QED BY <1>4, <2>1, <3>1, <3>2 DEF Tidy, TempsNeeded
  <2>7. QED BY <1>1, <2>3, <2>4, <2>5, <2>6
<1>7. FilesNeeded'
  <2>1. CASE RemoveTempThrows(r)
    <3>1. result[r] \in strays'
      BY <2>1 DEF RemoveTempThrows
    <3>2. \A q \in Recordings : q # r /\ Awaited(q) => Awaited(q)'
      BY <1>2, <1>3 DEF Awaited
    <3>3. QED BY <1>2, <1>3, <3>1, <3>2 DEF Tidy, FilesNeeded, Unique
  <2>2. CASE ~ RemoveTempThrows(r)
    <3>1. place[r] = "cleaning" => place'[r] = "copied"
      BY <1>1, <1>2, <2>2
    <3>2. \A q \in Recordings : Awaited(q) => Awaited(q)'
      BY <1>1, <1>2, <1>3, <3>1 DEF Awaited
    <3>3. QED BY <1>2, <1>3, <3>2, FilesStay DEF Tidy
  <2>3. QED BY <2>1, <2>2
<1>8. QED BY <1>5, <1>6, <1>7 DEF Tidy

LEMMA TidyCopy ==
  ASSUME Inv, Fine, Tidy, NEW r \in Recordings, CopyFiltered(r) \/ CopySource(r)
  PROVE  Tidy'
<1>1. PICK from, path, audio :
        /\ FilterStep(r, from, "cleaning") /\ CopyTo(r, path, audio)
        /\ from \in {"filtered", "unfiltered"}
        /\ path \in {"filtered_record", "record"} \X {second[r]}
  BY DEF CopyFiltered, CopySource
<1>2. /\ r \in Saved /\ second[r] \in Seconds /\ place[r] = from
      /\ place' = [place EXCEPT ![r] = "cleaning"] /\ place \in [Recordings -> Places]
      /\ UNCHANGED <<second, rows, deleting>>
  BY <1>1, ThreadMoves DEF Places, Inv, Types
<1>3. /\ files' = [files EXCEPT ![path] = audio] /\ result' = [result EXCEPT ![r] = path]
      /\ UNCHANGED <<sources, temps, toCore, strays>> /\ path \in Paths
  BY <1>1, <1>2 DEF CopyTo, Paths
<1>4. /\ result \in [Recordings -> Paths \cup {NoPath}] /\ files \in [Paths -> Recordings \cup {None}]
      /\ sources \in [Seconds -> Recordings \cup {None}] /\ temps \in [Seconds -> Recordings \cup {None}]
  BY DEF Inv, Types
<1>5. SourcesNeeded' /\ TempsNeeded'
  BY <1>2, <1>3, <1>4 DEF Tidy, SourcesNeeded, TempsNeeded, Filtering
<1>6. FilesNeeded'
  <2>1. Awaited(r)' /\ result'[r] = path
    BY <1>2, <1>3, <1>4 DEF Awaited
  <2>2. \A q \in Recordings : Awaited(q) => Awaited(q)' /\ (q # r => result'[q] = result[q])
    BY <1>2, <1>3, <1>4 DEF Awaited
  <2>3. ~ Awaited(r)
    BY <1>1, <1>2 DEF Awaited, Inv, ReportedOnce, TrueReport, IsReport, Over
  <2>4. ASSUME NEW p \in Paths, files'[p] # None
        PROVE  \/ ~ Unique(p)' \/ deleting' = p \/ p \in strays'
               \/ \E q \in Recordings : Awaited(q)' /\ result'[q] = p
    <3>1. CASE p = path
      BY <2>1, <3>1
    <3>2. CASE p # path
      <4>1. files[p] # None
        BY <1>3, <1>4, <2>4, <3>2
      <4>2. \/ ~ Unique(p) \/ deleting = p \/ p \in strays
            \/ \E q \in Recordings : Awaited(q) /\ result[q] = p
        BY <4>1 DEF Tidy, FilesNeeded
      <4>3. Unique(p)' <=> Unique(p)
        BY <1>2 DEF Unique
      <4>4. QED BY <1>2, <1>3, <2>2, <2>3, <4>2, <4>3
    <3>3. QED BY <3>1, <3>2
  <2>5. QED BY <2>4 DEF FilesNeeded
<1>7. QED BY <1>5, <1>6 DEF Tidy

LEMMA TidyCopyThrows ==
  ASSUME Inv, Fine, Tidy, NEW r \in Recordings, CopyThrows(r)
  PROVE  Tidy'
<1>1. PICK from, path, audio :
        /\ CopyBreaksOff(r, from, path, audio) /\ from \in {"filtered", "unfiltered"}
        /\ path \in {"filtered_record", "record"} \X {second[r]}
  BY DEF CopyThrows
<1>2. /\ r \in Saved /\ second[r] \in Seconds /\ place[r] = from
      /\ place' = [place EXCEPT ![r] = "failed"] /\ place \in [Recordings -> Places]
      /\ UNCHANGED <<second, rows, deleting>>
  BY <1>1, ThreadMoves DEF CopyBreaksOff, Places, Inv, Types
<1>3. /\ strays' = strays \cup {path, <<"temp", second[r]>>}
      /\ UNCHANGED <<result, sources, temps, toCore>> /\ path \in Paths
  BY <1>1, <1>2 DEF CopyBreaksOff, Paths
<1>4. /\ files \in [Paths -> Recordings \cup {None}]
      /\ sources \in [Seconds -> Recordings \cup {None}] /\ temps \in [Seconds -> Recordings \cup {None}]
      /\ \A t \in Seconds : temps[t] = r => t = second[r]
  <2>1. r # None
    BY DEF Recordings, None
  <2>2. QED BY <1>2, <2>1 DEF Inv, Types, Audio
<1>5. SourcesNeeded'
  BY <1>2, <1>3, <1>4 DEF Tidy, SourcesNeeded
<1>6. TempsNeeded'
  <2>1. \A q \in Recordings : q # r => place'[q] = place[q]
    BY <1>2
  <2>2. QED BY <1>3, <1>4, <2>1 DEF Tidy, TempsNeeded
<1>7. FilesNeeded'
  <2>1. \A p \in Paths : p # path => files'[p] = files[p]
    BY <1>1, <1>4 DEF CopyBreaksOff
  <2>2. \A q \in Recordings : Awaited(q) => Awaited(q)'
    BY <1>1, <1>2, <1>3 DEF Awaited
  <2>3. QED BY <1>2, <1>3, <2>1, <2>2 DEF Tidy, FilesNeeded, Unique
<1>8. QED BY <1>5, <1>6, <1>7 DEF Tidy

LEMMA TidyNotify ==
  ASSUME Inv, Fine, Tidy, NEW r \in Recordings, NotifyFiltered(r)
  PROVE  Tidy'
<1>1. PICK from \in {"copied", "failed"} :
        /\ FilterStep(r, from, "notified")
        /\ toCore' = Append(toCore, IF from = "copied" THEN Insert(r) ELSE Failed(r))
  BY DEF NotifyFiltered
<1>2. /\ place[r] = from /\ place' = [place EXCEPT ![r] = "notified"]
      /\ place \in [Recordings -> Places] /\ UNCHANGED <<second, rows, deleting>>
  BY <1>1, ThreadMoves DEF Places, Inv, Types
<1>3. UNCHANGED <<result, sources, temps, files, strays>>
  BY DEF NotifyFiltered
<1>4. TempsNeeded'
  BY <1>2, <1>3 DEF Tidy, TempsNeeded, Filtering, Inv, Types
<1>5. SourcesNeeded'
  BY <1>2, <1>3 DEF Tidy, SourcesNeeded, Inv, Types
<1>6. FilesNeeded'
  <2> DEFINE m == IF from = "copied" THEN Insert(r) ELSE Failed(r)
  <2>1. Adds(m) /\ (from = "copied" => m.kind = "insert" /\ m.rec = r)
    BY <1>1, <1>2 DEF Inv, Types, Adds, Messages, Insert, Failed
  <2>2. /\ Len(toCore)' = Len(toCore) + 1 /\ Len(toCore) \in Nat /\ toCore'[Len(toCore) + 1] = m
    <3>1. toCore \in Seq(Messages) /\ m \in Messages /\ toCore' = Append(toCore, m)
      BY <2>1 DEF Inv, Types, Adds
    <3>2. QED BY <3>1
  <2>3. from = "copied" => Awaited(r)'
    <3>1. Len(toCore) + 1 \in 1 .. Len(toCore)'
      BY <2>2
    <3>2. QED BY <2>1, <2>2, <3>1 DEF Awaited
  <2>4. \A q \in Recordings : Awaited(q) => Awaited(q)'
    <3>1. ASSUME NEW q \in Recordings, Awaited(q)
          PROVE  Awaited(q)'
      <4>1. CASE place[q] \in {"cleaning", "copied"} => place'[q] \in {"cleaning", "copied"}
        BY <2>1, <3>1, <4>1, StillAwaitedAdds DEF Inv
      <4>2. CASE place[q] \in {"cleaning", "copied"} /\ place'[q] \notin {"cleaning", "copied"}
        BY <1>2, <2>3, <4>2
      <4>3. QED BY <4>1, <4>2
    <3>2. QED BY <3>1
  <2>5. QED BY <1>2, <1>3, <2>4, FilesStay DEF Tidy
<1>7. QED BY <1>4, <1>5, <1>6 DEF Tidy

LEMMA TidySave ==
  ASSUME Inv, Fine, Tidy, NEW r \in Recordings, NEW t \in Seconds, SaveWavFile(r, t)
  PROVE  Tidy'
<1>1. place[r] = "new"
  BY NextNumber DEF SaveWavFile, Inv
<1>2. /\ place' = [place EXCEPT ![r] = "queued"] /\ sources' = [sources EXCEPT ![t] = r]
      /\ UNCHANGED <<result, temps, files, toCore, rows, deleting, strays>>
  BY DEF SaveWavFile, database
<1>3. place \in [Recordings -> Places] /\ sources \in [Seconds -> Recordings \cup {None}]
  BY DEF Inv, Types
<1>4. TempsNeeded'
  BY <1>1, <1>2, <1>3 DEF Tidy, TempsNeeded, Filtering, Inv, Types
<1>5. SourcesNeeded'
  BY <1>2, <1>3 DEF Tidy, SourcesNeeded
<1>6. FilesNeeded'
  <2>1. \A q \in Recordings : Awaited(q) => Awaited(q)'
    BY <1>1, <1>2, <1>3 DEF Awaited
  <2>2. QED BY <1>2, <2>1, FilesStay DEF Tidy
<1>7. QED BY <1>4, <1>5, <1>6 DEF Tidy

-----------------------------------------------------------------------------
(* Clients and the core manager                                            *)

\* Nothing but the audio directory and its rows is theirs.
LEMMA TidyRecorder ==
  ASSUME Tidy, Fine, UNCHANGED <<place, sources, temps>>, strays \subseteq strays',
         FilesNeeded'
  PROVE  Tidy'
BY DEF Tidy, SourcesNeeded, TempsNeeded

LEMMA TidyClient ==
  ASSUME Inv, Fine, Tidy, GetAllRecord \/ \E entry \in list : RemoveRecord(entry)
  PROVE  Tidy'
<1>1. /\ UNCHANGED <<place, result, sources, temps, files, rows, deleting, strays>>
  BY DEF GetAllRecord, RemoveRecord, recorder, database, history
<1>2. PICK m : Adds(m)
  <2>1. CASE GetAllRecord
    BY <2>1 DEF GetAllRecord, Adds, Messages
  <2>2. ASSUME NEW entry \in list, RemoveRecord(entry)
        PROVE  Adds(Remove(entry.id))
    <3>1. entry.id \in Nat
      BY DEF Inv, Types
    <3>2. QED BY <2>2, <3>1 DEF RemoveRecord, Adds, Messages, Remove
  <2>3. QED BY <2>1, <2>2
<1>3. \A q \in Recordings : Awaited(q) => Awaited(q)'
  BY <1>1, <1>2, StillAwaitedAdds DEF Inv
<1>4. FilesNeeded'
  BY <1>1, <1>3, FilesStay DEF Tidy
<1>5. QED BY <1>1, <1>4, TidyRecorder

\* An insertion that is taken is now a row, or its file is left.
LEMMA TidyHandler ==
  ASSUME Inv, Fine, Tidy, MainWorker, strays \subseteq strays'
  PROVE  Tidy'
<1>1. CASE DeleteFile
  <2>1. /\ deleting \in Paths /\ files' = [files EXCEPT ![deleting] = None]
        /\ UNCHANGED <<place, result, sources, temps, toCore, rows>>
    BY <1>1 DEF DeleteFile, recorder, database, Inv, Types
  <2>2. ASSUME NEW p \in Paths, files'[p] # None
        PROVE  files[p] # None /\ deleting # p
    BY <2>1, <2>2 DEF Inv, Types
  <2>3. \A q \in Recordings : Awaited(q) => Awaited(q)'
    BY <2>1 DEF Awaited
  <2>4. FilesNeeded'
    BY <2>1, <2>2, <2>3 DEF Tidy, FilesNeeded, Unique
  <2>5. QED BY <2>1, <2>4, TidyRecorder
<1>2. ASSUME NEW kind, Handle(kind), UNCHANGED files,
             \A p \in Paths : ~ Unique(p) => ~ Unique(p)' \/ deleting' = p,
             kind = "insert" => \/ \E row \in rows' : row.path = Head(toCore).path
                                \/ Head(toCore).path \in strays'
      PROVE  Tidy'
  <2>1. /\ Takes /\ Head(toCore).kind = kind /\ deleting = NoPath
        /\ 1 \in 1 .. Len(toCore) /\ Head(toCore) = toCore[1]
        /\ UNCHANGED <<place, result, sources, temps>>
    BY <1>2, HandlerTakes
  <2>2. ASSUME NEW p \in Paths, files'[p] # None
        PROVE  \/ ~ Unique(p)' \/ deleting' = p \/ p \in strays'
               \/ \E q \in Recordings : Awaited(q)' /\ result'[q] = p
    <3>1. \/ ~ Unique(p) \/ p \in strays \/ \E q \in Recordings : Awaited(q) /\ result[q] = p
      BY <1>2, <2>1, <2>2, NoPathIsNone DEF Tidy, FilesNeeded
    <3>2. ASSUME NEW q \in Recordings, Awaited(q), result[q] = p
          PROVE  ~ Unique(p)' \/ p \in strays' \/ (Awaited(q)' /\ result'[q] = p)
      <4>1. CASE kind = "insert" /\ Head(toCore).rec = q
        <5>1. Head(toCore).path = result[q]
          BY <2>1, <4>1 DEF Inv, ReportedOnce, TrueReport, IsReport
        <5>2. p \in strays' \/ \E row \in rows' : row.path = p
          BY <1>2, <3>2, <4>1, <5>1
        <5>3. QED BY <5>2 DEF Unique
      <4>2. CASE ~ (kind = "insert" /\ Head(toCore).rec = q)
        BY <2>1, <3>2, <4>2, StillAwaitedTakes DEF Inv
      <4>3. QED BY <4>1, <4>2
    <3>3. QED BY <1>2, <3>1, <3>2
  <2>3. FilesNeeded'
    BY <2>2 DEF FilesNeeded
  <2>4. QED BY <2>1, <2>3, TidyRecorder
<1>3. CASE InsertAudioRecord
  <2> DEFINE row == [id |-> lastId + 1, path |-> Head(toCore).path, rec |-> Head(toCore).rec]
  <2>1. Handle("insert") /\ rows' = rows \cup {row} /\ UNCHANGED files
    BY <1>3 DEF InsertAudioRecord
  <2>2. row.path = Head(toCore).path
    OBVIOUS
  <2> HIDE DEF row
  <2>3. \A p \in Paths : ~ Unique(p) => ~ Unique(p)'
    BY <2>1 DEF Unique
  <2>4. \E new \in rows' : new.path = Head(toCore).path
    BY <2>1, <2>2
  <2>5. QED BY <1>2, <2>1, <2>3, <2>4
<1>4. CASE InsertFails
  <2>1. /\ Handle("insert") /\ UNCHANGED <<files, rows>>
        /\ Head(toCore).path \in strays'
    BY <1>4 DEF InsertFails, database
  <2>2. \A p \in Paths : ~ Unique(p) => ~ Unique(p)'
    BY <2>1 DEF Unique
  <2>3. QED BY <1>2, <2>1, <2>2
<1>5. CASE FilterWavFileNOTI \/ GetAllRecords \/ RemoveFails
  <2>1. PICK kind \in {"failed", "getAll", "remove"} : Handle(kind) /\ UNCHANGED <<files, rows>>
    BY <1>5 DEF FilterWavFileNOTI, GetAllRecords, RemoveFails, database
  <2>2. QED BY <1>2, <2>1 DEF Unique
<1>6. ASSUME NEW row \in rows, RemoveAudioRecord(row)
      PROVE  Tidy'
  <2>1. Handle("remove") /\ UNCHANGED files /\ rows' = rows \ {row} /\ deleting' = row.path
    BY <1>6 DEF RemoveAudioRecord
  <2>2. \A p \in Paths : ~ Unique(p) => ~ Unique(p)' \/ deleting' = p
    BY <2>1 DEF Unique
  <2>3. QED BY <1>2, <2>1, <2>2
<1>7. CASE DeleteFileFails
  <2>1. /\ deleting \in strays' /\ UNCHANGED <<place, result, sources, temps, files, toCore, rows>>
    BY <1>7 DEF DeleteFileFails, recorder, database
  <2>2. \A q \in Recordings : Awaited(q) => Awaited(q)'
    BY <2>1 DEF Awaited
  <2>3. FilesNeeded'
    BY <2>1, <2>2 DEF Tidy, FilesNeeded, Unique
  <2>4. QED BY <2>1, <2>3, TidyRecorder
<1>8. QED BY <1>1, <1>3, <1>4, <1>5, <1>6, <1>7 DEF MainWorker

LEMMA TidyStep == Inv /\ Counted /\ Tidy /\ [Next]_vars => Tidy'
<1> SUFFICES ASSUME Inv, Counted, Tidy, [Next]_vars, Fine'
             PROVE  Tidy'
  BY DEF Tidy
<1>1. Fine /\ strays \subseteq strays'
  BY FineBefore, StraysStay
<1>2. CASE UNCHANGED vars
  BY <1>1, <1>2 DEF vars, recorder, database, history, Tidy, SourcesNeeded, TempsNeeded, FilesNeeded,
                    Unique, Awaited
<1>3. ASSUME NEW r \in Recordings, FilterThread(r)
      PROVE  Tidy'
  BY <1>1, <1>3, TidyQuietThread, TidyCopy, TidyCopyThrows, TidyNotify DEF FilterThread, QuietThread
<1>4. ASSUME NEW r \in Recordings, NEW t \in Seconds, SaveWavFile(r, t)
      PROVE  Tidy'
  BY <1>1, <1>4, TidySave
<1>5. CASE CrashCore \/ CrashRecord
  <2>1. crashes \in Nat /\ crashes' = crashes + 1
    BY <1>5 DEF CrashCore, CrashRecord, Crash, Counted
  <2>2. QED BY <1>1, <2>1 DEF Fine
<1>6. QED BY <1>1, <1>2, <1>3, <1>4, <1>5, TidyHandler, TidyClient DEF Next

\* When all is quiet, /tmp is clean and every file in the audio directory has its row, but
\* for what the errors of sox, the file system and the database are known to leave, for any
\* number of recordings and removals.
THEOREM LeavesNothing == Spec => []NothingLeftBehind
<1>1. Inv /\ Tidy => NothingLeftBehind
  <2> SUFFICES ASSUME Inv, Tidy, Quiet, Fine
               PROVE  /\ \A t \in Seconds : /\ sources[t] = None \/ <<"source", t>> \in strays
                                            /\ temps[t] = None \/ <<"temp", t>> \in strays
                      /\ \A p \in Paths : files[p] = None \/ ~ Unique(p) \/ p \in strays
    BY DEF NothingLeftBehind, Fine
  <2>1. \A r \in Recordings : place[r] \in {"new", "ended"} /\ ~ Awaited(r)
    BY DEF Quiet, Resting, Awaited
  <2>2. \A t \in Seconds : sources[t] = None \/ <<"source", t>> \in strays
    BY <2>1 DEF Tidy, SourcesNeeded, Inv, Audio, Saved
  <2>3. \A t \in Seconds : temps[t] = None \/ <<"temp", t>> \in strays
    BY <2>1 DEF Tidy, TempsNeeded, Filtering, Inv, Types
  <2>4. \A p \in Paths : files[p] = None \/ ~ Unique(p) \/ p \in strays
    BY <2>1, NoPathIsNone DEF Tidy, FilesNeeded, Quiet
  <2>5. QED BY <2>2, <2>3, <2>4
<1>2. QED BY <1>1, Invariance, CountedInit, CountedStep, TidyInit, TidyStep, PTL DEF Spec
=============================================================================
