---------------------------- MODULE RecordStore ----------------------------
(***************************************************************************)
(* What becomes of a recording once it is captured: RecordWorker writes it *)
(* to a file in /tmp, a detached filter thread turns that into a file in   *)
(* the audio directory and reports it, the core manager's MainWorker adds  *)
(* a row that names the file, and a client may remove both again.          *)
(*                                                                         *)
(* A recording is a number; a file is the number of the recording whose    *)
(* audio it holds.  Every name comes from the second in which the          *)
(* recording was saved, by the local clock, which may show a second twice. *)
(* toCore is the D-Bus connection and the web socket followed by the core  *)
(* manager's event queue.  An operation of the database is one step: its   *)
(* handler blocks on the future, see DBThreadPool.                         *)
(***************************************************************************)
EXTENDS Naturals, Sequences, FiniteSets, FiniteSetsExt

CONSTANTS MaxRecordings, \* bound: recordings that are saved
          Seconds,       \* what the clock shows when they are
          MaxRemoves,    \* bound: removals asked for
          MaxCrashes,    \* bound: times a daemon dies
          Limit          \* rows a list has at most: 100 in the code

ASSUME BoundsAreNat == {MaxRecordings, MaxRemoves, MaxCrashes, Limit} \subseteq Nat

VARIABLES
  second,   \* recording -> the second that names its files
  place,    \* recording -> where its filter thread is
  result,   \* recording -> AudioFilter::filteredFilePath_
  sources,  \* second -> /tmp/record_<second>.wav
  temps,    \* second -> /tmp/filtered_record_<second>.wav
  files,    \* path -> the file in the audio directory
  toCore,   \* on its way to, or queued in, the core manager
  rows,     \* audio_records
  lastId,   \* sqlite_sequence of audio_records
  deleting, \* the file MainWorker is about to delete
  list,     \* the records the clients show
  removes, crashes, \* how many there have been
  reported, \* history: recordings the clients have heard the end of
  meant,    \* history: recordings a client asked to remove
  clashed,  \* history: two recordings have the same name
  strays    \* history: what errors may have left where it was, each by its name

recorder == <<second, place, result, sources, temps>>
database == <<rows, lastId>>
history  == <<reported, meant, clashed, strays>>
vars == <<recorder, files, toCore, database, deleting, list, removes, crashes, history>>

Recordings == 1 .. MaxRecordings
None       == 0 \* no file
NoPath     == <<"none", 0>>
Paths      == {"filtered_record", "record"} \X Seconds
Names      == Paths \cup ({"source", "temp"} \X Seconds)
Saved      == {r \in Recordings : place[r] # "new"}

\* The audio directory may be cleared only when nothing is recorded: it is
\* empty here; so are the database and /tmp.
Init ==
  /\ second = [r \in Recordings |-> None] /\ place = [r \in Recordings |-> "new"]
  /\ result = [r \in Recordings |-> NoPath]
  /\ sources = [t \in Seconds |-> None] /\ temps = [t \in Seconds |-> None]
  /\ files = [p \in Paths |-> None]
  /\ toCore = <<>> /\ rows = {} /\ lastId = 0 /\ deleting = NoPath
  /\ list = {} /\ removes = 0 /\ crashes = 0
  /\ reported = {} /\ meant = {} /\ clashed = FALSE /\ strays = {}

-----------------------------------------------------------------------------
(* The record manager: RecordWorker, then one filter thread per recording  *)

\* saveWavFile, and the event that has the file filtered.
SaveWavFile(r, t) ==
  /\ r = Cardinality(Saved) + 1
  /\ second' = [second EXCEPT ![r] = t] /\ place' = [place EXCEPT ![r] = "queued"]
  /\ sources' = [sources EXCEPT ![t] = r]
  /\ clashed' = (clashed \/ \E q \in Saved : second[q] = t)
  /\ UNCHANGED <<result, temps, files, toCore, database, deleting, list, removes,
                 crashes, reported, meant, strays>>

FilterStep(r, from, to) ==
  /\ place[r] = from /\ place' = [place EXCEPT ![r] = to]
  /\ UNCHANGED <<second, database, deleting, list, removes, crashes, reported, meant, clashed>>

\* applyFilter looks for the source ...
FindSource(r) ==
  /\ FilterStep(r, "queued", IF sources[second[r]] # None THEN "found" ELSE "failed")
  /\ UNCHANGED <<result, sources, temps, files, toCore, strays>>

\* ... has sox filter it into a temporary file, of which a sox that fails may
\* leave a part ...
SoxFilters(r) ==
  /\ FilterStep(r, "found", "filtered")
  /\ sources[second[r]] # None
  /\ temps' = [temps EXCEPT ![second[r]] = sources[second[r]]]
  /\ UNCHANGED <<result, sources, files, toCore, strays>>

SoxFails(r) ==
  /\ FilterStep(r, "found", "unfiltered")
  /\ \E part \in {None, temps[second[r]], sources[second[r]]} :
       temps' = [temps EXCEPT ![second[r]] = part]
  /\ UNCHANGED <<result, sources, files, toCore, strays>>

\* ... copies that, or else the source, to the audio directory ...
CopyTo(r, path, audio) ==
  /\ audio # None
  /\ files' = [files EXCEPT ![path] = audio]
  /\ result' = [result EXCEPT ![r] = path]
  /\ UNCHANGED <<sources, temps, toCore, strays>>

CopyFiltered(r) ==
  /\ FilterStep(r, "filtered", "cleaning")
  /\ CopyTo(r, <<"filtered_record", second[r]>>, temps[second[r]])

CopySource(r) ==
  /\ FilterStep(r, "unfiltered", "cleaning")
  /\ CopyTo(r, <<"record", second[r]>>, sources[second[r]])

\* A filesystem_error: no space, perhaps for the rest of a file that has been
\* begun, or no such file any more.  Nobody removes what there is by then.
CopyBreaksOff(r, from, path, audio) ==
  /\ FilterStep(r, from, "failed")
  /\ files' \in {files} \cup {[files EXCEPT ![path] = part] : part \in {audio} \ {None}}
  /\ strays' = strays \cup {path, <<"temp", second[r]>>}
  /\ UNCHANGED <<result, sources, temps, toCore>>

CopyThrows(r) ==
  \/ CopyBreaksOff(r, "filtered", <<"filtered_record", second[r]>>, temps[second[r]])
  \/ CopyBreaksOff(r, "unfiltered", <<"record", second[r]>>, sources[second[r]])

\* ... and removes the temporary file.
RemoveTemp(r) ==
  /\ FilterStep(r, "cleaning", "copied")
  /\ temps' = [temps EXCEPT ![second[r]] = None]
  /\ UNCHANGED <<result, sources, files, toCore, strays>>

\* The copy is in the audio directory, and yet applyFilter fails.
RemoveTempThrows(r) ==
  /\ FilterStep(r, "cleaning", "failed")
  /\ temps[second[r]] # None
  /\ strays' = strays \cup {result[r], <<"temp", second[r]>>}
  /\ UNCHANGED <<result, sources, temps, files, toCore>>

Insert(r)   == [kind |-> "insert", rec |-> r, path |-> result[r]]
Failed(r)   == [kind |-> "failed", rec |-> r]
Remove(id)  == [kind |-> "remove", id |-> id]
GetAll      == [kind |-> "getAll"]

\* A filter thread that reports only what worked.
NotifyFilteredOnlySuccess(r) ==
  \/ /\ FilterStep(r, "copied", "notified") /\ toCore' = Append(toCore, Insert(r))
     /\ UNCHANGED <<result, sources, temps, files, strays>>
  \/ /\ FilterStep(r, "failed", "notified")
     /\ UNCHANGED <<result, sources, temps, files, toCore, strays>>

\* FILTER_WAV_FILE_NOTI; the core manager's receiver makes a success an event
\* for the database and one for the clients.
NotifyFiltered(r) ==
  /\ \/ FilterStep(r, "copied", "notified") /\ toCore' = Append(toCore, Insert(r))
     \/ FilterStep(r, "failed", "notified") /\ toCore' = Append(toCore, Failed(r))
  /\ UNCHANGED <<result, sources, temps, files, strays>>

\* A filter thread that leaves its source behind.
RemoveSourceNot(r) ==
  /\ FilterStep(r, "notified", "ended")
  /\ UNCHANGED <<result, sources, temps, files, toCore, strays>>

RemoveSource(r) ==
  /\ FilterStep(r, "notified", "ended")
  /\ sources' = [sources EXCEPT ![second[r]] = None]
  /\ UNCHANGED <<result, temps, files, toCore, strays>>

\* A filesystem_error, which is logged.
RemoveSourceFails(r) ==
  /\ FilterStep(r, "notified", "ended")
  /\ sources[second[r]] # None /\ strays' = strays \cup {<<"source", second[r]>>}
  /\ UNCHANGED <<result, sources, temps, files, toCore>>

-----------------------------------------------------------------------------
(* Clients                                                                 *)

RemoveRecord(entry) ==
  /\ removes < MaxRemoves /\ removes' = removes + 1
  /\ entry \in list
  /\ toCore' = Append(toCore, Remove(entry.id)) /\ meant' = meant \cup {entry.rec}
  /\ UNCHANGED <<recorder, files, database, deleting, list, crashes, reported,
                 clashed, strays>>

GetAllRecord ==
  /\ GetAll \notin {toCore[i] : i \in 1 .. Len(toCore)}
  /\ toCore' = Append(toCore, GetAll)
  /\ UNCHANGED <<recorder, files, database, deleting, list, removes, crashes, history>>

-----------------------------------------------------------------------------
(* The core manager: SQLiteDBHandler and SQLiteDatabase                     *)

Handle(kind) ==
  /\ deleting = NoPath /\ toCore # <<>> /\ Head(toCore).kind = kind
  /\ toCore' = Tail(toCore)
  /\ UNCHANGED <<recorder, removes, crashes, meant, clashed>>

Unique(path) == \A row \in rows : row.path # path

\* id INTEGER PRIMARY KEY without AUTOINCREMENT: an id is given again.
InsertAudioRecordReusesIds ==
  /\ Handle("insert")
  /\ LET msg == Head(toCore)
         row == [id |-> Max({0} \cup {q.id : q \in rows}) + 1, path |-> msg.path,
                 rec |-> msg.rec]
     IN  /\ Unique(msg.path)
         /\ rows' = rows \cup {row} /\ list' = list \cup {[id |-> row.id, rec |-> row.rec]}
         /\ reported' = reported \cup {msg.rec}
  /\ UNCHANGED <<files, lastId, deleting, strays>>

\* A table that takes a path twice.
InsertAudioRecordNotUnique ==
  /\ Handle("insert")
  /\ LET msg == Head(toCore)
         row == [id |-> lastId + 1, path |-> msg.path, rec |-> msg.rec]
     IN  /\ rows' = rows \cup {row} /\ list' = list \cup {[id |-> row.id, rec |-> row.rec]}
         /\ reported' = reported \cup {msg.rec}
  /\ lastId' = lastId + 1
  /\ UNCHANGED <<files, deleting, strays>>

\* id AUTOINCREMENT, file_path UNIQUE; the clients hear of the new row.
InsertAudioRecord ==
  /\ Handle("insert")
  /\ LET msg == Head(toCore)
         row == [id |-> lastId + 1, path |-> msg.path, rec |-> msg.rec]
     IN  /\ Unique(msg.path)
         /\ rows' = rows \cup {row} /\ list' = list \cup {[id |-> row.id, rec |-> row.rec]}
         /\ reported' = reported \cup {msg.rec}
  /\ lastId' = lastId + 1
  /\ UNCHANGED <<files, deleting, strays>>

\* The path is there already, or SQLite has its own reasons; the file stays.
InsertFails ==
  /\ Handle("insert")
  /\ reported' = reported \cup {Head(toCore).rec}
  /\ strays' = strays \cup {Head(toCore).path}
  /\ UNCHANGED <<files, database, deleting, list>>

FilterWavFileNOTI ==
  /\ Handle("failed")
  /\ reported' = reported \cup {Head(toCore).rec}
  /\ UNCHANGED <<files, database, deleting, list, strays>>

\* SELECT ... ORDER BY created_at DESC LIMIT; rows of one second in any order,
\* and fewer of them when SQLite stops early, which nobody checks.
GetAllRecords ==
  /\ Handle("getAll")
  /\ \E newest \in SUBSET rows :
       /\ Cardinality(newest) <= Min({Limit, Cardinality(rows)})
       /\ list' = {[id |-> row.id, rec |-> row.rec] : row \in newest}
  /\ UNCHANGED <<files, database, deleting, reported, strays>>

\* DELETE ... RETURNING file_path returns none: there is no such row, or SQLite
\* has its own reasons.
RemoveFails ==
  /\ Handle("remove")
  /\ UNCHANGED <<files, database, deleting, list, reported, strays>>

RemoveAudioRecord(row) ==
  /\ Handle("remove") /\ row.id = Head(toCore).id
  /\ rows' = rows \ {row} /\ deleting' = row.path
  /\ list' = {entry \in list : entry.id # row.id}
  /\ UNCHANGED <<files, lastId, reported, strays>>

\* The pool has deleted the row; MainWorker deletes the file, if it is there.
DeleteFile ==
  /\ deleting # NoPath /\ deleting' = NoPath
  /\ files' = [files EXCEPT ![deleting] = None]
  /\ UNCHANGED <<recorder, toCore, database, list, removes, crashes, history>>

\* The file system refuses, which is logged; the clients hear of a success.
DeleteFileFails ==
  /\ deleting # NoPath /\ deleting' = NoPath
  /\ strays' = strays \cup {deleting}
  /\ UNCHANGED <<recorder, files, toCore, database, list, removes, crashes, reported, meant,
                 clashed>>

-----------------------------------------------------------------------------
(* Crashes.  systemd starts the daemon again; what it had in memory is gone *)
(* and so is what was sent to it meanwhile.                                 *)

Crash ==
  /\ crashes < MaxCrashes /\ crashes' = crashes + 1
  /\ UNCHANGED <<second, result, sources, temps, files, database, list, removes, history>>

CrashCore == Crash /\ toCore' = <<>> /\ deleting' = NoPath /\ UNCHANGED place

CrashRecord ==
  /\ Crash
  /\ place' = [r \in Recordings |-> IF place[r] = "new" THEN "new" ELSE "ended"]
  /\ UNCHANGED <<toCore, deleting>>

-----------------------------------------------------------------------------
FilterThread(r) == \/ FindSource(r) \/ SoxFilters(r) \/ SoxFails(r) \/ CopyFiltered(r)
                   \/ CopySource(r) \/ CopyThrows(r) \/ RemoveTemp(r) \/ RemoveTempThrows(r)
                   \/ NotifyFiltered(r) \/ RemoveSource(r) \/ RemoveSourceFails(r)

MainWorker == \/ InsertAudioRecord \/ InsertFails \/ FilterWavFileNOTI \/ GetAllRecords
              \/ RemoveFails \/ DeleteFile \/ DeleteFileFails
              \/ \E row \in rows : RemoveAudioRecord(row)

Next == \/ \E r \in Recordings : FilterThread(r) \/ \E t \in Seconds : SaveWavFile(r, t)
        \/ MainWorker \/ GetAllRecord \/ \E entry \in list : RemoveRecord(entry)
        \/ CrashCore \/ CrashRecord

\* Filter threads and MainWorker are scheduled; nobody has to record, to ask or
\* to crash.
Fairness == WF_vars(MainWorker) /\ \A r \in Recordings : WF_vars(FilterThread(r))

Spec     == Init /\ [][Next]_vars
FairSpec == Spec /\ Fairness

-----------------------------------------------------------------------------
(* Properties                                                              *)

TypeOK ==
  /\ second \in [Recordings -> Seconds \cup {None}]
  /\ place \in [Recordings -> {"new", "queued", "found", "filtered", "unfiltered",
                               "cleaning", "copied", "failed", "notified", "ended"}]
  /\ result \in [Recordings -> Paths \cup {NoPath}]
  /\ sources \in [Seconds -> 0 .. MaxRecordings]
  /\ temps \in [Seconds -> 0 .. MaxRecordings] /\ files \in [Paths -> 0 .. MaxRecordings]
  /\ rows \subseteq [id : 1 .. lastId, path : Paths, rec : Recordings]
  /\ lastId \in 0 .. MaxRecordings /\ deleting \in Paths \cup {NoPath}
  /\ list \subseteq [id : 1 .. lastId, rec : Recordings]
  /\ removes \in 0 .. MaxRemoves /\ crashes \in 0 .. MaxCrashes
  /\ reported \subseteq Recordings /\ meant \subseteq Recordings
  /\ clashed \in BOOLEAN /\ strays \subseteq Names

\* The shelf is what the files hold that the rows name.
Shelf == INSTANCE RecordShelf WITH shelf <- {files[row.path] : row \in rows}

\* While no two recordings share a name, the rows and files are a shelf: every
\* row gives the audio it was made for, and whatever is removed, by requests that
\* are repeated, late, or from before a crash, is what somebody meant to remove.
ImplementsShelf ==
  Shelf!ShelfInit /\ [][clashed' \/ Shelf!ShelfNext]_(Shelf!shelfVars)

\* Even when names clash, removing one record does not take the file of another:
\* removeAudioRecord deletes a path that no other row has.
RemovalSparesOthers ==
  [][\A p \in Paths : files[p] # None /\ files'[p] = None => \A row \in rows' : row.path # p]_vars

Resting == \A r \in Recordings : place[r] \in {"new", "ended"}
Quiet   == Resting /\ toCore = <<>> /\ deleting = NoPath

\* Nothing is left behind: when all is quiet, /tmp is clean and every file in the
\* audio directory has its row, but for what an error that was reported or logged
\* left under the names of its own recording; unless a daemon died or names clashed.
NothingLeftBehind ==
  Quiet /\ crashes = 0 /\ ~ clashed =>
    /\ \A t \in Seconds : /\ sources[t] = None \/ <<"source", t>> \in strays
                          /\ temps[t] = None \/ <<"temp", t>> \in strays
    /\ \A p \in Paths : files[p] = None \/ ~ Unique(p) \/ p \in strays

\* A recording that was saved is not forgotten, also when sox, a copy or the
\* database fails, or its name clashes: the clients see its row or a failure.  What is
\* saved or reported stays so: this says it of each recording, whenever it is saved.
EveryRecordingReported == []<>(Saved \subseteq reported \/ crashes > 0)
=============================================================================
