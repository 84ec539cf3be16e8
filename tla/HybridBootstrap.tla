--------------------------- MODULE HybridBootstrap ---------------------------
(***************************************************************************)
(* Which database a starting ccLoad process trusts                         *)
(* (src/internal/storage/factory.go and sync_manager.go).                  *)
(*                                                                         *)
(* In hybrid mode SQLite is the source of truth, but the first start has   *)
(* to fill it from the primary.  A marker row in SQLite says whether that  *)
(* import is still pending; a database file that is older than the marker  *)
(* is adopted as it is.  The process may die between any two steps, an     *)
(* import may fail, and between two hybrid runs the operator may start the *)
(* program on one of the databases alone (the pure modes of NewStore).     *)
(*                                                                         *)
(* A configuration is the set of the edits that made it, so that one that  *)
(* lost an edit can be told from one that has it.  Logs are told apart by  *)
(* their time; a start reads the clock before any log of its own.  So no   *)
(* two logs have the same time: that logs of one millisecond may be cut in *)
(* two by the `time > ?` of an import is not covered.                      *)
(***************************************************************************)
EXTENDS Naturals

CONSTANTS
  MaxEdits,  \* bound on the edits of the configuration
  MaxTime,   \* bound on the clock
  Days       \* CCLOAD_SQLITE_LOG_DAYS in ticks; 0 imports no logs

ASSUME BootstrapAssumption == MaxEdits \in Nat /\ MaxTime \in Nat /\ Days \in Nat

VARIABLES
  at,          \* how far the process is
  existed,     \* sqliteExisted: the file had data when the process looked
  needsImport, \* what prepareHybridBootstrap answered
  imported,    \* the log import of this start succeeded
  file,        \* the SQLite file has data
  marker,      \* the row of hybrid_bootstrap_state
  conf,        \* the configuration tables of SQLite
  copy,        \* those of the primary
  logs,        \* how often SQLite has the log of a time
  copyLogs,    \* the logs of the primary
  edits,       \* the number of edits so far
  clock,       \* the time of the newest log
  cutShort,    \* history: a start died with its new file unmarked
  split,       \* history: a pure mode wrote to the side that is not trusted
  gap          \* history: SQLite got a log while it lacked an older one

start == <<existed, needsImport, imported>>
disk  == <<file, marker>>
remote == <<copy, copyLogs>>
history == <<cutShort, split, gap>>
vars == <<at, start, disk, conf, logs, remote, edits, clock, history>>

Stages == {"down",
           "looked",    \* sqliteFileHasData has answered
           "created",   \* the database is open, the migration writes
           "migrated",  \* createSQLiteStore has returned
           "prepared",  \* prepareHybridBootstrap has committed
           "connected", \* the primary is open and migrated
           "restored",  \* the configuration has been imported
           "logged",    \* and the logs, or not
           "serving"}   \* NewHybridStore has returned

Times == 1..MaxTime

-----------------------------------------------------------------------------
(* The start of a hybrid process, NewStore *)

Look ==
  /\ at = "down"
  /\ at' = "looked"
  /\ existed' = file
  /\ UNCHANGED <<needsImport, imported, disk, conf, logs, remote, edits, clock, history>>

\* Mutant of CreateFile: the file is looked at after it has been opened.
CreateFile_LooksLate ==
  /\ at = "looked"
  /\ at' = "created"
  /\ file' = TRUE
  /\ existed' = TRUE
  /\ UNCHANGED <<needsImport, imported, marker, conf, logs, remote, edits, clock, history>>

\* Opening the database and its first PRAGMA or table write the file.
CreateFile ==
  /\ at = "looked"
  /\ at' = "created"
  /\ file' = TRUE
  /\ UNCHANGED <<start, marker, conf, logs, remote, edits, clock, history>>

Migrate ==
  /\ at = "created"
  /\ at' = "migrated"
  /\ UNCHANGED <<start, disk, conf, logs, remote, edits, clock, history>>

\* The marker a start goes on with: an existing one, else one that adopts a
\* file from before the marker and has a new file imported.
Status ==
  IF marker # "none" THEN marker ELSE IF existed THEN "complete" ELSE "pending"

Prepare ==
  /\ at = "migrated"
  /\ at' = "prepared"
  /\ marker' = Status
  /\ needsImport' = (Status = "pending")
  /\ UNCHANGED <<existed, imported, file, conf, logs, remote, edits, clock, history>>

Connect ==
  /\ at = "prepared"
  /\ at' = "connected"
  /\ UNCHANGED <<start, disk, conf, logs, remote, edits, clock, history>>

\* Mutant of RestoreConfig: every start imports.
RestoreConfig_Always ==
  /\ at = "connected"
  /\ at' = "restored"
  /\ conf' = copy
  /\ UNCHANGED <<start, disk, logs, remote, edits, clock, history>>

\* One snapshot of the primary, one transaction of SQLite.
RestoreConfig ==
  /\ at = "connected" /\ needsImport
  /\ at' = "restored"
  /\ conf' = copy
  /\ UNCHANGED <<start, disk, logs, remote, edits, clock, history>>

Local == {t \in Times : logs[t] > 0}

\* Mutant of Tail: the last local log is imported again.
Tail_Inclusive(ts) == {t \in ts : \A l \in Local : t >= l}

\* SELECT ... WHERE time > the last local log.
Tail(ts) == {t \in ts : \A l \in Local : t > l}

\* The logs of the last days; time.Now() lies after the newest log.
Recent == {t \in copyLogs : t + Days > clock}

\* importLogsAfterSQLiteTail: the window only limits the import into an empty
\* table.
Missing == IF Local = {} THEN Recent ELSE Tail(copyLogs)

AfterLogs == IF needsImport THEN "logged" ELSE "serving"

\* RestoreLogsOnStartup.
ImportLogs ==
  /\ at = "restored" \/ (at = "connected" /\ ~needsImport)
  /\ logs' = [t \in Times |-> logs[t] + IF Days > 0 /\ t \in Missing THEN 1 ELSE 0]
  /\ imported' = (Days > 0)
  /\ at' = AfterLogs
  /\ UNCHANGED <<existed, needsImport, disk, conf, remote, edits, clock, history>>

\* An error is logged and the start goes on; a commit that reports one may have
\* taken place.
ImportLogsFails ==
  /\ at = "restored" \/ (at = "connected" /\ ~needsImport)
  /\ Days > 0
  /\ \/ UNCHANGED logs
     \/ logs' = [t \in Times |-> logs[t] + IF t \in Missing THEN 1 ELSE 0]
  /\ imported' = FALSE
  /\ at' = AfterLogs
  /\ UNCHANGED <<existed, needsImport, disk, conf, remote, edits, clock, history>>

\* completeHybridBootstrap.
Complete ==
  /\ at = "logged"
  /\ at' = "serving"
  /\ marker' = "complete"
  /\ UNCHANGED <<start, file, conf, logs, remote, edits, clock, history>>

\* The process crashes or stops, or a step reports an error: NewStore returns
\* it and main ends.  A commit in doubt is a commit and then this.
Die ==
  /\ at # "down"
  /\ at' = "down"
  /\ cutShort' = (cutShort \/ (at \in {"created", "migrated"} /\ ~existed /\ marker = "none"))
  /\ UNCHANGED <<start, disk, conf, logs, remote, edits, clock, split, gap>>

-----------------------------------------------------------------------------
(* While it serves *)

\* A handler commits to SQLite; the primary hears of it later, or never.
Edit ==
  /\ at = "serving" /\ edits < MaxEdits
  /\ edits' = edits + 1
  /\ conf' = conf \cup {edits'}
  /\ UNCHANGED <<at, start, disk, logs, remote, clock, history>>

\* The copy of one row.
CopyRow(e) ==
  /\ at = "serving"
  /\ copy' = copy \cup {e}
  /\ UNCHANGED <<at, start, disk, conf, logs, copyLogs, edits, clock, history>>

\* A full reconciliation, which also deletes rows that SQLite does not have.
Reconcile ==
  /\ at = "serving"
  /\ copy' = conf
  /\ UNCHANGED <<at, start, disk, conf, logs, copyLogs, edits, clock, history>>

\* A log committed to SQLite now would hide one of the primary from the tail.
Hides == \E t \in Recent : logs[t] = 0

\* BatchAddLogs; its copy for the primary may be dropped.
AddLog ==
  /\ at = "serving" /\ clock < MaxTime
  /\ clock' = clock + 1
  /\ logs' = [logs EXCEPT ![clock'] = 1]
  /\ copyLogs' \in {copyLogs, copyLogs \cup {clock'}}
  /\ gap' = (gap \/ Hides)
  /\ UNCHANGED <<at, start, disk, conf, copy, edits, cutShort, split>>

-----------------------------------------------------------------------------
(* The pure modes, between two hybrid runs *)

\* SQLite alone: it keeps its data, but a pending import will replace it, and a
\* file without marker will be adopted whatever the primary has.
RunOnSQLite ==
  /\ at = "down"
  /\ edits < MaxEdits /\ clock < MaxTime
  /\ file' = TRUE
  /\ edits' = edits + 1
  /\ conf' = conf \cup {edits'}
  /\ clock' = clock + 1
  /\ logs' = [logs EXCEPT ![clock'] = 1]
  /\ split' = (split \/ marker # "complete")
  /\ gap' = (gap \/ Hides)
  /\ UNCHANGED <<at, start, marker, remote, cutShort>>

\* The primary alone: a SQLite file that is trusted does not learn of it.
RunOnPrimary ==
  /\ at = "down"
  /\ edits < MaxEdits /\ clock < MaxTime
  /\ edits' = edits + 1
  /\ copy' = copy \cup {edits'}
  /\ clock' = clock + 1
  /\ copyLogs' = copyLogs \cup {clock'}
  /\ split' = (split \/ (file /\ marker # "pending"))
  /\ UNCHANGED <<at, start, disk, conf, logs, cutShort, gap>>

-----------------------------------------------------------------------------
(* Specification *)

Init ==
  /\ at = "down"
  /\ existed = FALSE /\ needsImport = FALSE /\ imported = FALSE
  /\ file = FALSE
  /\ marker = "none"
  /\ conf = {} /\ copy = {}
  /\ logs = [t \in Times |-> 0]
  /\ copyLogs = {}
  /\ edits = 0 /\ clock = 0
  /\ cutShort = FALSE /\ split = FALSE /\ gap = FALSE

NewStore ==
  \/ Look \/ CreateFile \/ Migrate \/ Prepare \/ Connect
  \/ RestoreConfig \/ ImportLogs \/ ImportLogsFails \/ Complete

Next ==
  \/ NewStore
  \/ Die
  \/ Edit
  \/ \E e \in conf : CopyRow(e)
  \/ Reconcile
  \/ AddLog
  \/ RunOnSQLite
  \/ RunOnPrimary

Spec == Init /\ [][Next]_vars

-----------------------------------------------------------------------------
(* Properties *)

\* The type invariant; nothing is served before the marker says complete.
TypeOK ==
  /\ at \in Stages
  /\ existed \in BOOLEAN /\ needsImport \in BOOLEAN /\ imported \in BOOLEAN
  /\ file \in BOOLEAN
  /\ marker \in {"none", "pending", "complete"}
  /\ conf \subseteq 1..MaxEdits /\ copy \subseteq 1..MaxEdits
  /\ logs \in [Times -> Nat]
  /\ copyLogs \subseteq Times
  /\ edits \in 0..MaxEdits /\ clock \in 0..MaxTime
  /\ cutShort \in BOOLEAN /\ split \in BOOLEAN /\ gap \in BOOLEAN
  /\ at = "serving" => marker = "complete"

\* What was committed to SQLite is never replaced by an older primary, however
\* often the process dies and starts; except that edits made on SQLite alone,
\* while an import was pending, fall to that import.
EditsSurvive == [][split \/ conf \subseteq conf']_vars

\* The process never serves from, or copies to the primary, a configuration that
\* lacks what the primary had: an import that was interrupted is done again.
\* Two cases are left out: split, where an operator used a pure mode on the side
\* that is not trusted, and cutShort, where a start died after the SQLite file
\* was created and before it was marked, and the next one adopts the empty file.
SourceIsAhead == at = "serving" /\ ~split /\ ~cutShort => copy \subseteq conf

\* After a log import that succeeded SQLite has every log that the primary has of
\* the last days, unless SQLite got a log while it lacked one of them (a process
\* that served although its import had failed): the import looks behind the last
\* local log only, so no later start makes up for it.
HistoryComplete ==
  at = "serving" /\ imported /\ ~gap => \A t \in Recent : logs[t] > 0

\* No log is imported twice, however often imports fail, or commit and fail.
LogsOnce == \A t \in Times : logs[t] <= 1

\* So every log of the window is imported just once.
ImportedOnce == HistoryComplete /\ LogsOnce
=============================================================================
