------------------------ MODULE HybridBootstrap_proofs ------------------------
(***************************************************************************)
(* The start-up protocol keeps its promises for any number of edits, logs, *)
(* crashes and runs in pure modes, and any window of days.                 *)
(*                                                                         *)
(* The argument about configurations follows the marker: while it is not   *)
(* complete SQLite has nothing that the primary lacks (so an import takes  *)
(* nothing away), once it is complete the primary has nothing that SQLite  *)
(* lacks, and a file without marker is new, or one of the two exceptions   *)
(* has occurred.  The one about logs follows the tail: what SQLite misses  *)
(* lies behind its last log, or the gap was made before.                   *)
(***************************************************************************)
EXTENDS HybridBootstrap, TLAPS

StartInv ==
  /\ at = "looked" => existed = file
  /\ at \notin {"down", "looked"} => file
  /\ marker # "none" => file
  /\ at \in {"prepared", "connected", "restored", "logged"} =>
       marker = IF needsImport THEN "pending" ELSE "complete"
  /\ at \in {"restored", "logged"} => needsImport /\ copy \subseteq conf

\* A file without marker that no exception explains was created by this start.
NewFile ==
  marker = "none" /\ file /\ ~split /\ ~cutShort => at \in {"created", "migrated"} /\ ~existed

Behind == marker # "complete" /\ ~split => conf \subseteq copy
Ahead  == marker = "complete" /\ ~split /\ ~cutShort => copy \subseteq conf

ConfInv == TypeOK /\ StartInv /\ NewFile /\ Behind /\ Ahead

\* What SQLite has of the logs.
Has(t) == logs[t] > 0
AllRecent == \A t \in Recent : Has(t)

Past == \A t \in Local \cup copyLogs : t <= clock

\* What the next import will not leave out.
TailHasRest ==
  ~gap /\ Local # {} => \A t \in Recent : Has(t) \/ \A l \in Local : t > l

LogInv ==
  /\ LogsOnce
  /\ Past
  /\ TailHasRest
  /\ at \in {"logged", "serving"} /\ imported /\ ~gap => AllRecent

-----------------------------------------------------------------------------
(* Configurations *)

LEMMA InitConf == Init => ConfInv
<1> SUFFICES ASSUME Init PROVE ConfInv
  OBVIOUS
<1>1. TypeOK
  <2>1. logs \in [Times -> Nat]
    BY DEF Init
  <2>2. 0 \in 0..MaxEdits /\ 0 \in 0..MaxTime
    BY BootstrapAssumption
  <2>3. TRUE \in BOOLEAN /\ FALSE \in BOOLEAN
    OBVIOUS
  <2> QED
    BY <2>1, <2>2, <2>3 DEF Init, TypeOK, Stages
<1>2. StartInv
  BY DEF Init, StartInv
<1>3. NewFile /\ Behind /\ Ahead
  BY DEF Init, NewFile, Behind, Ahead
<1> QED
  BY <1>1, <1>2, <1>3 DEF ConfInv

LEMMA TypeKept ==
  ASSUME ConfInv, [Next]_vars
  PROVE  TypeOK'
<1>0. TypeOK /\ StartInv
  BY DEF ConfInv
<1> USE BootstrapAssumption DEF TypeOK, Stages
<1>1. CASE Look
  BY <1>0, <1>1 DEF Look, disk, remote, history
<1>2. CASE CreateFile
  BY <1>0, <1>2 DEF CreateFile, start, remote, history
<1>3. CASE Migrate \/ Connect
  BY <1>0, <1>3, ZenonT(40) DEF Migrate, Connect, start, disk, remote, history
<1>4. CASE Prepare
  BY <1>0, <1>4 DEF Prepare, Status, remote, history
<1>5. CASE RestoreConfig
  BY <1>0, <1>5 DEF RestoreConfig, start, disk, remote, history
<1>6. CASE ImportLogs \/ ImportLogsFails
  <2>1. logs' \in [Times -> Nat]
    BY <1>0, <1>6 DEF ImportLogs, ImportLogsFails
  <2>2. at' = AfterLogs /\ (imported' = (Days > 0) \/ imported' = FALSE)
    BY <1>6 DEF ImportLogs, ImportLogsFails
  <2>3. (Days > 0) \in BOOLEAN
    OBVIOUS
  <2>4. at \in {"connected", "restored"} /\ UNCHANGED <<existed, needsImport, file, marker,
          conf, copy, copyLogs, edits, clock, cutShort, split, gap>>
    BY <1>6 DEF ImportLogs, ImportLogsFails, disk, remote, history
  <2>5. AfterLogs \in {"logged", "serving"} /\ (AfterLogs = "serving" => marker = "complete")
    BY <1>0, <2>4 DEF AfterLogs, StartInv
  <2> QED
    BY <1>0, <2>1, <2>2, <2>3, <2>4, <2>5
<1>7. CASE Complete
  BY <1>0, <1>7 DEF Complete, start, remote, history
<1>8. CASE Die
  BY <1>0, <1>8 DEF Die, start, disk, remote
<1>9. CASE Edit
  BY <1>0, <1>9 DEF Edit, start, disk, remote, history
<1>10. CASE Reconcile
  BY <1>0, <1>10 DEF Reconcile, start, disk, history
<1>11. CASE \E e \in conf : CopyRow(e)
  BY <1>0, <1>11 DEF CopyRow, start, disk, history
<1>12. CASE AddLog
  <2>1. clock' \in 0..MaxTime /\ clock' \in Times
    BY <1>0, <1>12 DEF AddLog, Times
  <2>2. logs' \in [Times -> Nat]
    BY <1>0, <1>12, <2>1 DEF AddLog
  <2>3. copyLogs' \subseteq Times
    BY <1>0, <1>12, <2>1 DEF AddLog
  <2>4. gap' \in BOOLEAN
    BY <1>0, <1>12 DEF AddLog, Hides
  <2> QED
    BY <1>0, <1>12, <2>1, <2>2, <2>3, <2>4 DEF AddLog, start, disk
<1>13. CASE RunOnSQLite
  <2>1. clock' \in 0..MaxTime /\ clock' \in Times /\ edits' \in 1..MaxEdits
    BY <1>0, <1>13 DEF RunOnSQLite, Times
  <2>2. logs' \in [Times -> Nat]
    BY <1>0, <1>13, <2>1 DEF RunOnSQLite
  <2>3. gap' \in BOOLEAN /\ split' \in BOOLEAN
    BY <1>0, <1>13 DEF RunOnSQLite, Hides
  <2>4. conf' \subseteq 1..MaxEdits
    BY <1>0, <1>13, <2>1 DEF RunOnSQLite
  <2> QED
    BY <1>0, <1>13, <2>1, <2>2, <2>3, <2>4 DEF RunOnSQLite, start, remote
<1>14. CASE RunOnPrimary
  <2>1. clock' \in 0..MaxTime /\ clock' \in Times /\ edits' \in 1..MaxEdits
    BY <1>0, <1>14 DEF RunOnPrimary, Times
  <2>2. copy' \subseteq 1..MaxEdits /\ copyLogs' \subseteq Times
    BY <1>0, <1>14, <2>1 DEF RunOnPrimary
  <2> QED
    BY <1>0, <1>14, <2>1, <2>2 DEF RunOnPrimary, start, disk
<1>15. CASE UNCHANGED vars
  BY <1>0, <1>15 DEF vars, start, disk, remote, history
<1> QED
  BY <1>1, <1>2, <1>3, <1>4, <1>5, <1>6, <1>7, <1>8, <1>9, <1>10, <1>11, <1>12, <1>13,
     <1>14, <1>15 DEF Next, NewStore

LEMMA ConfKept ==
  ASSUME ConfInv, [Next]_vars
  PROVE  (StartInv /\ NewFile /\ Behind /\ Ahead)'
<1> USE DEF ConfInv, StartInv, NewFile, Behind, Ahead
<1>1. CASE Look
  BY <1>1 DEF Look, disk, remote, history
<1>2. CASE CreateFile
  BY <1>2 DEF CreateFile, start, remote, history
<1>3. CASE Migrate \/ Connect
  BY <1>3 DEF Migrate, Connect, start, disk, remote, history
<1>4. CASE Prepare
  <2>1. marker' \in {"pending", "complete"} /\ (needsImport' <=> marker' = "pending")
    BY <1>4 DEF Prepare, Status, TypeOK
  <2>2. marker' = "complete" /\ ~split /\ ~cutShort => marker = "complete"
    BY <1>4 DEF Prepare, Status
  <2> QED
    BY <1>4, <2>1, <2>2 DEF Prepare, Status, remote, history
<1>5. CASE RestoreConfig
  BY <1>5 DEF RestoreConfig, start, disk, remote, history
<1>6. CASE ImportLogs \/ ImportLogsFails
  BY <1>6 DEF ImportLogs, ImportLogsFails, AfterLogs, disk, remote, history
<1>7. CASE Complete
  BY <1>7 DEF Complete, start, remote, history
<1>8. CASE Die
  BY <1>8 DEF Die, start, disk, remote, TypeOK
<1>9. CASE Edit \/ Reconcile \/ AddLog
  BY <1>9 DEF Edit, Reconcile, AddLog, start, disk, remote, history, TypeOK
<1>10. CASE \E e \in conf : CopyRow(e)
  BY <1>10 DEF CopyRow, start, disk, history, TypeOK
<1>11. CASE RunOnSQLite
  BY <1>11 DEF RunOnSQLite, start, remote
<1>12. CASE RunOnPrimary
  BY <1>12 DEF RunOnPrimary, start, disk
<1>13. CASE UNCHANGED vars
  BY <1>13 DEF vars, start, disk, remote, history
<1> QED
  BY <1>1, <1>2, <1>3, <1>4, <1>5, <1>6, <1>7, <1>8, <1>9, <1>10, <1>11, <1>12, <1>13
  DEF Next, NewStore

LEMMA ConfInductive == ConfInv /\ [Next]_vars => ConfInv'
  BY TypeKept, ConfKept DEF ConfInv

\* Every variable keeps its type, and nothing is served before the marker is
\* complete.
THEOREM TypeCorrect == Spec => []TypeOK
<1>1. ConfInv => TypeOK
  BY DEF ConfInv
<1> QED
  BY <1>1, InitConf, ConfInductive, PTL DEF Spec

\* A process that serves has what the primary has, outside the two exceptions:
\* an interrupted import is never taken for a complete one.
THEOREM NeverBehind == Spec => []SourceIsAhead
<1>1. ConfInv => SourceIsAhead
  BY DEF ConfInv, TypeOK, Ahead, SourceIsAhead
<1> QED
  BY <1>1, InitConf, ConfInductive, PTL DEF Spec

\* A complete import is never repeated over newer edits.
THEOREM NothingTakenBack == Spec => EditsSurvive
<1>1. ASSUME ConfInv, [Next]_vars
      PROVE  split \/ conf \subseteq conf'
  <2>1. CASE RestoreConfig
    BY <1>1, <2>1 DEF RestoreConfig, ConfInv, StartInv, Behind
  <2>2. CASE Edit \/ RunOnSQLite
    BY <2>2 DEF Edit, RunOnSQLite
  <2>3. CASE Look \/ CreateFile \/ Migrate \/ Prepare \/ Connect \/ ImportLogs \/ ImportLogsFails
             \/ Complete \/ Die \/ Reconcile \/ AddLog \/ RunOnPrimary \/ \E e \in conf : CopyRow(e)
    BY <2>3 DEF Look, CreateFile, Migrate, Prepare, Connect, ImportLogs, ImportLogsFails,
                Complete, Die, Reconcile, AddLog, RunOnPrimary, CopyRow
  <2>4. CASE UNCHANGED vars
    BY <2>4 DEF vars
  <2> QED
    BY <1>1, <2>1, <2>2, <2>3, <2>4 DEF Next, NewStore
<1>2. ConfInv /\ [Next]_vars => [split \/ conf \subseteq conf']_vars
  BY <1>1
<1> QED
  BY <1>2, InitConf, ConfInductive, PTL DEF Spec, EditsSurvive

-----------------------------------------------------------------------------
(* Logs *)

LEMMA InitLog == Init => LogInv
  BY BootstrapAssumption
  DEF Init, LogInv, LogsOnce, Past, TailHasRest, Local, Recent, AllRecent, Times

\* What an import adds was not there, and leaves nothing out unless there is a
\* gap already.
LEMMA ImportIsExact ==
  ASSUME TypeOK, LogInv
  PROVE  /\ Missing \subseteq copyLogs
         /\ \A t \in Missing : t \in Times /\ logs[t] = 0
         /\ ~gap => \A t \in Recent : Has(t) \/ t \in Missing
<1>1. Recent \subseteq copyLogs /\ Tail(copyLogs) \subseteq copyLogs
  BY DEF Recent, Tail
<1>2. copyLogs \subseteq Times /\ \A t \in Times : logs[t] \in Nat
  BY DEF TypeOK
<1>3. CASE Local = {}
  <2>1. Missing = Recent
    BY <1>3 DEF Missing
  <2>2. \A t \in Times : ~ (logs[t] > 0)
    BY <1>3 DEF Local
  <2>3. \A t \in Times : logs[t] = 0
    BY <1>2, <2>2
  <2> QED
    BY <1>1, <1>2, <2>1, <2>3
<1>4. CASE Local # {}
  <2>1. Missing = Tail(copyLogs)
    BY <1>4 DEF Missing
  <2>2. \A t \in Tail(copyLogs) : t \in Times /\ t \notin Local
    BY <1>1, <1>2 DEF Tail, Times
  <2>3. \A t \in Tail(copyLogs) : t \in Times /\ logs[t] = 0
    BY <1>2, <2>2 DEF Local
  <2>4. ~gap => \A t \in Recent : Has(t) \/ t \in Tail(copyLogs)
    BY <1>1, <1>4 DEF LogInv, TailHasRest, Tail
  <2> QED
    BY <1>1, <2>1, <2>3, <2>4
<1> QED
  BY <1>3, <1>4

\* The steps that leave the logs alone, a log import that fails among them.
LEMMA LogsUntouched ==
  ASSUME LogInv, UNCHANGED <<logs, copyLogs, clock, gap>>,
         at' \in {"logged", "serving"} /\ imported' => at \in {"logged", "serving"} /\ imported
  PROVE  LogInv'
<1>1. Local' = Local /\ Recent' = Recent
  BY DEF Local, Recent
<1>2. \A t \in Recent : Has(t)' <=> Has(t)
  BY DEF Has
<1>3. AllRecent' <=> AllRecent
  BY <1>1, <1>2 DEF AllRecent
<1> QED
  BY <1>1, <1>2, <1>3 DEF LogInv, LogsOnce, Past, TailHasRest

LEMMA ImportKeeps ==
  ASSUME TypeOK, LogInv, clock' = clock, copyLogs' = copyLogs, gap' = gap,
         logs' = [t \in Times |-> logs[t] + IF t \in Missing THEN 1 ELSE 0]
  PROVE  LogInv'
<1>1. Missing \subseteq copyLogs /\ \A t \in Missing : t \in Times /\ logs[t] = 0
  BY ImportIsExact
<1>2. \A t \in Times : logs'[t] = (IF t \in Missing THEN 1 ELSE logs[t]) /\ logs[t] \in Nat
  BY <1>1 DEF TypeOK
<1>3. LogsOnce'
  BY <1>2 DEF LogInv, LogsOnce
<1>4. Recent' = Recent /\ Recent \subseteq Times
  BY DEF Recent, TypeOK
<1>5. Local' = Local \cup Missing
  BY <1>1, <1>2 DEF Local
<1>6. Past'
  BY <1>1, <1>5 DEF LogInv, Past
<1>7. ~gap => \A t \in Recent : Has(t)'
  BY <1>2, <1>4, ImportIsExact DEF Has
<1>8. ~gap => AllRecent'
  BY <1>4, <1>7 DEF AllRecent
<1>9. TailHasRest'
  BY <1>4, <1>7 DEF TailHasRest
<1> QED
  BY <1>3, <1>6, <1>8, <1>9 DEF LogInv

LEMMA ImportsKeep ==
  ASSUME TypeOK, LogInv, ImportLogs \/ ImportLogsFails
  PROVE  LogInv'
<1>1. clock' = clock /\ copyLogs' = copyLogs /\ gap' = gap
  BY DEF ImportLogs, ImportLogsFails, remote, history
<1>2. CASE logs' = [t \in Times |-> logs[t] + IF t \in Missing THEN 1 ELSE 0]
  BY <1>1, <1>2, ImportKeeps
<1>3. CASE ImportLogs /\ ~(Days > 0)
  <2>1. logs' = logs
    BY <1>3 DEF ImportLogs, TypeOK
  <2>2. ~imported'
    BY <1>3 DEF ImportLogs
  <2> QED
    BY <1>1, <2>1, <2>2, LogsUntouched
<1>4. CASE ImportLogsFails /\ logs' = logs
  <2>1. ~imported'
    BY <1>4 DEF ImportLogsFails
  <2> QED
    BY <1>1, <1>4, <2>1, LogsUntouched
<1> QED
  BY <1>2, <1>3, <1>4 DEF ImportLogs, ImportLogsFails

\* A log of SQLite, with or without its copy, and what it hides.
LEMMA LocalLogKeeps ==
  ASSUME TypeOK, LogInv, clock < MaxTime, clock' = clock + 1,
         logs' = [logs EXCEPT ![clock'] = 1],
         copyLogs' \in {copyLogs, copyLogs \cup {clock'}},
         gap' = (gap \/ Hides)
  PROVE  (LogsOnce /\ Past /\ TailHasRest)' /\ (~gap' => AllRecent')
<1>1. clock \in Nat /\ clock' \in Times /\ copyLogs \subseteq Times /\ Days \in Nat
  BY BootstrapAssumption DEF TypeOK, Times
<1>2. \A t \in Times : logs'[t] = (IF t = clock' THEN 1 ELSE logs[t]) /\ logs[t] \in Nat
  BY <1>1 DEF TypeOK
<1>3. LogsOnce'
  BY <1>2 DEF LogInv, LogsOnce
<1>4. Local' \subseteq Local \cup {clock'}
  BY <1>2 DEF Local
<1>5. \A t \in Times : t \in Nat
  BY DEF Times
<1>6. Past'
  BY <1>1, <1>4, <1>5 DEF LogInv, Past, Local
<1>7. Recent' \subseteq Recent \cup {clock'} /\ Recent \subseteq Times
  <2>1. Recent \subseteq copyLogs
    BY DEF Recent
  <2>2. ASSUME NEW t \in Recent', t # clock'
        PROVE  t \in Recent
    <3>1. t \in copyLogs /\ t + Days > clock'
      BY <2>2 DEF Recent
    <3> QED
      BY <1>1, <1>5, <3>1 DEF Recent
  <2> QED
    BY <1>1, <2>1, <2>2
<1>8. ~gap' => \A t \in Recent' : Has(t)'
  <2>1. ~gap' => \A t \in Recent : logs[t] # 0
    BY DEF Hides
  <2>2. ~gap' => \A t \in Recent : logs'[t] > 0
    BY <1>2, <1>7, <2>1
  <2>3. logs'[clock'] > 0
    BY <1>1, <1>2
  <2> QED
    BY <1>7, <2>2, <2>3 DEF Has
<1>9. ~gap' => AllRecent'
  BY <1>8 DEF AllRecent
<1> QED
  BY <1>3, <1>6, <1>8, <1>9 DEF TailHasRest

\* A log of the primary alone lies behind the tail.
LEMMA RemoteLogKeeps ==
  ASSUME TypeOK, LogInv, RunOnPrimary
  PROVE  LogInv'
<1>1. /\ at' = "down" /\ logs' = logs /\ gap' = gap /\ clock' = clock + 1
      /\ copyLogs' = copyLogs \cup {clock'} /\ clock < MaxTime
  BY DEF RunOnPrimary
<1>2. clock \in Nat /\ copyLogs \subseteq Times /\ Days \in Nat /\ \A t \in Times : t \in Nat
  BY BootstrapAssumption DEF TypeOK, Times
<1>3. Local' = Local /\ Local \subseteq Times
  BY <1>1 DEF Local
<1>4. Past'
  BY <1>1, <1>2, <1>3 DEF LogInv, Past
<1>5. Recent' \subseteq Recent \cup {clock'} /\ \A l \in Local : clock' > l
  BY <1>1, <1>2, <1>3 DEF Recent, LogInv, Past
<1>6. \A t \in Recent : Has(t)' <=> Has(t)
  BY <1>1 DEF Has
<1>7. TailHasRest'
  BY <1>1, <1>3, <1>5, <1>6 DEF LogInv, TailHasRest
<1> QED
  BY <1>1, <1>4, <1>7 DEF LogInv, LogsOnce

LEMMA LogInductive == TypeOK /\ LogInv /\ [Next]_vars => LogInv'
<1> SUFFICES ASSUME TypeOK, LogInv, [Next]_vars PROVE LogInv'
  OBVIOUS
<1>1. CASE ImportLogs \/ ImportLogsFails
  BY <1>1, ImportsKeep
<1>2. CASE AddLog
  <2>1. (LogsOnce /\ Past /\ TailHasRest)' /\ (~gap' => AllRecent')
    BY <1>2, LocalLogKeeps DEF AddLog
  <2> QED
    BY <2>1 DEF LogInv
<1>3. CASE RunOnSQLite
  <2>1. (LogsOnce /\ Past /\ TailHasRest)' /\ (~gap' => AllRecent')
    BY <1>3, LocalLogKeeps DEF RunOnSQLite, remote
  <2> QED
    BY <2>1 DEF LogInv
<1>4. CASE RunOnPrimary
  BY <1>4, RemoteLogKeeps
<1>5. CASE Look \/ CreateFile \/ Migrate \/ Prepare \/ Connect \/ RestoreConfig
  BY <1>5, LogsUntouched
  DEF Look, CreateFile, Migrate, Prepare, Connect, RestoreConfig, start, remote, history
<1>6. CASE Complete \/ Die \/ Edit \/ Reconcile \/ (\E e \in conf : CopyRow(e)) \/ UNCHANGED vars
  BY <1>6, LogsUntouched
  DEF Complete, Die, Edit, Reconcile, CopyRow, vars, start, remote, history
<1> QED
  BY <1>1, <1>2, <1>3, <1>4, <1>5, <1>6 DEF Next, NewStore

LEMMA Inductive ==
  /\ Init => TypeOK /\ LogInv
  /\ Spec => [](TypeOK /\ LogInv)
<1>1. Init => TypeOK /\ LogInv
  BY InitConf, InitLog DEF ConfInv
<1> QED
  BY <1>1, TypeCorrect, LogInductive, PTL DEF Spec

\* After a log import that succeeded nothing of the window is missing, unless a
\* gap was made before, and nothing was imported twice.
THEOREM HistoryIsComplete == Spec => []ImportedOnce
<1>1. LogInv => ImportedOnce
  BY DEF LogInv, ImportedOnce, HistoryComplete, AllRecent, Has
<1> QED
  BY <1>1, Inductive, PTL
=============================================================================
