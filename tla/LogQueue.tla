------------------------------- MODULE LogQueue -------------------------------
(***************************************************************************)
(* The log service (src/internal/app/log_service.go): handlers put their   *)
(* entries into a bounded channel without waiting, one worker collects     *)
(* batches and writes each in a transaction, trying twice, and the         *)
(* shutdown makes it write what it finds and end.                          *)
(*                                                                         *)
(* An entry is named by its request.  A write that reports an error has    *)
(* not happened, unless it is the commit whose answer was lost: then it    *)
(* has, and a second attempt stores the batch again (`doubtful`).          *)
(***************************************************************************)
EXTENDS ServerLifecycle, Sequences

CONSTANTS
  LogCap,      \* capacity of logChan
  BatchSize,   \* config.LogBatchSize
  MaxAttempts  \* config.LogFlushMaxRetries

ASSUME LogAssumption == {LogCap, BatchSize, MaxAttempts} \subseteq Nat \ {0}

VARIABLES
  logChan,      \* the entries in the channel, oldest first
  logWorker,    \* where logWorker is
  batch,        \* the entries it has taken
  attempt,      \* the attempt of flushLogs that runs or has failed; 0: none
  backoff,      \* ... it has failed, and the timer of the next one runs
  stored,       \* request -> rows of its entry in the logs table
  doubtful,     \* history: entries of a batch whose commit lost its answer
  droppedLogs,  \* counted by logDropCount
  failedLogs,   \* counted by logFailCount
  skippedLogs   \* not taken during the shutdown, and not counted

logVars == <<logChan, logWorker, batch, attempt, backoff, stored, doubtful,
             droppedLogs, failedLogs, skippedLogs>>

\* The worker is in its main select, in the loop that the shutdown signal
\* starts, in the last flush of that loop, or gone.
LogWorkerModes == {"running", "draining", "last", "ended"}

Entries(s) == {s[i] : i \in DOMAIN s}

-----------------------------------------------------------------------------
(* LogService.AddLogAsync, in the handler *)

\* The shutdown check.
CheckLog(r) ==
  /\ Up
  /\ at[r] = "log"
  /\ IF isShuttingDown
     THEN Goto(r, AfterLog(r)) /\ skippedLogs' = skippedLogs \cup {r}
     ELSE Goto(r, "logSend") /\ UNCHANGED skippedLogs
  /\ UNCHANGED <<phase, clean, logChan, logWorker, batch, attempt, backoff,
                 stored, doubtful, droppedLogs, failedLogs>>

\* Mutant of SendLog: a full channel makes the entry vanish uncounted.
SendLog_Silent(r) ==
  /\ Up
  /\ at[r] = "logSend"
  /\ logChan' = IF Len(logChan) < LogCap THEN Append(logChan, r) ELSE logChan
  /\ Goto(r, AfterLog(r))
  /\ UNCHANGED <<phase, clean, logWorker, batch, attempt, backoff,
                 stored, doubtful, droppedLogs, failedLogs, skippedLogs>>

SendLog(r) ==
  /\ Up
  /\ at[r] = "logSend"
  /\ \/ Len(logChan) < LogCap /\ logChan' = Append(logChan, r) /\ UNCHANGED droppedLogs
     \/ Len(logChan) >= LogCap /\ droppedLogs' = droppedLogs \cup {r} /\ UNCHANGED logChan
  /\ Goto(r, AfterLog(r))
  /\ UNCHANGED <<phase, clean, logWorker, batch, attempt, backoff,
                 stored, doubtful, failedLogs, skippedLogs>>

-----------------------------------------------------------------------------
(* logWorker *)

Collecting == Up /\ logWorker \in {"running", "draining"} /\ attempt = 0

\* An entry joins the batch; a full batch is flushed at once.
TakeLog ==
  /\ Collecting
  /\ logChan # << >>
  /\ batch' = Append(batch, Head(logChan))
  /\ logChan' = Tail(logChan)
  /\ attempt' = IF Len(batch') >= BatchSize THEN 1 ELSE 0
  /\ UNCHANGED <<lifeVars, logWorker, backoff, stored, doubtful, droppedLogs, failedLogs, skippedLogs>>

\* The ticker flushes what there is.
TickerFlush ==
  /\ Collecting
  /\ logWorker = "running" /\ batch # << >>
  /\ attempt' = 1
  /\ UNCHANGED <<lifeVars, logChan, logWorker, batch, backoff, stored, doubtful,
                 droppedLogs, failedLogs, skippedLogs>>

\* Mutant of StartLogDrain: the worker flushes its batch and ends.
StartLogDrain_Skips ==
  /\ Collecting
  /\ shutdownCh /\ logWorker = "running"
  /\ logWorker' = IF batch = << >> THEN "ended" ELSE "last"
  /\ attempt' = IF batch = << >> THEN 0 ELSE 1
  /\ UNCHANGED <<lifeVars, logChan, batch, backoff, stored, doubtful,
                 droppedLogs, failedLogs, skippedLogs>>

\* The select takes the shutdown signal.
StartLogDrain ==
  /\ Collecting
  /\ shutdownCh /\ logWorker = "running"
  /\ logWorker' = "draining"
  /\ UNCHANGED <<lifeVars, logChan, batch, attempt, backoff, stored, doubtful,
                 droppedLogs, failedLogs, skippedLogs>>

\* Mutant of LogsDrained: with an empty batch the worker waits for more.
LogsDrained_Waits ==
  /\ Collecting
  /\ logWorker = "draining" /\ logChan = << >> /\ batch # << >>
  /\ logWorker' = "last"
  /\ attempt' = 1
  /\ UNCHANGED <<lifeVars, logChan, batch, backoff, stored, doubtful,
                 droppedLogs, failedLogs, skippedLogs>>

\* It finds the channel empty: a last flush, after which it does not look again.
LogsDrained ==
  /\ Collecting
  /\ logWorker = "draining" /\ logChan = << >>
  /\ logWorker' = IF batch = << >> THEN "ended" ELSE "last"
  /\ attempt' = IF batch = << >> THEN 0 ELSE 1
  /\ UNCHANGED <<lifeVars, logChan, batch, backoff, stored, doubtful,
                 droppedLogs, failedLogs, skippedLogs>>

-----------------------------------------------------------------------------
(* flushLogs *)

Writing == Up /\ attempt > 0 /\ ~backoff

Insert == [r \in Requests |-> stored[r] + (IF r \in Entries(batch) THEN 1 ELSE 0)]

FlushEnds ==
  /\ batch' = << >>
  /\ attempt' = 0
  /\ backoff' = FALSE
  /\ logWorker' = IF logWorker = "last" THEN "ended" ELSE logWorker

FlushOk ==
  /\ Writing /\ StoreOpen
  /\ stored' = Insert
  /\ FlushEnds
  /\ UNCHANGED <<lifeVars, logChan, doubtful, droppedLogs, failedLogs, skippedLogs>>

\* Nothing of the batch is stored, or all of it is and the answer is lost.
WriteFails ==
  \/ UNCHANGED <<stored, doubtful>>
  \/ StoreOpen /\ stored' = Insert /\ doubtful' = doubtful \cup Entries(batch)

GiveUp ==
  /\ failedLogs' = failedLogs \cup Entries(batch)
  /\ FlushEnds

\* Another attempt follows unless it was the last, or the server shuts down.
FlushFails ==
  /\ Writing
  /\ WriteFails
  /\ \/ /\ attempt < MaxAttempts /\ ~isShuttingDown
        /\ backoff' = TRUE
        /\ UNCHANGED <<batch, attempt, logWorker, failedLogs>>
     \/ (attempt >= MaxAttempts \/ isShuttingDown) /\ GiveUp
  /\ UNCHANGED <<lifeVars, logChan, droppedLogs, skippedLogs>>

FlushRetry ==
  /\ Up /\ backoff
  /\ attempt' = attempt + 1
  /\ backoff' = FALSE
  /\ UNCHANGED <<lifeVars, logChan, logWorker, batch, stored, doubtful,
                 droppedLogs, failedLogs, skippedLogs>>

\* The shutdown signal ends the wait, and with it the retries.
BackoffCut ==
  /\ Up /\ backoff
  /\ shutdownCh
  /\ GiveUp
  /\ UNCHANGED <<lifeVars, logChan, stored, doubtful, droppedLogs, skippedLogs>>

LogWorkerStep ==
  \/ TakeLog \/ TickerFlush \/ StartLogDrain \/ LogsDrained
  \/ FlushOk \/ FlushFails \/ FlushRetry \/ BackoffCut

\* The end of the process: the table stays.
ForgetLogs ==
  /\ logChan' = << >> /\ logWorker' = "running"
  /\ batch' = << >> /\ attempt' = 0 /\ backoff' = FALSE
  /\ droppedLogs' = {} /\ failedLogs' = {} /\ skippedLogs' = {}
  /\ UNCHANGED <<stored, doubtful>>

logInit ==
  /\ logChan = << >> /\ logWorker = "running"
  /\ batch = << >> /\ attempt = 0 /\ backoff = FALSE
  /\ stored = [r \in Requests |-> 0]
  /\ doubtful = {}
  /\ droppedLogs = {} /\ failedLogs = {} /\ skippedLogs = {}

logTypeOK ==
  /\ logChan \in Seq(Requests) /\ batch \in Seq(Requests)
  /\ logWorker \in LogWorkerModes
  /\ attempt \in 0..MaxAttempts /\ backoff \in BOOLEAN
  /\ stored \in [Requests -> Nat]
  /\ {doubtful, droppedLogs, failedLogs, skippedLogs} \subseteq SUBSET Requests
=============================================================================
