------------------------- MODULE PrimaryWriteBehind -------------------------
(***************************************************************************)
(* The write-behind queue between the authoritative SQLite database and    *)
(* the primary database (MySQL or PostgreSQL) of ccLoad's hybrid storage:  *)
(* src/internal/storage/hybrid_writebehind.go, with the cursor of the full *)
(* reconciliation that the queue falls back to (hybrid_reconcile.go).      *)
(*                                                                         *)
(* A task is named by the key of the entity it copies.  Request goroutines *)
(* enqueue (under w.mu); one worker goroutine takes the due task of the    *)
(* smallest generation, runs it without the lock and finishes it.  Every   *)
(* operation below is one critical section of w.mu or of the cursor lock;  *)
(* signal(), which follows the unlock, is part of it: whoever it wakes up   *)
(* only looks at the queue under the lock again.                           *)
(* What a run does to the databases is left open here; HybridReplica says  *)
(* what it is.                                                             *)
(***************************************************************************)
EXTENDS Naturals, FiniteSets

CONSTANTS
  Keys,        \* keys of regular tasks (here: ids of replicated rows)
  LogKeys,     \* keys of best-effort tasks ("logs/latest", "logs/cleanup", ...)
  FullSync,    \* primaryFullSyncKey, the task of the full reconciliation
  MaxPending,  \* primarySyncMaxPending
  PhaseCount,  \* reconcilePhaseCount
  MaxCalls     \* bound: enqueue calls in one behaviour

ASSUME KeysAssumption ==
  /\ Keys \subseteq Nat
  /\ IsFiniteSet(Keys)
  /\ IsFiniteSet(LogKeys)
  /\ Keys \cap LogKeys = {}
  /\ FullSync \notin Keys \cup LogKeys

ASSUME BoundAssumption ==
  /\ MaxPending \in Nat \ {0}
  /\ PhaseCount \in Nat \ {0}
  /\ MaxCalls \in Nat

VARIABLES
  tasks,      \* w.tasks; generation 0 stands for a key that is not in the map
  nextGen,    \* w.nextGen
  wake,       \* w.wake holds a signal (a channel of capacity one)
  closed,     \* w.closed
  cancelled,  \* w.ctx is done
  dropped,    \* w.dropped
  cursor,     \* h.primaryReconcile
  run,        \* the worker: the task it took and how far it is with it
  calls,      \* enqueue calls so far (only to bound them)
  sent,       \* history: best-effort tasks submitted
  stored      \* history: best-effort tasks whose run succeeded

wbVars == <<tasks, nextGen, wake, closed, cancelled, dropped, cursor, run, calls,
            sent, stored>>

-----------------------------------------------------------------------------
(* Types *)

RegularKeys == Keys \cup {FullSync}
TaskKeys    == RegularKeys \cup LogKeys

\* What a regular task makes true of its row on the primary: the row is gone,
\* or it equals the row of SQLite when the task runs.
Wants == {"delete", "sync"}

Task == [gen : Nat, due : BOOLEAN, want : Wants]
NoTask == [gen |-> 0, due |-> FALSE, want |-> "sync"]

Cursor == [active : BOOLEAN, started : BOOLEAN, restart : BOOLEAN,
           phase : Nat, after : Nat]

Stages == {"preparing", \* initializePrimary: the primary is not ready yet
           "idle",      \* between two tasks
           "timed",     \* wait() until a signal or the next retry
           "parked",    \* wait() for a signal only
           "running",   \* task.run has been called
           "paging",    \* reconcilePrimaryPage has read the cursor
           "paged",     \* the page is done and there are more
           "ok", "err", \* task.run has returned
           "exited"}    \* loop() has returned

Run == [stage : Stages, key : TaskKeys, gen : Nat, want : Wants, phase : Nat]

Pending(k) == tasks[k].gen # 0

NewTask(w) == [gen |-> nextGen + 1, due |-> TRUE, want |-> w]

FreshCursor(on) ==
  [active |-> on, started |-> FALSE, restart |-> FALSE, phase |-> 0, after |-> 0]

RegularPending == {k \in RegularKeys : Pending(k)}
LogPending     == {k \in LogKeys : Pending(k)}

-----------------------------------------------------------------------------
(* Enqueueing: enqueueTask, one disjunct per path through it *)

\* Mutant of Dirtied: a mark that the running page may have missed already
\* does not ask for another pass.
Dirtied_NoRestart(cur) == IF ~cur.active THEN FreshCursor(TRUE) ELSE cur

\* markPrimaryReconcileDirty, called with w.mu held.
Dirtied(cur) ==
  IF ~cur.active THEN FreshCursor(TRUE)
  ELSE IF cur.started THEN [cur EXCEPT !.restart = TRUE]
  ELSE cur

\* replaceReconcileTaskLocked, and the signal after it; Kept are the tasks
\* that stay as they are.
ReplaceReconcile(Kept) ==
  /\ wake' = TRUE
  /\ nextGen' = nextGen + 1
  /\ tasks' = [k \in TaskKeys |-> IF k = FullSync THEN NewTask("sync")
                                  ELSE IF k \in Kept THEN tasks[k] ELSE NoTask]

EnqueueClosed ==
  /\ closed
  /\ dropped' = dropped + 1
  /\ UNCHANGED <<tasks, nextGen, wake, cursor>>

\* The running reconciliation takes the mark over.
EnqueueAbsorbed ==
  /\ ~closed
  /\ Pending(FullSync)
  /\ cursor' = Dirtied(cursor)
  /\ ReplaceReconcile(TaskKeys)
  /\ UNCHANGED dropped

\* No room for one more key: one reconciliation replaces all regular tasks.
EnqueueOverflow(k) ==
  /\ ~closed
  /\ ~Pending(FullSync)
  /\ ~Pending(k)
  /\ Cardinality(RegularPending) >= MaxPending
  /\ cursor' = Dirtied(cursor)
  /\ ReplaceReconcile(LogKeys)
  /\ UNCHANGED dropped

EnqueueKeyed(k, w) ==
  /\ ~closed
  /\ ~Pending(FullSync)
  /\ Pending(k) \/ Cardinality(RegularPending) < MaxPending
  /\ wake' = TRUE
  /\ nextGen' = nextGen + 1
  /\ tasks' = [tasks EXCEPT ![k] = NewTask(w)]
  /\ UNCHANGED <<dropped, cursor>>

Enqueue(k, w) ==
  /\ \/ EnqueueClosed
     \/ EnqueueAbsorbed
     \/ EnqueueOverflow(k)
     \/ EnqueueKeyed(k, w)
  /\ UNCHANGED <<closed, cancelled, run, sent, stored>>

\* Mutant of EnqueueBestEffort: a replaced batch is not counted.
EnqueueBestEffort_Silent(k) ==
  /\ calls < MaxCalls
  /\ calls' = calls + 1
  /\ sent' = sent + 1
  /\ \/ EnqueueClosed
     \/ /\ ~closed
        /\ wake' = TRUE
        /\ nextGen' = nextGen + 1
        /\ tasks' = [tasks EXCEPT ![k] = NewTask("sync")]
        /\ UNCHANGED <<dropped, cursor>>
  /\ UNCHANGED <<closed, cancelled, run, stored>>

\* enqueueBestEffort: replacing a queued batch loses it.
EnqueueBestEffort(k) ==
  /\ calls < MaxCalls
  /\ calls' = calls + 1
  /\ sent' = sent + 1
  /\ \/ EnqueueClosed
     \/ /\ ~closed
        /\ wake' = TRUE
        /\ nextGen' = nextGen + 1
        /\ tasks' = [tasks EXCEPT ![k] = NewTask("sync")]
        /\ dropped' = IF Pending(k) THEN dropped + 1 ELSE dropped
        /\ UNCHANGED cursor
  /\ UNCHANGED <<closed, cancelled, run, stored>>

-----------------------------------------------------------------------------
(* The worker: loop, nextTask, finish, continueReconcile *)

\* initializePrimary succeeds, at this or at a later attempt; no mark that
\* arrives meanwhile wakes the worker or is taken out of the queue.
PrimaryReady ==
  /\ run.stage = "preparing" /\ ~cancelled
  /\ run' = [run EXCEPT !.stage = "idle"]
  /\ UNCHANGED <<tasks, nextGen, wake, closed, cancelled, dropped, cursor, calls,
                 sent, stored>>

\* Mutant of TakeTask: the task leaves the queue when it starts.
TakeTask_Pops(k) ==
  /\ run.stage = "idle"
  /\ Pending(k) /\ tasks[k].due
  /\ tasks' = [tasks EXCEPT ![k] = NoTask]
  /\ run' = [stage |-> "running", key |-> k,
             gen |-> tasks[k].gen, want |-> tasks[k].want, phase |-> 0]
  /\ UNCHANGED <<nextGen, wake, closed, cancelled, dropped, cursor, calls,
                 sent, stored>>

\* nextTask, and the call of task.run.
TakeTask(k) ==
  /\ run.stage = "idle"
  /\ Pending(k) /\ tasks[k].due
  /\ \A j \in TaskKeys :
       Pending(j) /\ tasks[j].due => tasks[k].gen <= tasks[j].gen
  /\ run' = [stage |-> "running", key |-> k,
             gen |-> tasks[k].gen, want |-> tasks[k].want, phase |-> 0]
  /\ UNCHANGED <<tasks, nextGen, wake, closed, cancelled, dropped, cursor, calls,
                 sent, stored>>

\* nextTask finds nothing due, and wait() blocks for the delay it computed:
\* without a limit when there is no task at all, ...
NothingDue == \A k \in TaskKeys : ~(Pending(k) /\ tasks[k].due)

Park ==
  /\ run.stage = "idle"
  /\ \A k \in TaskKeys : ~Pending(k)
  /\ run' = [run EXCEPT !.stage = "parked"]
  /\ UNCHANGED <<tasks, nextGen, wake, closed, cancelled, dropped, cursor, calls,
                 sent, stored>>

\* ... until the first retry when there is one, ...
SleepUntilRetry ==
  /\ run.stage = "idle"
  /\ NothingDue /\ \E k \in TaskKeys : Pending(k)
  /\ run' = [run EXCEPT !.stage = "timed"]
  /\ UNCHANGED <<tasks, nextGen, wake, closed, cancelled, dropped, cursor, calls,
                 sent, stored>>

\* ... but again without a limit when the retry falls due between the two
\* clock readings of nextTask, time.Now() and time.Until(earliest): a delay
\* that is not positive means "no task" to wait().
Oversleep(k) ==
  /\ run.stage = "idle"
  /\ NothingDue /\ Pending(k)
  /\ tasks' = [tasks EXCEPT ![k].due = TRUE]
  /\ run' = [run EXCEPT !.stage = "parked"]
  /\ UNCHANGED <<nextGen, wake, closed, cancelled, dropped, cursor, calls, sent,
                 stored>>

\* wait() returns: the signal is consumed, or the timer fires.
WakeUp ==
  /\ \/ run.stage \in {"timed", "parked"} /\ wake /\ wake' = FALSE
     \/ run.stage = "timed" /\ ~NothingDue /\ UNCHANGED wake
  /\ run' = [run EXCEPT !.stage = "idle"]
  /\ UNCHANGED <<tasks, nextGen, closed, cancelled, dropped, cursor, calls, sent,
                 stored>>

\* The delay after a failed attempt is over.
RetryDue(k) ==
  /\ Pending(k)
  /\ ~tasks[k].due
  /\ tasks' = [tasks EXCEPT ![k].due = TRUE]
  /\ UNCHANGED <<nextGen, wake, closed, cancelled, dropped, cursor, run, calls,
                 sent, stored>>

\* The beginning of reconcilePrimaryPage.
BeginPage ==
  /\ run.stage = "running" /\ run.key = FullSync
  /\ LET cur == IF cursor.active THEN cursor ELSE FreshCursor(TRUE)
     IN  /\ cursor' = [cur EXCEPT !.started = TRUE]
         /\ run' = [run EXCEPT !.stage = "paging", !.phase = cur.phase]
  /\ UNCHANGED <<tasks, nextGen, wake, closed, cancelled, dropped, calls, sent, stored>>

\* advancePrimaryReconcile, once the page that began in this phase has been
\* copied up to lastId: the new cursor, and whether there is more to do.
Advanced(cur, phase, lastId, pageDone) ==
  LET next == IF pageDone THEN [cur EXCEPT !.phase = @ + 1, !.after = 0]
                          ELSE [cur EXCEPT !.after = lastId]
  IN  IF cur.phase # phase THEN [cursor |-> cur, more |-> TRUE]
      ELSE IF next.phase < PhaseCount THEN [cursor |-> next, more |-> TRUE]
      ELSE [cursor |-> FreshCursor(cur.restart), more |-> cur.restart]

AdvancePage(lastId, pageDone) ==
  LET result == Advanced(cursor, run.phase, lastId, pageDone)
  IN  /\ run.stage = "paging"
      /\ cursor' = result.cursor
      /\ run' = [run EXCEPT !.stage = IF result.more THEN "paged" ELSE "ok"]
      /\ UNCHANGED <<tasks, nextGen, wake, closed, cancelled, dropped, calls, sent,
                     stored>>

ContinueReconcile ==
  /\ run.stage = "paged"
  /\ run' = [run EXCEPT !.stage = "ok"]
  /\ IF closed \/ ~Pending(FullSync)
       THEN UNCHANGED <<tasks, nextGen, wake>>
       ELSE ReplaceReconcile(TaskKeys)
  /\ UNCHANGED <<closed, cancelled, dropped, cursor, calls, sent, stored>>

\* A run that is not a page of the reconciliation returns.
EndRun(outcome) ==
  /\ run.stage = "running" /\ run.key # FullSync
  /\ run' = [run EXCEPT !.stage = outcome]
  /\ stored' = IF outcome = "ok" /\ run.key \in LogKeys THEN stored + 1 ELSE stored
  /\ UNCHANGED <<tasks, nextGen, wake, closed, cancelled, dropped, cursor, calls, sent>>

\* A page fails: the cursor stays, the task will be retried.
FailPage ==
  /\ run.stage = "paging"
  /\ run' = [run EXCEPT !.stage = "err"]
  /\ UNCHANGED <<tasks, nextGen, wake, closed, cancelled, dropped, cursor, calls,
                 sent, stored>>

\* Mutant of IsCurrent: finish compares the key only.
IsCurrent_ByKey == Pending(run.key)

\* finish: only a task of the generation that ran is removed or delayed.
IsCurrent == tasks[run.key].gen = run.gen

FinishStale ==
  /\ ~IsCurrent
  /\ UNCHANGED <<tasks, dropped>>

FinishOk ==
  /\ IsCurrent
  /\ run.stage = "ok"
  /\ tasks' = [tasks EXCEPT ![run.key] = NoTask]
  /\ UNCHANGED dropped

FinishDropped ==
  /\ IsCurrent
  /\ run.stage = "err"
  /\ run.key \in LogKeys
  /\ tasks' = [tasks EXCEPT ![run.key] = NoTask]
  /\ dropped' = dropped + 1

\* Mutant of FinishRetry: a failed task is given up.
FinishRetry_GivesUp ==
  /\ IsCurrent
  /\ run.stage = "err"
  /\ run.key \in RegularKeys
  /\ tasks' = [tasks EXCEPT ![run.key] = NoTask]
  /\ UNCHANGED dropped

FinishRetry ==
  /\ IsCurrent
  /\ run.stage = "err"
  /\ run.key \in RegularKeys
  /\ tasks' = [tasks EXCEPT ![run.key].due = FALSE]
  /\ UNCHANGED dropped

Finish ==
  /\ run.stage \in {"ok", "err"}
  /\ ~cancelled
  /\ FinishStale \/ FinishOk \/ FinishDropped \/ FinishRetry
  /\ run' = [run EXCEPT !.stage = "idle"]
  /\ UNCHANGED <<nextGen, wake, closed, cancelled, cursor, calls, sent, stored>>

\* loop returns: after an initialization or a run, or from wait().
Exit ==
  /\ cancelled
  /\ run.stage \in {"preparing", "ok", "err", "timed", "parked"}
  /\ run' = [run EXCEPT !.stage = "exited"]
  /\ UNCHANGED <<tasks, nextGen, wake, closed, cancelled, dropped, cursor, calls,
                 sent, stored>>

-----------------------------------------------------------------------------
(* Shutdown: close() marks the queue closed, then cancels the context; an *)
(* initialization that is still to be made counts as one more task.       *)

Close ==
  /\ ~closed
  /\ closed' = TRUE
  /\ dropped' = dropped + Cardinality(RegularPending) + Cardinality(LogPending)
                        + (IF run.stage = "preparing" THEN 1 ELSE 0)
  /\ UNCHANGED <<tasks, nextGen, wake, cancelled, cursor, run, calls, sent, stored>>

Cancel ==
  /\ closed /\ ~cancelled
  /\ cancelled' = TRUE
  /\ UNCHANGED <<tasks, nextGen, wake, closed, dropped, cursor, run, calls, sent, stored>>

-----------------------------------------------------------------------------
(* Specification *)

wbInit ==
  /\ tasks = [k \in TaskKeys |-> NoTask]
  /\ nextGen = 0
  /\ wake = FALSE
  /\ closed = FALSE
  /\ cancelled = FALSE
  /\ dropped = 0
  /\ cursor = FreshCursor(FALSE)
  /\ run = [stage |-> "preparing", key |-> FullSync, gen |-> 0, want |-> "sync",
            phase |-> 0]
  /\ calls = 0
  /\ sent = 0
  /\ stored = 0

\* A request goroutine marks row k.
Mark(k, w) ==
  /\ calls < MaxCalls
  /\ calls' = calls + 1
  /\ Enqueue(k, w)

PageEnds == Keys \cup {0}

wbNext ==
  \/ \E k \in Keys, w \in Wants : Mark(k, w)
  \/ \E k \in LogKeys : EnqueueBestEffort(k)
  \/ \E k \in TaskKeys : TakeTask(k) \/ RetryDue(k) \/ Oversleep(k)
  \/ PrimaryReady
  \/ Park \/ SleepUntilRetry \/ WakeUp
  \/ BeginPage
  \/ \E i \in PageEnds, d \in BOOLEAN :
       /\ d \/ i > cursor.after   \* a full page ends after the id it began with
       /\ AdvancePage(i, d)
  \/ ContinueReconcile
  \/ \E o \in {"ok", "err"} : EndRun(o)
  \/ FailPage
  \/ Finish
  \/ Exit
  \/ Close
  \/ Cancel

wbSpec == wbInit /\ [][wbNext]_wbVars

-----------------------------------------------------------------------------
(* Properties *)

\* The worker is busy with a task it took.
Running == run.stage \in {"running", "paging", "paged", "ok", "err"}

\* The type invariant of the queue, the cursor and the worker.
wbTypeOK ==
  /\ tasks \in [TaskKeys -> Task]
  /\ nextGen \in Nat
  /\ wake \in BOOLEAN
  /\ closed \in BOOLEAN
  /\ cancelled \in BOOLEAN
  /\ dropped \in Nat
  /\ cursor \in Cursor
  /\ run \in Run
  /\ calls \in Nat
  /\ sent \in Nat
  /\ stored \in Nat

\* While the full reconciliation is queued no row has a task of its own
\* (enqueueTask absorbs its marks), so the two can never disagree about a row.
ReconcileAlone ==
  Pending(FullSync) => \A k \in Keys : ~Pending(k)

\* The memory the queue may use: never more regular tasks than maxPending,
\* whatever the callers do and however long the primary is down.
BoundedPending ==
  Cardinality(RegularPending) <= MaxPending

\* Generations order the queue and identify a task: no two queued tasks share
\* one, and the running task is never newer than the queued task of its key.
GenerationsIdentify ==
  /\ \A j, k \in TaskKeys :
       Pending(j) /\ tasks[j].gen = tasks[k].gen => j = k
  /\ \A k \in TaskKeys : tasks[k].gen <= nextGen
  /\ Running /\ Pending(run.key)
       => run.gen <= tasks[run.key].gen

\* A reconciliation in progress keeps its task until the cursor is done, also
\* when a mark arrives between the reset of the cursor and finish(): a cursor
\* without a task would be a reconciliation nobody ever continues.
CursorHasTask ==
  cursor.active /\ ~closed => Pending(FullSync)

\* What the worker and the callers rely on at any moment: the reconciliation is
\* alone, the memory is bounded, a generation names one mark, and no
\* reconciliation is abandoned half-way.
QueueSafe == ReconcileAlone /\ BoundedPending /\ GenerationsIdentify /\ CursorHasTask

\* The task of a row leaves the queue only when a run of this very generation
\* succeeded, or when the full reconciliation takes its place: a mark made
\* while the worker runs the previous task of the row is never lost.
NewestMarkSurvives ==
  [][\A k \in Keys : Pending(k) /\ ~Pending(k)' =>
       \/ Pending(FullSync)'
       \/ run.stage = "ok" /\ run.key = k /\ run.gen = tasks[k].gen]_wbVars

\* Best-effort batches (logs) may be lost, but not silently: every one that
\* did not reach the primary is still queued or counted in dropped.
NoSilentLogLoss ==
  sent <= stored + dropped + (IF closed THEN 0 ELSE Cardinality(LogPending))

\* The worker waits for a signal although a task is due (Oversleep).
Overslept == run.stage = "parked" /\ ~wake /\ ~NothingDue
=============================================================================
