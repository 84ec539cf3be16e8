------------------------ MODULE HybridReplica_proofs ------------------------
(***************************************************************************)
(* The write-behind queue and the replication of channels that runs on it, *)
(* for any number of channels, names, goroutines, pages and failures.      *)
(*                                                                         *)
(* The first part is about PrimaryWriteBehind alone, for any keys and any  *)
(* limit.  In the second the callers and the runs of the worker use the    *)
(* queue only as PrimaryWriteBehind allows, so what is proved of the queue *)
(* holds of the composed system.  The third follows a change from its      *)
(* commit to its copy: none is forgotten, and the two databases keep       *)
(* ReplicaContract.                                                        *)
(***************************************************************************)
EXTENDS HybridReplica, FiniteSetTheorems, TLAPS

-----------------------------------------------------------------------------
(* What the pieces of the queue look like *)

\* The kinds of keys.
LEMMA KeyKinds ==
  /\ Keys \subseteq RegularKeys /\ FullSync \in RegularKeys
  /\ RegularKeys \subseteq TaskKeys /\ LogKeys \subseteq TaskKeys
  /\ \A k \in TaskKeys : k \in Keys \/ k = FullSync \/ k \in LogKeys
  /\ \A k \in LogKeys : k \notin RegularKeys
BY KeysAssumption DEF RegularKeys, TaskKeys

\* The queue has finitely many keys, so what is pending can be counted
\* (regularPendingLocked).
LEMMA PendingIsCountable ==
  /\ IsFiniteSet(RegularPending) /\ Cardinality(RegularPending) \in Nat
  /\ IsFiniteSet(LogPending) /\ Cardinality(LogPending) \in Nat
<1>1. IsFiniteSet(RegularKeys)
  BY KeysAssumption, FS_AddElement DEF RegularKeys
<1>2. IsFiniteSet(RegularPending) /\ IsFiniteSet(LogPending)
  BY <1>1, KeysAssumption, FS_Subset DEF RegularPending, LogPending
<1> QED
  BY <1>2, FS_CardinalityType

\* A fresh task is a task, and it is pending (enqueueTask numbers from one).
LEMMA NewTaskType ==
  ASSUME wbTypeOK, NEW w \in Wants
  PROVE  NewTask(w) \in Task /\ NewTask(w).gen = nextGen + 1 /\ NewTask(w).gen # 0
BY DEF wbTypeOK, NewTask, Task

\* Queueing the reconciliation keeps the types, whatever tasks it keeps.
LEMMA ReplaceReconcileType ==
  ASSUME wbTypeOK, NEW Kept, ReplaceReconcile(Kept)
  PROVE  /\ tasks' \in [TaskKeys -> Task]
         /\ nextGen' \in Nat
         /\ wake' \in BOOLEAN
<1>1. NewTask("sync") \in Task
  BY NewTaskType DEF Wants
<1>2. NoTask \in Task
  BY DEF NoTask, Task, Wants
<1>3. \A k \in TaskKeys : tasks[k] \in Task
  BY DEF wbTypeOK
<1> QED
  BY <1>1, <1>2, <1>3 DEF ReplaceReconcile, wbTypeOK

\* The cursor stays a cursor when a mark or a page moves it.
LEMMA CursorTypes ==
  ASSUME NEW cur \in Cursor
  PROVE  /\ Dirtied(cur) \in Cursor
         /\ \A on \in BOOLEAN : FreshCursor(on) \in Cursor
         /\ \A p \in Nat, i \in Nat, d \in BOOLEAN :
              Advanced(cur, p, i, d) \in [cursor : Cursor, more : BOOLEAN]
<1>1. \A on \in BOOLEAN : FreshCursor(on) \in Cursor
  BY DEF FreshCursor, Cursor
<1>2. Dirtied(cur) \in Cursor
  BY <1>1 DEF Dirtied, Cursor
<1>3. ASSUME NEW p \in Nat, NEW i \in Nat, NEW d \in BOOLEAN
      PROVE  Advanced(cur, p, i, d) \in [cursor : Cursor, more : BOOLEAN]
  <2>1. cur.restart \in BOOLEAN
    BY DEF Cursor
  <2>2. FreshCursor(cur.restart) \in Cursor
    BY <1>1, <2>1
  <2>3. [cur EXCEPT !.phase = @ + 1, !.after = 0] \in Cursor
    <3>1. [cur EXCEPT !.phase = cur.phase + 1] \in Cursor
      BY DEF Cursor
    <3>2. \A c \in Cursor : [c EXCEPT !.after = 0] \in Cursor
      BY DEF Cursor
    <3> QED
      BY <3>1, <3>2
  <2>4. [cur EXCEPT !.after = i] \in Cursor
    BY DEF Cursor
  <2> QED
    BY <2>1, <2>2, <2>3, <2>4 DEF Advanced
<1> QED
  BY <1>1, <1>2, <1>3

\* A task whose due flag changes is a task.
LEMMA DueType ==
  ASSUME wbTypeOK, NEW k \in TaskKeys, NEW b \in BOOLEAN
  PROVE  [tasks EXCEPT ![k].due = b] \in [TaskKeys -> Task]
<1>1. tasks[k] \in Task /\ tasks \in [TaskKeys -> Task]
  BY DEF wbTypeOK
<1>2. [tasks[k] EXCEPT !.due = b] \in Task
  BY <1>1 DEF Task
<1>3. [tasks EXCEPT ![k] = [tasks[k] EXCEPT !.due = b]] \in [TaskKeys -> Task]
  BY <1>1, <1>2
<1> QED
  BY <1>3

-----------------------------------------------------------------------------
(* Type correctness *)

\* enqueueTask leaves the variables it writes well typed.
LEMMA EnqueueType ==
  ASSUME wbTypeOK, NEW k \in Keys, NEW w \in Wants, Enqueue(k, w),
         calls' \in Nat
  PROVE  wbTypeOK'
<1> USE KeyKinds DEF wbTypeOK
<1>1. CASE EnqueueClosed
  BY <1>1 DEF EnqueueClosed, Enqueue
<1>2. CASE EnqueueAbsorbed
  BY <1>2, ReplaceReconcileType, CursorTypes DEF EnqueueAbsorbed, Enqueue
<1>3. CASE EnqueueOverflow(k)
  BY <1>3, ReplaceReconcileType, CursorTypes DEF EnqueueOverflow, Enqueue
<1>4. CASE EnqueueKeyed(k, w)
  BY <1>4, NewTaskType DEF EnqueueKeyed, Enqueue
<1> QED
  BY <1>1, <1>2, <1>3, <1>4 DEF Enqueue

LEMMA NextType ==
  ASSUME wbTypeOK, [wbNext]_wbVars
  PROVE  wbTypeOK'
<1> USE KeyKinds DEF wbTypeOK
<1>1. ASSUME NEW k \in Keys, NEW w \in Wants, Mark(k, w)
      PROVE  wbTypeOK'
  BY <1>1, EnqueueType DEF Mark
<1>2. ASSUME NEW k \in LogKeys, EnqueueBestEffort(k)
      PROVE  wbTypeOK'
  <2>1. NewTask("sync") \in Task /\ k \in TaskKeys
    BY NewTaskType, KeyKinds DEF Wants
  <2>2. [tasks EXCEPT ![k] = NewTask("sync")] \in [TaskKeys -> Task]
    BY <2>1
  <2>3. CASE closed
    BY <1>2, <2>3 DEF EnqueueBestEffort, EnqueueClosed
  <2>4. CASE ~closed
    <3>1. /\ calls' = calls + 1 /\ sent' = sent + 1
          /\ wake' = TRUE /\ nextGen' = nextGen + 1
          /\ tasks' = [tasks EXCEPT ![k] = NewTask("sync")]
          /\ dropped' = dropped + 1 \/ dropped' = dropped
          /\ UNCHANGED <<cursor, closed, cancelled, run, stored>>
      BY <1>2, <2>4, Zenon DEF EnqueueBestEffort, EnqueueClosed
    <3> QED
      BY <3>1, <2>2
  <2> QED
    BY <2>3, <2>4
<1>3. ASSUME NEW k \in TaskKeys, TakeTask(k)
      PROVE  wbTypeOK'
  BY <1>3 DEF TakeTask, Run, Stages, Task
<1>4. ASSUME NEW k \in TaskKeys, RetryDue(k) \/ Oversleep(k)
      PROVE  wbTypeOK'
  <2>1. tasks' \in [TaskKeys -> Task]
    BY <1>4, DueType, ZenonT(60) DEF RetryDue, Oversleep
  <2>2. run' \in Run
    BY <1>4 DEF RetryDue, Oversleep, Run, Stages
  <2> QED
    BY <1>4, <2>1, <2>2 DEF RetryDue, Oversleep
<1>5. CASE Park \/ SleepUntilRetry \/ PrimaryReady \/ WakeUp
  BY <1>5 DEF Park, SleepUntilRetry, PrimaryReady, WakeUp, Run, Stages
<1>6. CASE BeginPage
  BY <1>6, CursorTypes DEF BeginPage, FreshCursor, Cursor, Run, Stages
<1>7. ASSUME NEW i \in PageEnds, NEW d \in BOOLEAN, AdvancePage(i, d)
      PROVE  wbTypeOK'
  <2>1. i \in Nat
    BY KeysAssumption DEF PageEnds
  <2>2. Advanced(cursor, run.phase, i, d) \in [cursor : Cursor, more : BOOLEAN]
    BY <2>1, CursorTypes DEF Run
  <2> QED
    BY <1>7, <2>2 DEF AdvancePage, Run, Stages
<1>8. CASE ContinueReconcile
  BY <1>8, ReplaceReconcileType DEF ContinueReconcile, Run, Stages
<1>9. ASSUME NEW o \in {"ok", "err"}, EndRun(o)
      PROVE  wbTypeOK'
  BY <1>9 DEF EndRun, Run, Stages
<1>10. CASE FailPage
  BY <1>10 DEF FailPage, Run, Stages
<1>11. CASE Finish
  <2>1. run.key \in TaskKeys /\ run' \in Run
    BY <1>11 DEF Finish, Run, Stages
  <2>2. NoTask \in Task
    BY DEF NoTask, Task, Wants
  <2>3. [tasks EXCEPT ![run.key] = NoTask] \in [TaskKeys -> Task]
    BY <2>2
  <2>4. [tasks EXCEPT ![run.key].due = FALSE] \in [TaskKeys -> Task]
    BY <2>1, DueType
  <2>5. CASE FinishStale
    BY <1>11, <2>1, <2>5 DEF Finish, FinishStale
  <2>6. CASE FinishOk
    BY <1>11, <2>1, <2>3, <2>6 DEF Finish, FinishOk
  <2>7. CASE FinishDropped
    BY <1>11, <2>1, <2>3, <2>7 DEF Finish, FinishDropped
  <2>8. CASE FinishRetry
    BY <1>11, <2>1, <2>4, <2>8 DEF Finish, FinishRetry
  <2> QED
    BY <1>11, <2>5, <2>6, <2>7, <2>8 DEF Finish
<1>12. CASE Exit
  BY <1>12 DEF Exit, Run, Stages
<1>13. CASE Close
  BY <1>13, PendingIsCountable DEF Close
<1>14. CASE Cancel
  BY <1>14 DEF Cancel
<1>15. CASE UNCHANGED wbVars
  BY <1>15 DEF wbVars
<1> QED
  BY <1>1, <1>2, <1>3, <1>4, <1>5, <1>6, <1>7, <1>8, <1>9, <1>10, <1>11,
     <1>12, <1>13, <1>14, <1>15 DEF wbNext

LEMMA InitType ==
  ASSUME wbInit
  PROVE  wbTypeOK
<1>1. tasks \in [TaskKeys -> Task]
  <2>1. NoTask \in Task
    BY DEF NoTask, Task, Wants
  <2> QED
    BY <2>1 DEF wbInit
<1>2. cursor \in Cursor
  BY DEF wbInit, FreshCursor, Cursor
<1>3. run \in Run
  BY KeyKinds DEF wbInit, Run, Stages, Wants
<1> QED
  BY <1>1, <1>2, <1>3 DEF wbInit, wbTypeOK

\* Every variable of the queue always has its type.
THEOREM QueueTypeCorrect == wbSpec => []wbTypeOK
<1>1. wbInit => wbTypeOK
  BY InitType
<1>2. wbTypeOK /\ [wbNext]_wbVars => wbTypeOK'
  BY NextType
<1> QED
  BY <1>1, <1>2, PTL DEF wbSpec

-----------------------------------------------------------------------------
(* Generations.  The numbers a step may change are those of the tasks it     *)
(* queues or removes; every lemma below reads them from here.                *)

Numbers(k) == tasks[k].gen

\* What happens to the numbers: k gets the next one, ...
Renumbered(k) ==
  /\ nextGen' = nextGen + 1
  /\ tasks'[k].gen = nextGen + 1
  /\ \A j \in TaskKeys \ {k} : tasks'[j].gen = tasks[j].gen

\* ... the reconciliation gets it and takes the place of the other rows, ...
Collapsed ==
  /\ nextGen' = nextGen + 1
  /\ tasks'[FullSync].gen = nextGen + 1
  /\ \A j \in LogKeys : tasks'[j].gen = tasks[j].gen
  /\ \A j \in Keys : tasks'[j].gen = 0

\* ... the task of k is removed, ...
Removed(k) ==
  /\ nextGen' = nextGen
  /\ tasks'[k].gen = 0
  /\ \A j \in TaskKeys \ {k} : tasks'[j].gen = tasks[j].gen

\* ... or nothing.
Unnumbered ==
  /\ nextGen' = nextGen
  /\ \A j \in TaskKeys : tasks'[j].gen = tasks[j].gen

LEMMA ReplaceNumbers ==
  ASSUME wbTypeOK
  PROVE  /\ ReplaceReconcile(TaskKeys) => Renumbered(FullSync)
         /\ ReplaceReconcile(LogKeys) => Collapsed
<1>1. NewTask("sync").gen = nextGen + 1 /\ NoTask.gen = 0
  BY DEF NewTask, NoTask
<1>2. FullSync \notin LogKeys /\ \A k \in Keys : k # FullSync /\ k \notin LogKeys
  BY KeysAssumption
<1> QED
  BY <1>1, <1>2, KeyKinds DEF ReplaceReconcile, Renumbered, Collapsed

LEMMA QueueNumbers ==
  ASSUME wbTypeOK, NEW k \in TaskKeys, NEW w \in Wants,
         nextGen' = nextGen + 1, tasks' = [tasks EXCEPT ![k] = NewTask(w)]
  PROVE  Renumbered(k)
BY DEF wbTypeOK, NewTask, Renumbered

LEMMA RemoveNumbers ==
  ASSUME wbTypeOK, NEW k \in TaskKeys,
         nextGen' = nextGen, tasks' = [tasks EXCEPT ![k] = NoTask]
  PROVE  Removed(k)
BY DEF wbTypeOK, NoTask, Removed

LEMMA DueNumbers ==
  ASSUME wbTypeOK, NEW k \in TaskKeys, NEW b \in BOOLEAN,
         nextGen' = nextGen, tasks' = [tasks EXCEPT ![k].due = b]
  PROVE  Unnumbered
BY DEF wbTypeOK, Task, Unnumbered

-----------------------------------------------------------------------------
(* What every step does, in these terms *)

runKept   == run' = run
countKept == UNCHANGED <<dropped, sent, stored>>

MarkStep(k) ==
  /\ runKept /\ closed' = closed /\ sent' = sent /\ stored' = stored
  /\ \/ /\ ~closed /\ ~Pending(FullSync) /\ Renumbered(k)
        /\ Pending(k) \/ Cardinality(RegularPending) < MaxPending
        /\ cursor' = cursor /\ dropped' = dropped
     \/ /\ ~closed /\ Pending(FullSync) /\ Renumbered(FullSync) /\ dropped' = dropped
     \/ /\ ~closed /\ Collapsed /\ dropped' = dropped
     \/ /\ closed /\ Unnumbered /\ cursor' = cursor /\ dropped' = dropped + 1

LogStep(k) ==
  /\ runKept /\ closed' = closed /\ cursor' = cursor /\ sent' = sent + 1 /\ stored' = stored
  /\ \/ ~closed /\ Renumbered(k) /\ dropped' = IF Pending(k) THEN dropped + 1 ELSE dropped
     \/ closed /\ Unnumbered /\ dropped' = dropped + 1

StartStep(k) ==
  /\ ~Running /\ Pending(k)
  /\ Unnumbered /\ countKept /\ closed' = closed /\ cursor' = cursor
  /\ run'.stage = "running" /\ run'.key = k /\ run'.gen = tasks[k].gen

\* The worker stays between two tasks or ends a run without removing a task.
RestStep ==
  /\ Unnumbered /\ countKept /\ closed' = closed /\ cursor' = cursor
  /\ run'.stage \in {"idle", "timed", "parked", "exited"} \/ runKept

PageStep ==
  /\ Running /\ run.key = FullSync
  /\ Unnumbered /\ countKept /\ closed' = closed
  /\ run'.stage \in {"paging", "paged", "err"} \/ (run'.stage = "ok" /\ ~cursor'.active)
  /\ run'.key = run.key /\ run'.gen = run.gen

ContinueStep ==
  /\ run.stage = "paged" /\ run'.stage = "ok"
  /\ \/ (closed \/ ~Pending(FullSync)) /\ Unnumbered
     \/ Pending(FullSync) /\ Renumbered(FullSync)
  /\ countKept /\ closed' = closed /\ cursor' = cursor
  /\ run'.key = run.key /\ run'.gen = run.gen

EndStep ==
  /\ run.stage = "running" /\ run.key # FullSync
  /\ Unnumbered /\ closed' = closed /\ cursor' = cursor
  /\ sent' = sent /\ dropped' = dropped
  /\ run'.key = run.key /\ run'.gen = run.gen
  /\ \/ run'.stage = "ok" /\ run.key \in LogKeys /\ stored' = stored + 1
     \/ run'.stage = "ok" /\ run.key \notin LogKeys /\ stored' = stored
     \/ run'.stage = "err" /\ stored' = stored

RemoveStep ==
  /\ IsCurrent /\ run'.stage = "idle" /\ Removed(run.key)
  /\ \/ run.stage = "ok" /\ dropped' = dropped
     \/ run.stage = "err" /\ run.key \in LogKeys /\ dropped' = dropped + 1
  /\ closed' = closed /\ cursor' = cursor /\ sent' = sent /\ stored' = stored

CloseStep ==
  /\ ~closed /\ runKept /\ Unnumbered /\ closed' = TRUE /\ cursor' = cursor
  /\ dropped' \in Nat /\ dropped' >= dropped + Cardinality(RegularPending) + Cardinality(LogPending)
  /\ sent' = sent /\ stored' = stored

QueueStep ==
  \/ \E k \in Keys : MarkStep(k)
  \/ \E k \in LogKeys : LogStep(k)
  \/ \E k \in TaskKeys : StartStep(k)
  \/ RestStep \/ PageStep \/ ContinueStep \/ EndStep \/ RemoveStep \/ CloseStep

LEMMA SameNumbers ==
  ASSUME tasks' = tasks, nextGen' = nextGen
  PROVE  Unnumbered
BY DEF Unnumbered

\* A mark is one of the four paths through enqueueTask.
LEMMA MarkIsStep ==
  ASSUME wbTypeOK, NEW k \in Keys, NEW w \in Wants, Mark(k, w)
  PROVE  MarkStep(k)
<1>1. k \in TaskKeys
  BY KeyKinds
<1>2. runKept /\ closed' = closed /\ sent' = sent /\ stored' = stored
  BY DEF Mark, Enqueue, runKept
<1>3. CASE EnqueueClosed
  BY <1>2, <1>3, SameNumbers DEF EnqueueClosed, MarkStep
<1>4. CASE EnqueueAbsorbed
  BY <1>2, <1>4, ReplaceNumbers DEF EnqueueAbsorbed, MarkStep
<1>5. CASE EnqueueOverflow(k)
  BY <1>2, <1>5, ReplaceNumbers DEF EnqueueOverflow, MarkStep
<1>6. CASE EnqueueKeyed(k, w)
  BY <1>1, <1>2, <1>6, QueueNumbers DEF EnqueueKeyed, MarkStep
<1> QED
  BY <1>3, <1>4, <1>5, <1>6 DEF Mark, Enqueue

LEMMA LogIsStep ==
  ASSUME wbTypeOK, NEW k \in LogKeys, EnqueueBestEffort(k)
  PROVE  LogStep(k)
<1>1. k \in TaskKeys /\ "sync" \in Wants
  BY KeyKinds DEF Wants
<1>2. runKept /\ closed' = closed /\ cursor' = cursor /\ sent' = sent + 1 /\ stored' = stored
  BY Zenon DEF EnqueueBestEffort, EnqueueClosed, runKept
<1>3. CASE closed
  <2>1. dropped' = dropped + 1 /\ tasks' = tasks /\ nextGen' = nextGen
    BY <1>3, Zenon DEF EnqueueBestEffort, EnqueueClosed
  <2> QED
    BY <1>2, <1>3, <2>1, SameNumbers DEF LogStep
<1>4. CASE ~closed
  <2>1. /\ nextGen' = nextGen + 1
        /\ tasks' = [tasks EXCEPT ![k] = NewTask("sync")]
        /\ dropped' = IF Pending(k) THEN dropped + 1 ELSE dropped
    BY <1>4, Zenon DEF EnqueueBestEffort, EnqueueClosed
  <2>2. Renumbered(k)
    BY <1>1, <2>1, QueueNumbers
  <2> QED
    BY <1>2, <1>4, <2>1, <2>2 DEF LogStep
<1> QED
  BY <1>3, <1>4

LEMMA FinishIsStep ==
  ASSUME wbTypeOK, Finish
  PROVE  RestStep \/ RemoveStep
<1>1. /\ run'.stage = "idle" /\ closed' = closed /\ cursor' = cursor
      /\ sent' = sent /\ stored' = stored /\ nextGen' = nextGen
      /\ run.key \in TaskKeys
  BY DEF Finish, wbTypeOK, Run
<1>2. CASE FinishStale
  BY <1>1, <1>2, SameNumbers DEF FinishStale, RestStep, countKept
<1>3. CASE FinishOk
  BY <1>1, <1>3, RemoveNumbers DEF FinishOk, RemoveStep
<1>4. CASE FinishDropped
  BY <1>1, <1>4, RemoveNumbers DEF FinishDropped, RemoveStep
<1>5. CASE FinishRetry
  <2>1. Unnumbered
    BY <1>1, <1>5, DueNumbers DEF FinishRetry
  <2> QED
    BY <1>1, <1>5, <2>1 DEF FinishRetry, RestStep, countKept
<1> QED
  BY <1>2, <1>3, <1>4, <1>5 DEF Finish

\* Only the reconciliation copies pages.
PagesAreFullSync == run.stage \in {"paging", "paged"} => run.key = FullSync

BaseInv == wbTypeOK /\ PagesAreFullSync

LEMMA StepIsQueueStep ==
  ASSUME BaseInv, [wbNext]_wbVars
  PROVE  QueueStep
<1> USE KeyKinds
<1>1. ASSUME NEW k \in Keys, NEW w \in Wants, Mark(k, w)
      PROVE  QueueStep
  BY <1>1, MarkIsStep DEF QueueStep, BaseInv
<1>2. ASSUME NEW k \in LogKeys, EnqueueBestEffort(k)
      PROVE  QueueStep
  BY <1>2, LogIsStep DEF QueueStep, BaseInv
<1>3. ASSUME NEW k \in TaskKeys, TakeTask(k)
      PROVE  QueueStep
  <2>1. StartStep(k)
    BY <1>3, SameNumbers DEF TakeTask, StartStep, Running, countKept
  <2> QED
    BY <2>1 DEF QueueStep
<1>4. ASSUME NEW k \in TaskKeys, RetryDue(k) \/ Oversleep(k)
      PROVE  QueueStep
  <2>1. Unnumbered
    BY <1>4, DueNumbers DEF RetryDue, Oversleep, BaseInv
  <2>2. run'.stage = "parked" \/ runKept
    BY <1>4 DEF RetryDue, Oversleep, BaseInv, wbTypeOK, Run, runKept
  <2> QED
    BY <1>4, <2>1, <2>2 DEF RetryDue, Oversleep, RestStep, countKept, QueueStep
<1>5. CASE Park \/ SleepUntilRetry \/ PrimaryReady \/ WakeUp \/ Exit
  <2>1. tasks' = tasks /\ nextGen' = nextGen /\ closed' = closed /\ cursor' = cursor /\ countKept
    BY <1>5 DEF Park, SleepUntilRetry, PrimaryReady, WakeUp, Exit, countKept
  <2>2. run'.stage \in {"idle", "timed", "parked", "exited"}
    BY <1>5 DEF Park, SleepUntilRetry, PrimaryReady, WakeUp, Exit, BaseInv, wbTypeOK, Run
  <2> QED
    BY <2>1, <2>2, SameNumbers DEF RestStep, QueueStep
<1>6. CASE BeginPage
  <2>1. run'.stage = "paging" /\ run'.key = run.key /\ run'.gen = run.gen
    BY <1>6 DEF BeginPage, BaseInv, wbTypeOK, Run
  <2> QED
    BY <1>6, <2>1, SameNumbers DEF BeginPage, PageStep, countKept, Running, QueueStep
<1>7. ASSUME NEW i \in PageEnds, NEW d \in BOOLEAN, AdvancePage(i, d)
      PROVE  QueueStep
  <2>1. i \in Nat /\ cursor \in Cursor /\ run.phase \in Nat
    BY KeysAssumption DEF PageEnds, BaseInv, wbTypeOK, Run
  <2> DEFINE result == Advanced(cursor, run.phase, i, d)
  <2>2. cursor' = result.cursor /\ run' = [run EXCEPT !.stage = IF result.more THEN "paged" ELSE "ok"]
    BY <1>7 DEF AdvancePage
  <2>3. ~result.more => ~result.cursor.active
    BY <2>1 DEF Advanced, FreshCursor, Cursor
  <2>4. run'.stage = "paged" \/ (run'.stage = "ok" /\ ~cursor'.active)
    BY <2>2, <2>3 DEF BaseInv, wbTypeOK, Run
  <2>5. run'.key = run.key /\ run'.gen = run.gen
    BY <2>2 DEF BaseInv, wbTypeOK, Run
  <2> QED
    BY <1>7, <2>4, <2>5, SameNumbers
       DEF AdvancePage, PageStep, countKept, Running, QueueStep, BaseInv, PagesAreFullSync
<1>8. CASE ContinueReconcile
  <2>1. run'.stage = "ok" /\ run'.key = run.key /\ run'.gen = run.gen
    BY <1>8 DEF ContinueReconcile, BaseInv, wbTypeOK, Run
  <2>2. \/ (closed \/ ~Pending(FullSync)) /\ Unnumbered
        \/ Pending(FullSync) /\ Renumbered(FullSync)
    BY <1>8, SameNumbers, ReplaceNumbers DEF ContinueReconcile, BaseInv
  <2> QED
    BY <1>8, <2>1, <2>2 DEF ContinueReconcile, ContinueStep, countKept, QueueStep
<1>9. ASSUME NEW o \in {"ok", "err"}, EndRun(o)
      PROVE  QueueStep
  <2>1. run'.stage = o /\ run'.key = run.key /\ run'.gen = run.gen
    BY <1>9 DEF EndRun, BaseInv, wbTypeOK, Run
  <2> QED
    BY <1>9, <2>1, SameNumbers DEF EndRun, EndStep, QueueStep
<1>10. CASE FailPage
  <2>1. run'.stage = "err" /\ run'.key = run.key /\ run'.gen = run.gen
    BY <1>10 DEF FailPage, BaseInv, wbTypeOK, Run
  <2> QED
    BY <1>10, <2>1, SameNumbers
       DEF FailPage, PageStep, countKept, Running, QueueStep, BaseInv, PagesAreFullSync
<1>11. CASE Finish
  BY <1>11, FinishIsStep DEF QueueStep, BaseInv
<1>12. CASE Close
  <2>1. dropped' \in Nat /\ dropped' >= dropped + Cardinality(RegularPending) + Cardinality(LogPending)
    BY <1>12, PendingIsCountable DEF Close, BaseInv, wbTypeOK
  <2> QED
    BY <1>12, <2>1, SameNumbers DEF Close, CloseStep, runKept, QueueStep
<1>13. CASE Cancel \/ UNCHANGED wbVars
  BY <1>13, SameNumbers DEF Cancel, wbVars, RestStep, runKept, countKept, QueueStep
<1> QED
  BY <1>1, <1>2, <1>3, <1>4, <1>5, <1>6, <1>7, <1>8, <1>9, <1>10, <1>11,
     <1>12, <1>13 DEF wbNext

\* The base of every invariant below.
LEMMA BaseKept ==
  ASSUME BaseInv, [wbNext]_wbVars
  PROVE  BaseInv' /\ QueueStep
<1>1. wbTypeOK' /\ QueueStep
  BY NextType, StepIsQueueStep DEF BaseInv
<1>2. PagesAreFullSync'
  BY <1>1 DEF QueueStep, MarkStep, LogStep, StartStep, RestStep, PageStep, ContinueStep,
              EndStep, RemoveStep, CloseStep, runKept, BaseInv, PagesAreFullSync
<1> QED
  BY <1>1, <1>2 DEF BaseInv

-----------------------------------------------------------------------------
(* Generations identify tasks *)

\* The running task was numbered when it was queued.
RunIsNumbered == Running => run.gen # 0 /\ run.gen <= nextGen

GenInv == GenerationsIdentify /\ RunIsNumbered

LEMMA NumberTypes ==
  ASSUME BaseInv
  PROVE  /\ nextGen \in Nat /\ run.gen \in Nat /\ run.key \in TaskKeys
         /\ \A k \in TaskKeys : tasks[k].gen \in Nat
BY DEF BaseInv, wbTypeOK, Run, Task

LEMMA GenKept ==
  ASSUME BaseInv, BaseInv', GenInv, QueueStep
  PROVE  GenInv'
<1> USE KeyKinds, NumberTypes DEF GenInv, GenerationsIdentify, RunIsNumbered, Pending
<1>0. \A k \in TaskKeys : tasks'[k].gen \in Nat
  BY NumberTypes DEF BaseInv, wbTypeOK, Task
<1>1. ASSUME NEW k \in TaskKeys, Renumbered(k), Running' => Running /\ run'.key = run.key /\ run'.gen = run.gen
      PROVE  GenInv'
  BY <1>0, <1>1 DEF Renumbered
<1>2. ASSUME Collapsed, runKept
      PROVE  GenInv'
  BY <1>0, <1>2 DEF Collapsed, runKept, Running
<1>3. ASSUME Unnumbered,
             Running' => \/ Running /\ run'.key = run.key /\ run'.gen = run.gen
                         \/ run'.key \in TaskKeys /\ run'.gen = tasks[run'.key].gen /\ run'.gen # 0
      PROVE  GenInv'
  BY <1>0, <1>3 DEF Unnumbered
<1>4. ASSUME NEW k \in TaskKeys, Removed(k), ~Running'
      PROVE  GenInv'
  BY <1>0, <1>4 DEF Removed
<1>5. ASSUME NEW k \in Keys, MarkStep(k)
      PROVE  GenInv'
  BY <1>1, <1>2, <1>3, <1>5 DEF MarkStep, runKept, Running
<1>6. ASSUME NEW k \in LogKeys, LogStep(k)
      PROVE  GenInv'
  BY <1>1, <1>3, <1>6 DEF LogStep, runKept, Running
<1>7. ASSUME NEW k \in TaskKeys, StartStep(k)
      PROVE  GenInv'
  BY <1>3, <1>7 DEF StartStep
<1>8. CASE RestStep
  BY <1>3, <1>8 DEF RestStep, runKept, Running
<1>9. CASE PageStep \/ EndStep
  BY <1>3, <1>9 DEF PageStep, EndStep, Running
<1>10. CASE ContinueStep
  BY <1>1, <1>3, <1>10 DEF ContinueStep, Running
<1>11. CASE RemoveStep
  BY <1>4, <1>11 DEF RemoveStep, Running
<1>12. CASE CloseStep
  BY <1>3, <1>12 DEF CloseStep, runKept, Running
<1> QED
  BY <1>5, <1>6, <1>7, <1>8, <1>9, <1>10, <1>11, <1>12 DEF QueueStep

-----------------------------------------------------------------------------
(* One reconciliation, or at most maxPending rows *)

RoomInv == ReconcileAlone /\ BoundedPending

LEMMA RoomKept ==
  ASSUME BaseInv, BaseInv', RoomInv, QueueStep
  PROVE  RoomInv'
<1> USE KeyKinds, NumberTypes, BoundAssumption DEF RoomInv
<1>0. /\ Cardinality(RegularPending) \in Nat /\ IsFiniteSet(RegularPending)
      /\ Cardinality(RegularPending)' \in Nat /\ IsFiniteSet(RegularPending)'
  <2>1. IsFiniteSet(RegularKeys)
    BY KeysAssumption, FS_AddElement DEF RegularKeys
  <2>2. RegularPending \subseteq RegularKeys /\ RegularPending' \subseteq RegularKeys
    BY DEF RegularPending
  <2> QED
    BY <2>1, <2>2, FS_Subset, FS_CardinalityType
<1>1. ASSUME RegularPending' \subseteq RegularPending
      PROVE  RoomInv'
  <2>1. Cardinality(RegularPending') <= Cardinality(RegularPending)
    BY <1>0, <1>1, FS_Subset
  <2>2. BoundedPending'
    BY <1>0, <2>1 DEF BoundedPending
  <2>3. ReconcileAlone'
    BY <1>1 DEF ReconcileAlone, RegularPending
  <2> QED
    BY <2>2, <2>3
<1>2. ASSUME Unnumbered
      PROVE  RoomInv'
  BY <1>1, <1>2 DEF Unnumbered, RegularPending, Pending
<1>3. ASSUME NEW k \in TaskKeys, Renumbered(k), Pending(k) \/ k \notin RegularKeys
      PROVE  RoomInv'
  BY <1>1, <1>3 DEF Renumbered, RegularPending, Pending
<1>4. ASSUME NEW k \in TaskKeys, Removed(k)
      PROVE  RoomInv'
  BY <1>1, <1>4 DEF Removed, RegularPending, Pending
<1>5. ASSUME Collapsed
      PROVE  RoomInv'
  <2>1. RegularPending' = {FullSync}
    BY <1>5 DEF Collapsed, RegularPending, Pending, RegularKeys
  <2>2. Cardinality(RegularPending)' = 1
    BY <2>1, FS_Singleton, Zenon
  <2>3. BoundedPending'
    BY <2>2 DEF BoundedPending
  <2>4. ReconcileAlone'
    BY <1>5 DEF Collapsed, ReconcileAlone, Pending
  <2> QED
    BY <2>3, <2>4
<1>6. ASSUME NEW k \in Keys, Renumbered(k), ~Pending(k), ~Pending(FullSync),
             Cardinality(RegularPending) < MaxPending
      PROVE  RoomInv'
  <2>1. RegularPending' = RegularPending \cup {k} /\ k \notin RegularPending
    BY <1>6 DEF Renumbered, RegularPending, Pending
  <2>2. Cardinality(RegularPending') = Cardinality(RegularPending) + 1
    BY <1>0, <2>1, FS_AddElement
  <2>3. BoundedPending'
    BY <1>0, <1>6, <2>2 DEF BoundedPending
  <2>4. ReconcileAlone'
    BY <1>6, KeysAssumption DEF Renumbered, ReconcileAlone, Pending
  <2> QED
    BY <2>3, <2>4
<1>7. ASSUME NEW k \in Keys, MarkStep(k)
      PROVE  RoomInv'
  BY <1>2, <1>3, <1>5, <1>6, <1>7 DEF MarkStep
<1>8. ASSUME NEW k \in LogKeys, LogStep(k)
      PROVE  RoomInv'
  BY <1>2, <1>3, <1>8 DEF LogStep
<1>9. CASE ContinueStep
  BY <1>2, <1>3, <1>9 DEF ContinueStep
<1>10. CASE RemoveStep
  BY <1>4, <1>10 DEF RemoveStep
<1> QED
  BY <1>2, <1>7, <1>8, <1>9, <1>10
     DEF QueueStep, StartStep, RestStep, PageStep, EndStep, CloseStep

-----------------------------------------------------------------------------
(* A reconciliation in progress has a task *)

\* The task of a page that runs is queued, unless the queue is closed.
PageHasTask ==
  Running /\ run.key = FullSync /\ ~closed => Pending(FullSync)

\* When a page returns and its task is still the queued one, the cursor is at
\* rest: any mark or further page has renewed the generation.
LastPageRests ==
  run.stage = "ok" /\ run.key = FullSync /\ IsCurrent /\ ~closed => ~cursor.active

CursorInv == CursorHasTask /\ PageHasTask /\ LastPageRests

LEMMA CursorKept ==
  ASSUME BaseInv, GenInv, CursorInv, QueueStep
  PROVE  CursorInv'
<1> USE KeyKinds, NumberTypes
    DEF CursorInv, CursorHasTask, PageHasTask, LastPageRests, IsCurrent, Pending,
        GenInv, RunIsNumbered
<1>1. ASSUME NEW k \in Keys, MarkStep(k)
      PROVE  CursorInv'
  BY <1>1, KeysAssumption DEF MarkStep, Renumbered, Collapsed, Unnumbered, runKept, Running
<1>2. ASSUME NEW k \in LogKeys, LogStep(k)
      PROVE  CursorInv'
  BY <1>2, KeysAssumption DEF LogStep, Renumbered, Unnumbered, runKept, Running
<1>3. ASSUME NEW k \in TaskKeys, StartStep(k)
      PROVE  CursorInv'
  BY <1>3 DEF StartStep, Unnumbered, Running
<1>4. CASE RestStep
  BY <1>4 DEF RestStep, Unnumbered, runKept, Running
<1>5. CASE PageStep
  BY <1>5 DEF PageStep, Unnumbered, Running
<1>6. CASE ContinueStep
  BY <1>6 DEF ContinueStep, Renumbered, Unnumbered, Running, BaseInv, PagesAreFullSync
<1>7. CASE EndStep
  BY <1>7 DEF EndStep, Unnumbered, Running
<1>8. CASE RemoveStep
  BY <1>8 DEF RemoveStep, Removed, Running
<1>9. CASE CloseStep
  BY <1>9 DEF CloseStep
<1> QED
  BY <1>1, <1>2, <1>3, <1>4, <1>5, <1>6, <1>7, <1>8, <1>9 DEF QueueStep

-----------------------------------------------------------------------------
(* Best-effort batches are stored, queued or counted *)

\* A batch whose run has succeeded is counted as stored although its task is
\* still queued.
StoredTwice == run.stage = "ok" /\ run.key \in LogKeys /\ IsCurrent

LossInv ==
  IF closed THEN sent <= stored + dropped
  ELSE sent + (IF StoredTwice THEN 1 ELSE 0) <= stored + dropped + Cardinality(LogPending)

LEMMA LossKept ==
  ASSUME BaseInv, BaseInv', GenInv, LossInv, QueueStep
  PROVE  LossInv'
<1> USE KeyKinds, NumberTypes
<1>0. /\ Cardinality(LogPending) \in Nat /\ IsFiniteSet(LogPending)
      /\ Cardinality(LogPending)' \in Nat /\ IsFiniteSet(LogPending)'
      /\ Cardinality(RegularPending) \in Nat
      /\ sent \in Nat /\ stored \in Nat /\ dropped \in Nat /\ closed \in BOOLEAN
  <2>1. LogPending \subseteq LogKeys /\ LogPending' \subseteq LogKeys
    BY DEF LogPending
  <2> QED
    BY <2>1, KeysAssumption, FS_Subset, FS_CardinalityType, PendingIsCountable
       DEF BaseInv, wbTypeOK
<1>1. ASSUME \A k \in LogKeys : tasks'[k].gen = tasks[k].gen
      PROVE  Cardinality(LogPending)' = Cardinality(LogPending)
  <2>1. LogPending' = LogPending
    BY <1>1 DEF LogPending, Pending
  <2> QED
    BY <2>1
<1>2. ASSUME \A k \in LogKeys : tasks'[k].gen = tasks[k].gen,
             runKept \/ run'.stage # "ok" \/ run'.key \notin LogKeys,
             closed' = closed, sent' = sent, stored' = stored,
             dropped' = dropped \/ dropped' = dropped + 1
      PROVE  LossInv'
  <2>1. StoredTwice' => StoredTwice
    BY <1>2 DEF StoredTwice, IsCurrent, runKept
  <2> QED
    BY <1>0, <1>1, <1>2, <2>1 DEF LossInv
<1>3. ASSUME NEW k \in Keys, MarkStep(k)
      PROVE  LossInv'
  <2>1. \A j \in LogKeys : tasks'[j].gen = tasks[j].gen
    BY <1>3, KeysAssumption DEF MarkStep, Renumbered, Collapsed, Unnumbered
  <2> QED
    BY <1>2, <1>3, <2>1 DEF MarkStep
<1>4. ASSUME NEW k \in LogKeys, LogStep(k)
      PROVE  LossInv'
  <2>1. CASE closed
    BY <1>0, <1>4, <2>1 DEF LogStep, LossInv
  <2>2. CASE ~closed
    <3>1. Renumbered(k) /\ k \in TaskKeys /\ runKept /\ closed' = closed /\ sent' = sent + 1 /\ stored' = stored
      BY <1>4, <2>2 DEF LogStep
    <3>2. StoredTwice' => StoredTwice
      BY <3>1 DEF StoredTwice, IsCurrent, runKept, Renumbered, GenInv, RunIsNumbered, Running
    <3>3. CASE Pending(k)
      <4>1. LogPending' = LogPending
        BY <3>1, <3>3 DEF LogPending, Pending, Renumbered
      <4>2. dropped' = dropped + 1
        BY <1>4, <2>2, <3>3 DEF LogStep
      <4> QED
        BY <1>0, <2>2, <3>1, <3>2, <4>1, <4>2 DEF LossInv
    <3>4. CASE ~Pending(k)
      <4>1. LogPending' = LogPending \cup {k} /\ k \notin LogPending
        BY <3>1, <3>4 DEF LogPending, Pending, Renumbered
      <4>2. Cardinality(LogPending)' = Cardinality(LogPending) + 1
        BY <1>0, <4>1, FS_AddElement
      <4>3. dropped' = dropped
        BY <1>4, <2>2, <3>4 DEF LogStep
      <4> QED
        BY <1>0, <2>2, <3>1, <3>2, <4>2, <4>3 DEF LossInv
    <3> QED
      BY <3>3, <3>4
  <2> QED
    BY <2>1, <2>2
<1>5. ASSUME NEW k \in TaskKeys, StartStep(k)
      PROVE  LossInv'
  BY <1>2, <1>5 DEF StartStep, Unnumbered, countKept
<1>6. CASE RestStep
  BY <1>2, <1>6 DEF RestStep, Unnumbered, countKept
<1>7. CASE PageStep
  BY <1>2, <1>7, KeysAssumption DEF PageStep, Unnumbered, countKept
<1>8. CASE ContinueStep
  <2>1. run'.key \notin LogKeys
    BY <1>8, KeysAssumption DEF ContinueStep, BaseInv, PagesAreFullSync
  <2>2. \A j \in LogKeys : tasks'[j].gen = tasks[j].gen
    BY <1>8, KeysAssumption DEF ContinueStep, Renumbered, Unnumbered
  <2> QED
    BY <1>2, <1>8, <2>1, <2>2 DEF ContinueStep, countKept
<1>9. CASE EndStep
  <2>1. \A j \in LogKeys : tasks'[j].gen = tasks[j].gen
    BY <1>9 DEF EndStep, Unnumbered
  <2>2. CASE run.key \in LogKeys /\ run'.stage = "ok"
    <3>1. stored' = stored + 1 /\ closed' = closed /\ sent' = sent /\ dropped' = dropped
      BY <1>9, <2>2 DEF EndStep
    <3>2. ~StoredTwice
      BY <1>9 DEF EndStep, StoredTwice
    <3> QED
      BY <1>0, <1>1, <2>1, <3>1, <3>2 DEF LossInv
  <2>3. CASE ~(run.key \in LogKeys /\ run'.stage = "ok")
    BY <1>2, <1>9, <2>1, <2>3 DEF EndStep
  <2> QED
    BY <2>2, <2>3
<1>10. CASE RemoveStep
  <2>1. closed' = closed /\ sent' = sent /\ stored' = stored /\ ~StoredTwice'
    BY <1>10 DEF RemoveStep, StoredTwice
  <2>2. CASE run.key \notin LogKeys
    <3>1. \A j \in LogKeys : tasks'[j].gen = tasks[j].gen
      BY <1>10, <2>2 DEF RemoveStep, Removed
    <3> QED
      BY <1>2, <1>10, <2>1, <2>2, <3>1 DEF RemoveStep
  <2>3. CASE run.key \in LogKeys
    <3>1. run.key \in LogPending
      BY <1>10, <2>3 DEF RemoveStep, IsCurrent, GenInv, RunIsNumbered, Running, LogPending, Pending
    <3>2. LogPending' = LogPending \ {run.key}
      BY <1>10, <2>3 DEF RemoveStep, Removed, LogPending, Pending
    <3>3. Cardinality(LogPending)' = Cardinality(LogPending) - 1
      BY <1>0, <3>1, <3>2, FS_RemoveElement
    <3>4. \/ run.stage = "ok" /\ StoredTwice /\ dropped' = dropped
          \/ run.stage = "err" /\ dropped' = dropped + 1
      BY <1>10, <2>3 DEF RemoveStep, StoredTwice
    <3> QED
      BY <1>0, <2>1, <3>3, <3>4 DEF LossInv
  <2> QED
    BY <2>2, <2>3
<1>11. CASE CloseStep
  <2>1. sent <= stored + dropped + Cardinality(LogPending)
    BY <1>0, <1>11 DEF CloseStep, LossInv
  <2>2. dropped' \in Nat /\ dropped' >= dropped + Cardinality(RegularPending) + Cardinality(LogPending)
    BY <1>11 DEF CloseStep
  <2>3. ASSUME NEW d \in Nat, NEW e \in Nat, NEW m \in Nat, NEW n \in Nat, NEW s \in Nat, NEW t \in Nat,
               e >= d + m + n, s <= t + d + n
        PROVE  s <= t + e
    BY <2>3
  <2>4. sent <= stored + dropped'
    BY <1>0, <2>1, <2>2, <2>3
  <2> QED
    BY <1>11, <2>4 DEF CloseStep, LossInv
<1> QED
  BY <1>3, <1>4, <1>5, <1>6, <1>7, <1>8, <1>9, <1>10, <1>11 DEF QueueStep

-----------------------------------------------------------------------------
(* The theorems *)

QueueInv == BaseInv /\ GenInv /\ RoomInv /\ CursorInv /\ LossInv

LEMMA QueueInit ==
  ASSUME wbInit
  PROVE  QueueInv
<1>1. wbTypeOK
  BY InitType
<1>2. BaseInv /\ GenInv /\ CursorInv /\ ReconcileAlone
  BY <1>1, KeyKinds
     DEF wbInit, BaseInv, PagesAreFullSync, GenInv, GenerationsIdentify, RunIsNumbered,
         CursorInv, CursorHasTask, PageHasTask, LastPageRests, ReconcileAlone, Running,
         Pending, NoTask, FreshCursor
<1>3. BoundedPending
  <2>1. RegularPending = {}
    BY KeyKinds DEF wbInit, RegularPending, Pending, NoTask
  <2> QED
    BY <2>1, FS_EmptySet, BoundAssumption DEF BoundedPending
<1>4. LossInv
  BY PendingIsCountable, <1>1 DEF wbInit, LossInv, StoredTwice
<1> QED
  BY <1>2, <1>3, <1>4 DEF QueueInv, RoomInv

LEMMA QueueNext ==
  ASSUME QueueInv, [wbNext]_wbVars
  PROVE  QueueInv'
<1>1. BaseInv' /\ QueueStep
  BY BaseKept DEF QueueInv
<1> QED
  BY <1>1, GenKept, RoomKept, CursorKept, LossKept DEF QueueInv

\* At any moment a queued reconciliation is the only regular task, the queue
\* stays within maxPending, generations identify the queued tasks, and a
\* reconciliation in progress has a task that continues it.
THEOREM QueueInvariants == wbSpec => []QueueSafe
<1>1. QueueInv => QueueSafe
  BY DEF QueueInv, RoomInv, GenInv, CursorInv, QueueSafe
<1> QED
  BY <1>1, QueueInit, QueueNext, PTL DEF wbSpec

\* Log batches are never lost silently: each is stored, queued or counted.
THEOREM LogLossIsCounted == wbSpec => []NoSilentLogLoss
<1>1. QueueInv => NoSilentLogLoss
  <2> SUFFICES ASSUME QueueInv
               PROVE  NoSilentLogLoss
    OBVIOUS
  <2>1. /\ Cardinality(LogPending) \in Nat
        /\ sent \in Nat /\ stored \in Nat /\ dropped \in Nat
    BY PendingIsCountable DEF QueueInv, BaseInv, wbTypeOK
  <2> QED
    BY <2>1 DEF QueueInv, LossInv, NoSilentLogLoss
<1> QED
  BY <1>1, QueueInit, QueueNext, PTL DEF wbSpec

\* No mark is lost: the newest task of a row is removed only by its own success
\* or in favour of the full reconciliation.
THEOREM MarksSurvive == wbSpec => NewestMarkSurvives
<1>1. ASSUME QueueInv, [wbNext]_wbVars,
             NEW k \in Keys, Pending(k), ~Pending(k)'
      PROVE  Pending(FullSync)' \/ (run.stage = "ok" /\ run.key = k /\ run.gen = tasks[k].gen)
  <2>1. QueueStep /\ k \in TaskKeys
    BY <1>1, BaseKept, KeyKinds DEF QueueInv
  <2>2. nextGen + 1 # 0
    BY <1>1, NumberTypes DEF QueueInv
  <2>3. ASSUME NEW j \in TaskKeys
        PROVE  ~Renumbered(j) /\ ~Unnumbered
    BY <1>1, <2>1, <2>2, <2>3 DEF Renumbered, Unnumbered, Pending
  <2>4. Collapsed => Pending(FullSync)'
    BY <2>2 DEF Collapsed, Pending
  <2>5. CASE RemoveStep
    BY <1>1, <2>1, <2>5, KeyKinds DEF RemoveStep, Removed, Pending, IsCurrent
  <2> QED
    BY <2>1, <2>3, <2>4, <2>5, KeyKinds
       DEF QueueStep, MarkStep, LogStep, StartStep, RestStep, PageStep, ContinueStep,
           EndStep, CloseStep
<1>2. QueueInv /\ [wbNext]_wbVars
        => [\A k \in Keys : Pending(k) /\ ~Pending(k)' =>
              \/ Pending(FullSync)'
              \/ run.stage = "ok" /\ run.key = k /\ run.gen = tasks[k].gen]_wbVars
  BY <1>1
<1> QED
  BY <1>2, QueueInit, QueueNext, PTL DEF wbSpec, NewestMarkSurvives

-----------------------------------------------------------------------------
(* Callers and pages: what the use of the queue rests on *)

CallerRecord == [owes : BOOLEAN, chan : Nat, want : Wants, locked : BOOLEAN]
Owing == {v \in Callers : Owes(v)}

\* A goroutine owes at most one mark, about a channel, and there is room for
\* all the marks that are owed.
CallerInv ==
  /\ caller \in [Callers -> CallerRecord]
  /\ \A w \in Callers : Owes(w) => caller[w].chan \in Keys
  /\ calls + Cardinality(Owing) <= MaxCalls

\* A page in work belongs to a reconciliation that has started, so no mark
\* resets the cursor, and it ends after the id it began with.
PageInv ==
  /\ pageEnd \in [last : PageEnds, done : BOOLEAN]
  /\ run.stage = "paging" =>
       /\ cursor.active /\ cursor.started
       /\ step = "list" \/ pageEnd.done \/ pageEnd.last > cursor.after

UseInv == BaseInv /\ CallerInv /\ PageInv

-----------------------------------------------------------------------------
(* What a step does to the goroutines and to the page *)

callersKept == caller' = caller /\ calls' = calls

\* The queue and the page are left alone.
restKept == UNCHANGED <<wbVars, step, pageEnd>>

OwesMore ==
  \E w \in Callers :
    /\ ~Owes(w)
    /\ calls + Cardinality(Owing) < MaxCalls
    /\ calls' = calls
    /\ \E c \in Keys, want \in Wants, l \in BOOLEAN :
         caller' = [caller EXCEPT ![w] = [owes |-> TRUE, chan |-> c, want |-> want,
                                          locked |-> l]]
    /\ restKept

Marks ==
  \E w \in Callers :
    /\ Owes(w)
    /\ calls' = calls + 1
    /\ Enqueue(caller[w].chan, caller[w].want)
    /\ caller' = [caller EXCEPT ![w] = NoMark]
    /\ UNCHANGED <<step, pageEnd>>

Lists ==
  /\ step = "list"
  /\ \E P \in SUBSET Keys, last \in PageEnds :
       /\ PageOf(P, last)
       /\ pageEnd' = [last |-> last, done |-> IF Cardinality(P) < PageSize THEN TRUE ELSE FALSE]
  /\ callersKept /\ UNCHANGED wbVars

\* A step of the worker or of the clock: one step of the queue, or none.
WorkerKind ==
  /\ callersKept /\ pageEnd' = pageEnd
  /\ \/ UNCHANGED wbVars /\ step # "list"
     \/ UNCHANGED <<wbVars, step>>
     \/ \E k \in TaskKeys : TakeTask(k)
     \/ \E k \in TaskKeys : (RetryDue(k) \/ Oversleep(k)) /\ step' = step
     \/ (Park \/ SleepUntilRetry \/ PrimaryReady \/ WakeUp \/ Exit \/ Close \/ Cancel) /\ step' = step
     \/ BeginPage /\ step' = "list"
     \/ step = "item" /\ AdvancePage(pageEnd.last, pageEnd.done)
     \/ ContinueReconcile
     \/ \E o \in {"ok", "err"} : EndRun(o)
     \/ FailPage
     \/ Finish

LEMMA BeginIsKind ==
  ASSUME NEW w \in Callers, NEW c \in Keys, NEW want \in Wants, NEW l \in BOOLEAN,
         Begin(w, c, want, l)
  PROVE  OwesMore
BY DEF Begin, OwesMore, restKept, Owing, wbVars, copyVars

LEMMA CallerIsKind ==
  ASSUME NEW w \in Callers, CallerNext(w)
  PROVE  OwesMore \/ Marks
<1>0. "sync" \in Wants /\ "delete" \in Wants /\ FALSE \in BOOLEAN /\ TRUE \in BOOLEAN
  BY DEF Wants
<1>1. ASSUME NEW c \in Keys, NEW row \in Row, NEW l \in BOOLEAN,
             Create(w, c, row, l) \/ Update(w, c, row, l)
      PROVE  OwesMore
  BY <1>0, <1>1, BeginIsKind DEF Create, Update
<1>2. ASSUME NEW c \in Keys, TouchMissing(w, c) \/ Delete(w, c)
      PROVE  OwesMore
  BY <1>0, <1>2, BeginIsKind DEF TouchMissing, Delete
<1>3. CASE MarkDirty(w)
  BY <1>3 DEF MarkDirty, Marks, copyVars
<1> QED
  BY <1>1, <1>2, <1>3 DEF CallerNext

LEMMA WorkerIsKind ==
  ASSUME WorkerStep \/ StatementFails
  PROVE  Lists \/ WorkerKind
<1> USE DEF callersKept, wbVars, dataVars, copyVars, Goto
<1>1. CASE LoadConfig
  BY <1>1 DEF LoadConfig, Advances, WorkerKind
<1>2. CASE LoadConfigMissing
  BY <1>2 DEF LoadConfigMissing, Errs, FailPage, EndRun, WorkerKind
<1>3. CASE LoadChildren
  BY <1>3 DEF LoadChildren, Advances, WorkerKind
<1>4. CASE WriteReplica
  BY <1>4 DEF WriteReplica, ItemDone, Advances, EndRun, WorkerKind
<1>5. CASE DropReplica
  BY <1>5 DEF DropReplica, ItemDone, Advances, EndRun, WorkerKind
<1>6. CASE StartPage
  BY <1>6 DEF StartPage, BeginPage, WorkerKind
<1>7. CASE ListPage
  BY <1>7 DEF ListPage, Advances, Lists
<1>8. CASE NextItem
  BY <1>8 DEF NextItem, Advances, WorkerKind
<1>9. CASE CheckRow
  BY <1>9 DEF CheckRow, Advances, WorkerKind
<1>10. CASE PageProcessed
  BY <1>10 DEF PageProcessed, AdvancePage, WorkerKind
<1>11. CASE NextPage
  BY <1>11 DEF NextPage, ContinueReconcile, WorkerKind
<1>12. CASE FinishRun
  BY <1>12 DEF FinishRun, Finish, WorkerKind
<1>13. CASE StatementFails
  BY <1>13 DEF StatementFails, FailPage, EndRun, WorkerKind
<1> QED
  BY <1>1, <1>2, <1>3, <1>4, <1>5, <1>6, <1>7, <1>8, <1>9, <1>10, <1>11, <1>12, <1>13
     DEF WorkerStep

\* Every step of the system is of one of these kinds.
LEMMA StepIsKind ==
  ASSUME [Next]_vars
  PROVE  OwesMore \/ Marks \/ Lists \/ WorkerKind
<1> USE DEF callersKept, wbVars, dataVars, copyVars, Goto
<1>1. ASSUME NEW w \in Callers, CallerNext(w)
      PROVE  OwesMore \/ Marks
  BY <1>1, CallerIsKind
<1>2. ASSUME NEW k \in RegularKeys, StartRun(k) \/ Retry(k)
      PROVE  WorkerKind
  BY <1>2, KeyKinds DEF StartRun, TakeTask, Retry, RetryDue, WorkerKind
<1>3. CASE WorkerStep \/ StatementFails
  BY <1>3, WorkerIsKind
<1>4. CASE Sleep
  <2>1. ASSUME NEW k \in RegularKeys, Oversleep(k), UNCHANGED <<dataVars, copyVars, fails>>
        PROVE  WorkerKind
    BY <2>1, KeyKinds DEF Oversleep, WorkerKind
  <2>2. ASSUME Park \/ SleepUntilRetry, UNCHANGED <<dataVars, copyVars, fails>>
        PROVE  WorkerKind
    BY <2>2 DEF Park, SleepUntilRetry, WorkerKind
  <2> QED
    BY <1>4, <2>1, <2>2 DEF Sleep
<1>5. CASE Wake \/ LoopExit \/ CloseQueue \/ CancelCtx
  BY <1>5 DEF Wake, PrimaryReady, WakeUp, LoopExit, Exit, CloseQueue, Close, CancelCtx, Cancel, WorkerKind
<1>6. CASE UNCHANGED vars
  BY <1>6 DEF vars, WorkerKind
<1> QED
  BY <1>1, <1>2, <1>3, <1>4, <1>5, <1>6 DEF Next

-----------------------------------------------------------------------------
(* Each kind of step is one of the queue *)

LEMMA OwingCount ==
  /\ IsFiniteSet(Owing) /\ Cardinality(Owing) \in Nat
  /\ \A w \in Callers : Owes(w) => Cardinality(Owing) >= 1
<1>1. IsFiniteSet(Owing)
  BY RowAssumption, FS_Subset DEF Owing
<1>2. Cardinality(Owing) \in Nat
  BY <1>1, FS_CardinalityType
<1>3. ASSUME NEW w \in Callers, Owes(w)
      PROVE  Cardinality(Owing) >= 1
  <2>1. Owing # {}
    BY <1>3 DEF Owing
  <2>2. Cardinality(Owing) # 0
    BY <1>1, <2>1, FS_EmptySet
  <2> QED
    BY <1>2, <2>2
<1> QED
  BY <1>1, <1>2, <1>3

LEMMA NextUsesQueue ==
  ASSUME UseInv, [Next]_vars
  PROVE  [wbNext]_wbVars
<1>1. CASE OwesMore \/ Lists
  BY <1>1 DEF OwesMore, Lists, restKept
<1>2. CASE Marks
  <2> PICK w \in Callers :
        Owes(w) /\ calls' = calls + 1 /\ Enqueue(caller[w].chan, caller[w].want)
    BY <1>2 DEF Marks
  <2>1. caller[w].chan \in Keys /\ caller[w].want \in Wants
    BY DEF UseInv, CallerInv, CallerRecord
  <2>2. calls \in Nat /\ MaxCalls \in Nat
    BY BoundAssumption DEF UseInv, BaseInv, wbTypeOK
  <2>3. calls < MaxCalls
    BY <2>2, OwingCount DEF UseInv, CallerInv
  <2>4. Mark(caller[w].chan, caller[w].want)
    BY <2>3 DEF Mark
  <2> QED
    BY <2>1, <2>4 DEF wbNext
<1>3. CASE WorkerKind
  <2>1. ASSUME step = "item", AdvancePage(pageEnd.last, pageEnd.done)
        PROVE  wbNext
    <3>1. pageEnd.last \in PageEnds /\ pageEnd.done \in BOOLEAN
      BY DEF UseInv, PageInv
    <3>2. pageEnd.done \/ pageEnd.last > cursor.after
      BY <2>1 DEF UseInv, PageInv, AdvancePage
    <3> QED
      BY <2>1, <3>1, <3>2 DEF wbNext
  <2> QED
    BY <1>3, <2>1 DEF WorkerKind, wbNext
<1> QED
  BY <1>1, <1>2, <1>3, StepIsKind

-----------------------------------------------------------------------------
(* The invariant is inductive *)

LEMMA CallerKept ==
  ASSUME UseInv, OwesMore \/ Marks \/ Lists \/ WorkerKind
  PROVE  CallerInv'
<1> USE DEF CallerInv
<1>0. /\ calls \in Nat /\ MaxCalls \in Nat /\ Cardinality(Owing) \in Nat
      /\ CallerInv
  BY BoundAssumption, OwingCount DEF UseInv, BaseInv, wbTypeOK
<1>1. CASE OwesMore
  <2> PICK w \in Callers, c \in Keys, want \in Wants, l \in BOOLEAN :
        /\ ~Owes(w)
        /\ calls + Cardinality(Owing) < MaxCalls
        /\ calls' = calls
        /\ caller' = [caller EXCEPT ![w] = [owes |-> TRUE, chan |-> c, want |-> want,
                                            locked |-> l]]
    BY <1>1 DEF OwesMore
  <2>1. [owes |-> TRUE, chan |-> c, want |-> want, locked |-> l] \in CallerRecord
    BY KeysAssumption DEF CallerRecord
  <2>2. caller' \in [Callers -> CallerRecord]
    BY <1>0, <2>1
  <2>3. \A v \in Callers : caller'[v].owes => caller'[v].chan \in Keys
    BY <1>0 DEF Owes
  <2>4. Owing' = Owing \cup {w} /\ w \notin Owing
    BY <1>0 DEF Owing, Owes
  <2>5. Cardinality(Owing') = Cardinality(Owing) + 1
    BY <2>4, OwingCount, FS_AddElement
  <2>6. Cardinality(Owing)' = Cardinality(Owing) + 1
    BY <2>5
  <2>7. calls' + Cardinality(Owing)' <= MaxCalls
    BY <1>0, <2>6
  <2> QED
    BY <2>2, <2>3, <2>7 DEF Owes
<1>2. CASE Marks
  <2> PICK w \in Callers :
        /\ Owes(w)
        /\ calls' = calls + 1
        /\ caller' = [caller EXCEPT ![w] = NoMark]
    BY <1>2 DEF Marks
  <2>1. NoMark \in CallerRecord /\ ~NoMark.owes
    BY DEF NoMark, CallerRecord, Wants
  <2>2. caller' \in [Callers -> CallerRecord]
    BY <1>0, <2>1
  <2>3. \A v \in Callers : caller'[v].owes => caller'[v].chan \in Keys
    BY <1>0, <2>1 DEF Owes
  <2>4. Owing' = Owing \ {w} /\ w \in Owing
    BY <1>0, <2>1 DEF Owing, Owes
  <2>5. Cardinality(Owing') = Cardinality(Owing) - 1
    BY <2>4, OwingCount, FS_RemoveElement
  <2>6. Cardinality(Owing)' = Cardinality(Owing) - 1
    BY <2>5
  <2>7. calls' + Cardinality(Owing)' <= MaxCalls
    BY <1>0, <2>6
  <2> QED
    BY <2>2, <2>3, <2>7 DEF Owes
<1>3. CASE Lists \/ WorkerKind
  <2>1. caller' = caller /\ calls' = calls
    BY <1>3 DEF Lists, WorkerKind, callersKept
  <2> QED
    BY <1>0, <2>1 DEF Owing, Owes
<1> QED
  BY <1>1, <1>2, <1>3

\* A mark leaves a reconciliation in progress where it is.
LEMMA MarkKeepsPage ==
  ASSUME cursor \in Cursor, cursor.active, cursor.started,
         NEW k, NEW w, Enqueue(k, w)
  PROVE  /\ cursor'.active /\ cursor'.started
         /\ cursor'.after = cursor.after /\ cursor'.phase = cursor.phase
BY DEF Enqueue, EnqueueClosed, EnqueueAbsorbed, EnqueueOverflow, EnqueueKeyed,
       Dirtied, Cursor

LEMMA PageKept ==
  ASSUME UseInv, OwesMore \/ Marks \/ Lists \/ WorkerKind
  PROVE  PageInv'
<1> USE DEF PageInv
<1>0. PageInv /\ cursor \in Cursor /\ run \in Run
  BY DEF UseInv, BaseInv, wbTypeOK
<1>1. CASE OwesMore
  BY <1>0, <1>1 DEF OwesMore, restKept, wbVars
<1>2. CASE Marks
  <2> PICK w \in Callers : Enqueue(caller[w].chan, caller[w].want)
    BY <1>2 DEF Marks
  <2>1. run' = run /\ step' = step /\ pageEnd' = pageEnd
    BY <1>2 DEF Marks, Enqueue
  <2> QED
    BY <1>0, <2>1, MarkKeepsPage
<1>3. CASE Lists
  <2> PICK P \in SUBSET Keys, last \in PageEnds :
        /\ PageOf(P, last)
        /\ pageEnd' = [last |-> last, done |-> IF Cardinality(P) < PageSize THEN TRUE ELSE FALSE]
    BY <1>3 DEF Lists
  <2>1. run' = run /\ cursor' = cursor
    BY <1>3 DEF Lists, wbVars
  <2>2. P = {} => Cardinality(P) < PageSize
    BY FS_EmptySet, RowAssumption
  <2>3. P # {} => last > cursor.after
    <3>1. PageSize \in Nat /\ LocalChannels = 0 /\ PrimaryChannels = 1
      BY RowAssumption DEF LocalChannels, PrimaryChannels
    <3>2. P # {} => P \subseteq After(Ids(sqlite)) \/ P \subseteq After(Ids(primary))
      BY <3>1 DEF PageOf, IsPage
    <3>3. P # {} => last \in P
      BY DEF PageOf
    <3> QED
      BY <3>2, <3>3 DEF After
  <2>4. pageEnd'.done \/ pageEnd'.last > cursor.after
    BY <2>2, <2>3
  <2> QED
    BY <1>0, <2>1, <2>4
<1>4. CASE WorkerKind
  <2>1. pageEnd' = pageEnd
    BY <1>4 DEF WorkerKind
  <2>2. CASE BeginPage /\ step' = "list"
    <3>1. cursor'.active /\ cursor'.started
      BY <1>0, <2>2 DEF BeginPage, FreshCursor, Cursor
    <3> QED
      BY <1>0, <2>1, <2>2, <3>1
  <2>3. CASE (UNCHANGED wbVars /\ step # "list") \/ UNCHANGED <<wbVars, step>>
    BY <1>0, <2>1, <2>3 DEF wbVars
  <2>4. ASSUME NEW k \in TaskKeys, (RetryDue(k) \/ Oversleep(k)) /\ step' = step
        PROVE  PageInv'
    BY <1>0, <2>1, <2>4 DEF RetryDue, Oversleep, Run
  <2>5. CASE (Park \/ SleepUntilRetry \/ PrimaryReady \/ WakeUp \/ Exit \/ Close \/ Cancel) /\ step' = step
    BY <1>0, <2>1, <2>5 DEF Park, SleepUntilRetry, PrimaryReady, WakeUp, Exit, Close, Cancel, Run
  <2>6. ASSUME run'.stage # "paging"
        PROVE  PageInv'
    BY <1>0, <2>1, <2>6
  <2>7. ASSUME NEW k \in TaskKeys, TakeTask(k)
        PROVE  run'.stage # "paging"
    BY <2>7 DEF TakeTask
  <2>8. ASSUME AdvancePage(pageEnd.last, pageEnd.done) \/ ContinueReconcile \/ FailPage \/ Finish
        PROVE  run'.stage # "paging"
    BY <1>0, <2>8 DEF AdvancePage, ContinueReconcile, FailPage, Finish, Run
  <2>9. ASSUME NEW o \in {"ok", "err"}, EndRun(o)
        PROVE  run'.stage # "paging"
    BY <1>0, <2>9 DEF EndRun, Run
  <2> QED
    BY <1>4, <2>2, <2>3, <2>4, <2>5, <2>6, <2>7, <2>8, <2>9 DEF WorkerKind
<1> QED
  BY <1>1, <1>2, <1>3, <1>4

LEMMA UseInit ==
  ASSUME Init
  PROVE  UseInv
<1>1. wbInit
  BY DEF Init
<1>2. BaseInv
  BY <1>1, QueueInit DEF QueueInv
<1>3. CallerInv
  <2>1. caller = [w \in Callers |-> NoMark] /\ calls = 0
    BY <1>1 DEF Init, wbInit
  <2>2. NoMark \in CallerRecord /\ ~NoMark.owes
    BY DEF NoMark, CallerRecord, Wants
  <2>3. Owing = {}
    BY <2>1, <2>2 DEF Owing, Owes
  <2>4. Cardinality(Owing) = 0
    BY <2>3, FS_EmptySet
  <2> QED
    BY <2>1, <2>2, <2>4, BoundAssumption DEF CallerInv, Owes
<1>4. PageInv
  <2>1. pageEnd = [last |-> 0, done |-> TRUE] /\ run.stage = "preparing"
    BY <1>1 DEF Init, wbInit
  <2> QED
    BY <2>1 DEF PageInv, PageEnds
<1> QED
  BY <1>2, <1>3, <1>4 DEF UseInv

LEMMA UseNext ==
  ASSUME UseInv, [Next]_vars
  PROVE  UseInv'
BY StepIsKind, NextUsesQueue, BaseKept, CallerKept, PageKept DEF UseInv

-----------------------------------------------------------------------------
(* The replication uses the queue *)

\* The hybrid store uses its queue as the queue's own specification says: every
\* step of callers and worker is a step of the queue, or none of it.
THEOREM ReplicaUsesQueue == Spec => wbSpec
<1>1. Init => UseInv /\ wbInit
  BY UseInit DEF Init
<1>2. UseInv /\ [Next]_vars => UseInv' /\ [wbNext]_wbVars
  BY UseNext, NextUsesQueue
<1> QED
  BY <1>1, <1>2, PTL DEF Spec, wbSpec

\* Hence, with any callers and any failing statements, the queue stays within
\* maxPending, its tasks keep their identity, a reconciliation in progress has
\* its task, and no mark is lost but to a run of it or to a reconciliation.
THEOREM ReplicaQueueSafe ==
  Spec => []QueueSafe /\ NewestMarkSurvives
BY ReplicaUsesQueue, QueueInvariants, MarksSurvive

-----------------------------------------------------------------------------
(* No change is forgotten: the inductive invariant *)

\* The databases hold rows, and names are unique in SQLite.
RowsInv ==
  /\ sqlite \in [Keys -> Row \cup {NoRow}]
  /\ primary \in [Keys -> Row \cup {NoRow}]
  /\ used \subseteq Keys /\ inherited \subseteq Keys
  /\ \A c, d \in Keys :
       sqlite[c] # NoRow /\ sqlite[d] # NoRow /\ sqlite[c].name = sqlite[d].name => c = d

\* Where the worker is in task.run, and what it holds there.
Copying == {"load", "children", "write", "drop"}

StepInv ==
  /\ step \in Steps /\ run.key \in RegularKeys
  /\ page \subseteq Keys /\ chan \in Keys \cup {0} /\ buf \in Row \cup {NoRow}
  /\ step = "none" <=> run.stage \notin {"running", "paging", "paged"}
  /\ step = "begin" <=> (run.stage = "running" /\ run.key = FullSync)
  /\ step = "continue" <=> run.stage = "paged"
  /\ run.stage = "running" /\ run.key # FullSync => step \in Copying /\ chan = run.key
  /\ run.stage = "paging" => step \in Copying \cup {"list", "item", "check"}
  /\ step \in Copying \cup {"check"} => chan \in Keys
  /\ step \in {"children", "write"} => buf \in Row

\* What is left of the page in work lies after the cursor.
AheadInv ==
  /\ cursor.active /\ ~cursor.started => cursor.phase = 0 /\ cursor.after = 0
  /\ run.stage = "paging" =>
       /\ cursor.phase = run.phase
       /\ step = "check" => cursor.phase # LocalChannels
       /\ step # "list" =>
            /\ \A i \in page : i > cursor.after
            /\ step # "item" => chan > cursor.after

\* A reconciliation is queued that has everything ahead of it.
AllAhead ==
  /\ Pending(FullSync) /\ cursor.active
  /\ cursor.restart \/ ~cursor.started

\* Somebody other than the current run will copy c.
Elsewhere(c) ==
  \/ closed
  \/ Owed(c)
  \/ Pending(c) /\ tasks[c].gen # run.gen
  \/ AllAhead

\* The id is used up and its channel is gone for good.
Dead(c) == c \in used /\ sqlite[c] = NoRow

\* Deletes are about dead channels, from the commit to the run.
DeadInv ==
  /\ \A c \in Keys : Pending(c) /\ tasks[c].want = "delete" => Dead(c)
  /\ \A w \in Callers : Owes(w) /\ caller[w].want = "delete" => Dead(caller[w].chan)
  /\ \A c \in Keys : run.stage = "running" /\ run.key = c /\ run.want = "delete" => Dead(c)

\* What the worker has read is what SQLite holds, or somebody else will copy
\* the channel; and a channel that took its name since will be copied, too.
ReadInv ==
  /\ step = "children" =>
       (sqlite[chan] # NoRow /\ buf.name = sqlite[chan].name) \/ Elsewhere(chan)
  /\ step = "write" => buf = sqlite[chan] \/ Elsewhere(chan)
  /\ step = "drop" => sqlite[chan] = NoRow \/ Elsewhere(chan)
  /\ step \in {"children", "write"} =>
       \A d \in Keys : d # chan /\ sqlite[d] # NoRow /\ sqlite[d].name = buf.name
                         => closed \/ Owed(d) \/ Pending(d) \/ AllAhead

\* A task that has been run successfully has done its work.
DoneInv ==
  run.stage = "ok" /\ run.key \in Keys =>
    primary[run.key] = sqlite[run.key] \/ Elsewhere(run.key)

\* The facts about queue, goroutines and types that every step starts from.
Ground == UseInv /\ GenInv /\ CursorInv /\ RowsInv /\ StepInv /\ AheadInv

ReplicaInv == Ground /\ DeadInv /\ ReadInv /\ DoneInv /\ NothingForgotten

-----------------------------------------------------------------------------
LEMMA GroundFacts ==
  ASSUME Ground
  PROVE  /\ cursor \in Cursor /\ cursor.after \in Nat /\ cursor.phase \in Nat
         /\ run \in Run /\ run.gen \in Nat /\ nextGen \in Nat
         /\ tasks \in [TaskKeys -> Task]
         /\ caller \in [Callers -> CallerRecord]
         /\ FullSync \notin Keys /\ Keys \subseteq Nat /\ 0 \notin Keys
         /\ Keys \subseteq TaskKeys /\ FullSync \in TaskKeys
         /\ NoRow \notin Row
         /\ PhaseCount \in Nat /\ PhaseCount >= 2
BY KeysAssumption, RowAssumption, BoundAssumption, KeyKinds
   DEF Ground, UseInv, BaseInv, wbTypeOK, CallerInv, Cursor, Run, Row

\* A reconciliation that has everything ahead of it covers every channel.
LEMMA AllAheadCovers ==
  ASSUME Ground, AllAhead, NEW c \in Keys
  PROVE  ReconcileCovers(c)
<1>1. c \in Nat /\ c > 0
  BY GroundFacts
<1>2. CASE cursor.restart
  BY <1>2 DEF AllAhead, ReconcileCovers
<1>3. CASE ~cursor.restart
  <2>1. cursor.active /\ ~cursor.started
    BY <1>3 DEF AllAhead
  <2>2. cursor.phase = LocalChannels /\ cursor.after = 0
    BY <2>1 DEF Ground, AheadInv, LocalChannels
  <2>3. run.stage # "paging"
    BY <2>1 DEF Ground, UseInv, PageInv
  <2>4. Ahead(c)
    BY <1>1, <2>2, <2>3 DEF Ahead
  <2> QED
    BY <2>4 DEF AllAhead, ReconcileCovers
<1> QED
  BY <1>2, <1>3

LEMMA ElsewhereCovers ==
  ASSUME Ground, NEW c \in Keys, Elsewhere(c)
  PROVE  Covered(c)
BY AllAheadCovers DEF Elsewhere, Covered

-----------------------------------------------------------------------------
(* Marks *)

\* A mark of channel k leaves the queue closed, or with a reconciliation that
\* has everything ahead of it, or with a new task of k.
KeyedMark(k, want) ==
  /\ ~Pending(FullSync) /\ ~Pending(FullSync)' /\ cursor' = cursor
  /\ tasks' = [tasks EXCEPT ![k] = NewTask(want)]

LEMMA MarkEffect ==
  ASSUME Ground, NEW k \in Keys, NEW want \in Wants, Enqueue(k, want)
  PROVE  /\ closed' = closed /\ run' = run
         /\ (closed /\ UNCHANGED <<tasks, cursor>>) \/ AllAhead' \/ KeyedMark(k, want)
         /\ \A c \in Keys : c # k => tasks'[c] = tasks[c] \/ tasks'[c] = NoTask
         /\ tasks'[k] \in {tasks[k], NoTask, NewTask(want)}
         /\ cursor'.active /\ ~cursor'.started => cursor'.phase = 0 /\ cursor'.after = 0
<1>1. closed' = closed /\ run' = run
  BY DEF Enqueue
<1>0. AheadInv /\ CursorHasTask
  BY DEF Ground, CursorInv
<1> USE GroundFacts
<1>2. CASE EnqueueClosed
  BY <1>0, <1>1, <1>2 DEF EnqueueClosed, AheadInv
<1>3. CASE EnqueueAbsorbed
  <2>1. Pending(FullSync)' /\ \A c \in Keys : tasks'[c] = tasks[c]
    BY <1>3, NewTaskType DEF EnqueueAbsorbed, ReplaceReconcile, Pending, Ground, UseInv, BaseInv, Wants
  <2>2. cursor' = Dirtied(cursor)
    BY <1>3 DEF EnqueueAbsorbed
  <2>3. AllAhead'
    BY <2>1, <2>2 DEF AllAhead, Dirtied, FreshCursor, Cursor
  <2>4. cursor'.active /\ ~cursor'.started => cursor'.phase = 0 /\ cursor'.after = 0
    BY <1>0, <2>2 DEF AheadInv, Dirtied, FreshCursor, Cursor
  <2> QED
    BY <1>1, <2>1, <2>3, <2>4
<1>4. CASE EnqueueOverflow(k)
  <2>1. Pending(FullSync)' /\ \A c \in Keys : tasks'[c] = tasks[c] \/ tasks'[c] = NoTask
    BY <1>4, NewTaskType DEF EnqueueOverflow, ReplaceReconcile, Pending, Ground, UseInv, BaseInv, Wants
  <2>2. cursor' = FreshCursor(TRUE)
    BY <1>0, <1>4 DEF EnqueueOverflow, CursorHasTask, Dirtied
  <2>3. AllAhead'
    BY <2>1, <2>2 DEF AllAhead, FreshCursor
  <2> QED
    BY <1>1, <2>1, <2>2, <2>3 DEF FreshCursor
<1>5. CASE EnqueueKeyed(k, want)
  <2>1. tasks' = [tasks EXCEPT ![k] = NewTask(want)] /\ cursor' = cursor /\ ~Pending(FullSync)
    BY <1>5 DEF EnqueueKeyed
  <2>2. tasks'[k] = NewTask(want) /\ \A c \in TaskKeys : c # k => tasks'[c] = tasks[c]
    BY <2>1
  <2>3. ~Pending(FullSync)'
    BY <2>1, <2>2 DEF Pending
  <2> QED
    BY <1>0, <1>1, <2>1, <2>2, <2>3 DEF KeyedMark, AheadInv
<1> QED
  BY <1>2, <1>3, <1>4, <1>5 DEF Enqueue

-----------------------------------------------------------------------------
(* Rows, steps and pages *)

\* A goroutine has committed a change of channel c in SQLite.
Commits(w, c) ==
  /\ \E row \in Row \cup {NoRow} : sqlite' = [sqlite EXCEPT ![c] = row]
  /\ \E want \in Wants, l \in BOOLEAN :
       /\ caller' = [caller EXCEPT ![w] = [owes |-> TRUE, chan |-> c, want |-> want, locked |-> l]]
       /\ want = "delete" => c \in used' /\ sqlite'[c] = NoRow
  /\ ~Owes(w)
  /\ used \subseteq used' /\ used' \subseteq used \cup {c}
  /\ \A d \in Keys : Dead(d) => Dead(d)'
  /\ sqlite'[c] # NoRow => \A d \in Keys \ {c} : sqlite[d] # NoRow => sqlite[d].name # sqlite'[c].name
  /\ UNCHANGED <<wbVars, primary, inherited, copyVars, fails>>

LEMMA CallerCommits ==
  ASSUME Ground, NEW w \in Callers, CallerNext(w), ~MarkDirty(w)
  PROVE  \E c \in Keys : Commits(w, c)
<1> USE DEF Begin, copyVars
<1>0. RowsInv /\ sqlite \in [Keys -> Row \cup {NoRow}] /\ NoRow \notin Row
  BY GroundFacts DEF Ground, RowsInv
<1>1. ASSUME NEW c \in Keys, NEW row \in Row, NEW l \in BOOLEAN, Create(w, c, row, l)
      PROVE  Commits(w, c)
  <2>1. sqlite' = [sqlite EXCEPT ![c] = row] /\ sqlite'[c] = row /\ row # NoRow
    BY <1>0, <1>1 DEF Create
  <2>2. \A d \in Keys : Dead(d) => Dead(d)'
    BY <1>0, <1>1 DEF Create, Dead
  <2>3. \A d \in Keys \ {c} : sqlite[d] # NoRow => sqlite[d].name # row.name
    BY <1>1 DEF Create, NameFree
  <2> QED
    BY <1>1, <2>1, <2>2, <2>3 DEF Create, Commits, Wants
<1>2. ASSUME NEW c \in Keys, NEW row \in Row, NEW l \in BOOLEAN, Update(w, c, row, l)
      PROVE  Commits(w, c)
  <2>1. sqlite' = [sqlite EXCEPT ![c] = row] /\ sqlite'[c] = row /\ row # NoRow
    BY <1>0, <1>2 DEF Update
  <2>2. \A d \in Keys : Dead(d) => Dead(d)'
    BY <1>0, <1>2 DEF Update, Dead
  <2>3. \A d \in Keys \ {c} : sqlite[d] # NoRow => sqlite[d].name # row.name
    BY <1>2 DEF Update, NameFree
  <2> QED
    BY <1>2, <2>1, <2>2, <2>3 DEF Update, Commits, Wants
<1>3. ASSUME NEW c \in Keys, TouchMissing(w, c)
      PROVE  Commits(w, c)
  <2>1. sqlite' = [sqlite EXCEPT ![c] = sqlite[c]] /\ sqlite[c] \in Row \cup {NoRow}
    BY <1>0, <1>3 DEF TouchMissing
  <2> QED
    BY <1>0, <1>3, <2>1 DEF TouchMissing, Commits, Wants, Dead
<1>4. ASSUME NEW c \in Keys, Delete(w, c)
      PROVE  Commits(w, c)
  <2>1. sqlite' = [sqlite EXCEPT ![c] = NoRow] /\ sqlite'[c] = NoRow
    BY <1>0, <1>4 DEF Delete
  <2>2. \A d \in Keys : Dead(d) => Dead(d)'
    BY <1>0, <1>4 DEF Delete, Dead
  <2> QED
    BY <1>4, <2>1, <2>2 DEF Delete, Commits, Wants
<1> QED
  BY <1>1, <1>2, <1>3, <1>4 DEF CallerNext

\* What the worker may have done to the primary: it has written the row it
\* read, with the rows that have its name deleted, or deleted the row.
RowWritten == step = "write" /\ primary' = Written
RowDropped == step = "drop" /\ primary' = [primary EXCEPT ![chan] = NoRow]

LEMMA RowsKept ==
  ASSUME Ground, [Next]_vars
  PROVE  RowsInv'
<1> USE GroundFacts
<1>0. RowsInv /\ StepInv
  BY DEF Ground
<1>1. ASSUME NEW w \in Callers, CallerNext(w)
      PROVE  RowsInv'
  <2>1. CASE MarkDirty(w)
    BY <1>0, <2>1 DEF MarkDirty, RowsInv
  <2>2. CASE ~MarkDirty(w)
    <3>1. PICK c \in Keys : Commits(w, c)
      BY <1>1, <2>2, CallerCommits
    <3>2. PICK row \in Row \cup {NoRow} : sqlite' = [sqlite EXCEPT ![c] = row]
      BY <3>1 DEF Commits
    <3>3. \A d, e \in Keys :
            sqlite'[d] # NoRow /\ sqlite'[e] # NoRow /\ sqlite'[d].name = sqlite'[e].name => d = e
      BY <1>0, <3>1, <3>2 DEF Commits, RowsInv
    <3> QED
      BY <1>0, <3>1, <3>2, <3>3 DEF Commits, RowsInv
  <2> QED
    BY <2>1, <2>2
<1>2. ASSUME UNCHANGED <<sqlite, used, inherited>>,
             primary' = primary \/ RowWritten \/ RowDropped
      PROVE  RowsInv'
  <2>1. primary' \in [Keys -> Row \cup {NoRow}]
    BY <1>0, <1>2 DEF RowsInv, RowWritten, RowDropped, Written, StepInv
  <2> QED
    BY <1>0, <1>2, <2>1 DEF RowsInv
<1>3. CASE WorkerStep \/ StatementFails
  <2>1. UNCHANGED <<sqlite, used, inherited>>
    BY <1>3 DEF WorkerStep, StatementFails, LoadConfig, LoadConfigMissing, LoadChildren, WriteReplica,
                DropReplica, StartPage, ListPage, NextItem, CheckRow, PageProcessed, NextPage,
                FinishRun, Advances, ItemDone, Errs, dataVars
  <2>2. primary' = primary \/ RowWritten \/ RowDropped
    BY <1>3 DEF WorkerStep, StatementFails, LoadConfig, LoadConfigMissing, LoadChildren, WriteReplica,
                DropReplica, StartPage, ListPage, NextItem, CheckRow, PageProcessed, NextPage,
                FinishRun, Errs, dataVars, RowWritten, RowDropped
  <2> QED
    BY <1>2, <2>1, <2>2
<1>4. ASSUME UNCHANGED dataVars
      PROVE  RowsInv'
    BY <1>2, <1>4 DEF dataVars
<1> QED
  BY <1>1, <1>3, <1>4 DEF Next, StartRun, Retry, Sleep, Wake, LoopExit, CloseQueue, CancelCtx, vars

LEMMA CallerKeepsRun ==
  ASSUME Ground, NEW w \in Callers, CallerNext(w)
  PROVE  UNCHANGED <<run, copyVars, fails>>
<1>1. CASE MarkDirty(w)
  BY <1>1 DEF MarkDirty, Enqueue
<1>2. CASE ~MarkDirty(w)
  BY <1>2, CallerCommits DEF Commits, wbVars
<1> QED
  BY <1>1, <1>2

LEMMA StepKept ==
  ASSUME Ground, [Next]_vars
  PROVE  StepInv'
<1> USE GroundFacts DEF StepInv, Copying, Steps, copyVars, Goto
<1>0. StepInv /\ run \in Run /\ RowsInv /\ FullSync \in RegularKeys /\ FullSync \notin Keys
      /\ RegularKeys = Keys \cup {FullSync}
  BY KeyKinds DEF Ground, RegularKeys
<1>1. ASSUME UNCHANGED <<run, copyVars>>
      PROVE  StepInv'
  BY <1>0, <1>1
<1>2. ASSUME NEW w \in Callers, CallerNext(w)
      PROVE  StepInv'
  BY <1>1, <1>2, CallerKeepsRun
<1>3. ASSUME NEW k \in RegularKeys, StartRun(k)
      PROVE  StepInv'
  BY <1>0, <1>3 DEF StartRun, TakeTask
<1>4. ASSUME NEW k \in RegularKeys, Retry(k)
      PROVE  StepInv'
  BY <1>1, <1>4 DEF Retry, RetryDue
<1>5. CASE LoadConfig
  <2>1. sqlite[chan] \in Row
    BY <1>0, <1>5 DEF LoadConfig, RowsInv
  <2>2. [name |-> sqlite[chan].name, content |-> Bare] \in Row
    BY <2>1, RowAssumption DEF Row
  <2> QED
    BY <1>0, <1>5, <2>2 DEF LoadConfig, Advances, wbVars
<1>6. CASE LoadChildren
  <2>1. sqlite[chan] \in Row \/ sqlite[chan] = NoRow
    BY <1>0, <1>6 DEF LoadChildren, RowsInv
  <2>2. buf' \in Row
    BY <1>0, <1>6, <2>1, RowAssumption DEF LoadChildren, Row
  <2> QED
    BY <1>0, <1>6, <2>2 DEF LoadChildren, Advances, wbVars
<1>7. CASE LoadConfigMissing \/ StatementFails
  BY <1>0, <1>7 DEF LoadConfigMissing, StatementFails, Errs, FailPage, EndRun, Run
<1>8. CASE WriteReplica \/ DropReplica
  BY <1>0, <1>8 DEF WriteReplica, DropReplica, ItemDone, Advances, EndRun, Run, wbVars
<1>9. CASE StartPage
  BY <1>0, <1>9 DEF StartPage, BeginPage, Run
<1>10. CASE ListPage
  BY <1>0, <1>10 DEF ListPage, Advances, wbVars
<1>11. CASE NextItem
  BY <1>0, <1>11 DEF NextItem, Advances, wbVars
<1>12. CASE CheckRow
  BY <1>0, <1>12 DEF CheckRow, Advances, wbVars
<1>13. CASE PageProcessed
  BY <1>0, <1>13 DEF PageProcessed, AdvancePage, Run
<1>14. CASE NextPage
  BY <1>0, <1>14 DEF NextPage, ContinueReconcile, Run
<1>15. CASE FinishRun
  BY <1>0, <1>15 DEF FinishRun, Finish, Run
<1>16. CASE Sleep
  BY <1>0, <1>16 DEF Sleep, Park, SleepUntilRetry, Oversleep, Run
<1>17. CASE Wake \/ LoopExit
  BY <1>0, <1>17 DEF Wake, PrimaryReady, WakeUp, LoopExit, Exit, Run
<1>18. CASE CloseQueue \/ CancelCtx \/ UNCHANGED vars
  BY <1>1, <1>18 DEF CloseQueue, Close, CancelCtx, Cancel, vars, wbVars
<1> QED
  BY <1>2, <1>3, <1>4, <1>5, <1>6, <1>7, <1>8, <1>9, <1>10, <1>11, <1>12, <1>13, <1>14,
     <1>15, <1>16, <1>17, <1>18 DEF Next, WorkerStep

LEMMA AheadKept ==
  ASSUME Ground, [Next]_vars
  PROVE  AheadInv'
<1> USE GroundFacts DEF AheadInv, copyVars, Goto
<1>0. AheadInv /\ StepInv /\ PageInv /\ run \in Run /\ cursor \in Cursor
  BY DEF Ground, UseInv
<1>1. ASSUME UNCHANGED <<cursor, copyVars>>, run'.stage = run.stage, run'.phase = run.phase
      PROVE  AheadInv'
  BY <1>0, <1>1
<1>2. ASSUME UNCHANGED cursor, run'.stage # "paging"
      PROVE  AheadInv'
  BY <1>0, <1>2
<1>3. ASSUME NEW w \in Callers, CallerNext(w)
      PROVE  AheadInv'
  <2>1. UNCHANGED <<run, copyVars>>
    BY <1>3, CallerKeepsRun
  <2>2. CASE MarkDirty(w)
    <3>1. caller[w].chan \in Keys /\ caller[w].want \in Wants /\ Enqueue(caller[w].chan, caller[w].want)
      BY <2>2 DEF MarkDirty, Ground, UseInv, CallerInv, CallerRecord
    <3>2. cursor'.active /\ ~cursor'.started => cursor'.phase = 0 /\ cursor'.after = 0
      BY <3>1, MarkEffect
    <3>3. run.stage = "paging" =>
            cursor'.active /\ cursor'.started /\ cursor'.after = cursor.after /\ cursor'.phase = cursor.phase
      BY <1>0, <3>1, MarkKeepsPage DEF PageInv
    <3> QED
      BY <1>0, <2>1, <3>2, <3>3
  <2>3. CASE ~MarkDirty(w)
    BY <1>1, <1>3, <2>3, CallerCommits DEF Commits, wbVars
  <2> QED
    BY <2>2, <2>3
<1>4. ASSUME NEW k \in RegularKeys, StartRun(k) \/ Retry(k)
      PROVE  AheadInv'
  BY <1>1, <1>2, <1>4 DEF StartRun, TakeTask, Retry, RetryDue
<1>5. CASE LoadConfig \/ LoadChildren
  BY <1>0, <1>5 DEF LoadConfig, LoadChildren, Advances, wbVars
<1>6. CASE LoadConfigMissing \/ StatementFails
  BY <1>2, <1>0, <1>6 DEF LoadConfigMissing, StatementFails, Errs, FailPage, EndRun, Run
<1>7. CASE WriteReplica \/ DropReplica
  BY <1>0, <1>7 DEF WriteReplica, DropReplica, ItemDone, Advances, EndRun, Run, wbVars
<1>8. CASE StartPage
  BY <1>0, <1>8 DEF StartPage, BeginPage, Run, Cursor, FreshCursor
<1>9. CASE ListPage
  <2> PICK P \in SUBSET Keys, last \in PageEnds : PageOf(P, last) /\ page' = P
    BY <1>9 DEF ListPage
  <2>1. \A i \in P : i > cursor.after
    BY DEF PageOf, IsPage, After
  <2> QED
    BY <1>0, <1>9, <2>1 DEF ListPage, Advances, wbVars
<1>10. CASE NextItem
  BY <1>0, <1>10 DEF NextItem, Advances, wbVars, StepInv, Copying
<1>11. CASE CheckRow
  BY <1>0, <1>11 DEF CheckRow, Advances, wbVars
<1>12. CASE PageProcessed
  <2>1. run'.stage # "paging" /\ run.stage = "paging"
    BY <1>0, <1>12 DEF PageProcessed, AdvancePage, Run
  <2>2. cursor.active /\ cursor.started
    BY <1>0, <2>1 DEF PageInv
  <2>3. cursor'.active /\ ~cursor'.started => cursor'.phase = 0 /\ cursor'.after = 0
    BY <2>2, <1>12 DEF PageProcessed, AdvancePage, Advanced, FreshCursor, Cursor
  <2> QED
    BY <2>1, <2>3
<1>13. CASE NextPage \/ FinishRun
  BY <1>0, <1>2, <1>13 DEF NextPage, ContinueReconcile, FinishRun, Finish, Run
<1>14. CASE Sleep \/ Wake \/ LoopExit
  BY <1>0, <1>2, <1>14 DEF Sleep, Park, SleepUntilRetry, Oversleep, Wake, PrimaryReady, WakeUp, LoopExit, Exit, Run
<1>15. CASE CloseQueue \/ CancelCtx \/ UNCHANGED vars
  BY <1>1, <1>15 DEF CloseQueue, Close, CancelCtx, Cancel, vars, wbVars
<1> QED
  BY <1>3, <1>4, <1>5, <1>6, <1>7, <1>8, <1>9, <1>10, <1>11, <1>12, <1>13, <1>14, <1>15
     DEF Next, WorkerStep

LEMMA GroundKept ==
  ASSUME Ground, [Next]_vars
  PROVE  Ground'
<1>1. UseInv' /\ [wbNext]_wbVars
  BY UseNext, NextUsesQueue DEF Ground
<1>2. BaseInv /\ BaseInv' /\ QueueStep
  BY <1>1, BaseKept DEF Ground, UseInv
<1>3. GenInv' /\ CursorInv'
  BY <1>2, GenKept, CursorKept DEF Ground
<1> QED
  BY <1>1, <1>3, RowsKept, StepKept, AheadKept DEF Ground

-----------------------------------------------------------------------------
(* What the steps of the worker and of the clock leave as it is *)

WorkerOrClock ==
  \/ WorkerStep \/ StatementFails \/ Sleep \/ Wake \/ LoopExit \/ CloseQueue \/ CancelCtx
  \/ \E k \in RegularKeys : Retry(k)
  \/ UNCHANGED vars

\* The task of channel c is the one it was, or waits for another attempt.
SameTask(c) == tasks'[c].gen = tasks[c].gen /\ tasks'[c].want = tasks[c].want

\* The run of the task of channel c has succeeded, and the task is removed.
TaskDone(c) ==
  /\ FinishRun /\ run.stage = "ok" /\ run.key = c /\ tasks[c].gen = run.gen

LEMMA DueIsSame ==
  ASSUME Ground, NEW k \in TaskKeys, NEW b, tasks' = [tasks EXCEPT ![k].due = b], NEW c \in TaskKeys
  PROVE  SameTask(c)
<1>1. tasks[k] \in Task /\ tasks[c] \in Task
  BY GroundFacts
<1>2. tasks'[c] = IF c = k THEN [tasks[k] EXCEPT !.due = b] ELSE tasks[c]
  BY GroundFacts
<1> QED
  BY <1>1, <1>2 DEF Task, SameTask

LEMMA WorkerKeeps ==
  ASSUME Ground, WorkerOrClock
  PROVE  /\ UNCHANGED <<sqlite, used, caller, inherited>>
         /\ run'.gen = run.gen /\ run'.key = run.key
         /\ run'.stage = "running" => run.stage = "running" /\ run'.want = run.want
         /\ closed => closed'
         /\ closed' => closed \/ CloseQueue
         /\ \A c \in Keys : SameTask(c) \/ TaskDone(c)
<1> DEFINE Kept == /\ UNCHANGED <<sqlite, used, caller, inherited>>
                   /\ run'.gen = run.gen /\ run'.key = run.key
                   /\ run'.stage = "running" => run.stage = "running" /\ run'.want = run.want
                   /\ closed => closed'
                   /\ closed' => closed \/ CloseQueue
                   /\ \A c \in Keys : SameTask(c) \/ TaskDone(c)
<1> USE DEF dataVars
<1>0. run \in Run /\ Keys \subseteq TaskKeys /\ FullSync \notin Keys /\ RegularKeys \subseteq TaskKeys
      /\ run.key \in TaskKeys
  BY GroundFacts, KeyKinds DEF Run
<1>1. ASSUME UNCHANGED <<sqlite, used, caller, inherited, tasks, closed>>,
             run' = run \/ (\E s \in Stages \ {"running"} : run' = [run EXCEPT !.stage = s])
      PROVE  Kept
  BY <1>0, <1>1 DEF Run, SameTask
<1>2. CASE (WorkerStep /\ ~StartPage /\ ~NextPage /\ ~FinishRun) \/ StatementFails
  <2>1. UNCHANGED <<sqlite, used, caller, inherited, tasks, closed>>
    BY <1>2 DEF WorkerStep, StatementFails, LoadConfig, LoadConfigMissing, LoadChildren, WriteReplica,
                DropReplica, ListPage, NextItem, CheckRow, PageProcessed,
                Advances, ItemDone, Errs, wbVars, EndRun, FailPage, AdvancePage
  <2>2. run' = run \/ (\E s \in Stages \ {"running"} : run' = [run EXCEPT !.stage = s])
    BY <1>2 DEF WorkerStep, StatementFails, LoadConfig, LoadConfigMissing, LoadChildren, WriteReplica,
                DropReplica, ListPage, NextItem, CheckRow, PageProcessed,
                Advances, ItemDone, Errs, wbVars, EndRun, FailPage, AdvancePage, Stages
  <2> QED
    BY <1>1, <2>1, <2>2
<1>3. CASE StartPage
  BY <1>0, <1>3 DEF StartPage, BeginPage, Run, SameTask
<1>4. CASE NextPage
  <2>1. \A c \in Keys : tasks'[c] = tasks[c]
    BY <1>0, <1>4 DEF NextPage, ContinueReconcile, ReplaceReconcile
  <2> QED
    BY <1>0, <1>4, <2>1 DEF NextPage, ContinueReconcile, Run, SameTask
<1>5. CASE FinishRun
  <2>1. ASSUME NEW c \in Keys
        PROVE  SameTask(c) \/ TaskDone(c)
    <3>1. CASE FinishStale
      BY <3>1 DEF FinishStale, SameTask
    <3>2. CASE FinishOk
      <4>1. c # run.key => tasks'[c] = tasks[c]
        BY <1>0, <3>2, GroundFacts DEF FinishOk
      <4> QED
        BY <1>5, <3>2, <4>1 DEF FinishOk, TaskDone, IsCurrent, SameTask
    <3>3. CASE FinishDropped
      <4>1. FALSE
        BY <3>3, KeyKinds DEF FinishDropped, Ground, StepInv
      <4> QED
        BY <4>1
    <3>4. CASE FinishRetry
      BY <1>0, <3>4, DueIsSame DEF FinishRetry
    <3> QED
      BY <1>5, <3>1, <3>2, <3>3, <3>4 DEF FinishRun, Finish
  <2>2. /\ UNCHANGED <<sqlite, used, caller, inherited, closed>>
        /\ run' = [run EXCEPT !.stage = "idle"]
    BY <1>5 DEF FinishRun, Finish
  <2> QED
    BY <1>0, <2>1, <2>2 DEF Run
<1>6. CASE Sleep
  <2>1. ASSUME NEW k \in RegularKeys, Oversleep(k), UNCHANGED dataVars
        PROVE  Kept
    <3>1. \A c \in Keys : SameTask(c)
      BY <1>0, <2>1, DueIsSame DEF Oversleep
    <3> QED
      BY <1>0, <2>1, <3>1 DEF Oversleep, Run
  <2>2. ASSUME Park \/ SleepUntilRetry, UNCHANGED dataVars
        PROVE  Kept
    BY <1>1, <2>2 DEF Park, SleepUntilRetry, Stages
  <2> QED
    BY <1>6, <2>1, <2>2 DEF Sleep
<1>7. CASE Wake \/ LoopExit
  BY <1>1, <1>7 DEF Wake, PrimaryReady, WakeUp, LoopExit, Exit, Stages
<1>8. CASE CloseQueue
  BY <1>0, <1>8 DEF CloseQueue, Close, SameTask
<1>9. CASE CancelCtx \/ UNCHANGED vars
  BY <1>1, <1>9 DEF CancelCtx, Cancel, vars, wbVars
<1>10. ASSUME NEW k \in RegularKeys, Retry(k)
       PROVE  Kept
  <2>1. \A c \in Keys : SameTask(c)
    BY <1>0, <1>10, DueIsSame DEF Retry, RetryDue
  <2> QED
    BY <1>0, <1>10, <2>1 DEF Retry, RetryDue
<1> QED
  BY <1>2, <1>3, <1>4, <1>5, <1>6, <1>7, <1>8, <1>9, <1>10 DEF WorkerOrClock

LEMMA NextKinds ==
  ASSUME [Next]_vars
  PROVE  \/ WorkerOrClock
         \/ \E w \in Callers : CallerNext(w)
         \/ \E k \in RegularKeys : StartRun(k)
BY DEF Next, WorkerOrClock

-----------------------------------------------------------------------------
(* Deletes *)

LEMMA DeadKept ==
  ASSUME Ground, DeadInv, [Next]_vars
  PROVE  DeadInv'
<1> USE GroundFacts DEF DeadInv
<1>1. CASE WorkerOrClock
  <2>1. \A c : Dead(c)' = Dead(c)
    BY <1>1, WorkerKeeps DEF Dead
  <2>2. \A w : Owes(w)' = Owes(w)
    BY <1>1, WorkerKeeps DEF Owes
  <2>3. ASSUME NEW c \in Keys, Pending(c)', tasks'[c].want = "delete"
        PROVE  Dead(c)'
    <3>1. SameTask(c) \/ TaskDone(c)
      BY <1>1, WorkerKeeps
    <3>2. TaskDone(c) => tasks'[c] = NoTask
      BY DEF TaskDone, FinishRun, Finish, FinishStale, FinishOk, FinishDropped, FinishRetry, IsCurrent
    <3>3. SameTask(c)
      BY <2>3, <3>1, <3>2 DEF NoTask, Pending
    <3> QED
      BY <2>1, <2>3, <3>3 DEF SameTask, Pending
  <2>4. ASSUME NEW w \in Callers, Owes(w)', caller'[w].want = "delete"
        PROVE  Dead(caller[w].chan)'
    BY <1>1, <2>1, <2>2, <2>4, WorkerKeeps
  <2>5. ASSUME NEW c \in Keys, run'.stage = "running", run'.key = c, run'.want = "delete"
        PROVE  Dead(c)'
    BY <1>1, <2>1, <2>5, WorkerKeeps
  <2> QED
    BY <2>3, <2>4, <2>5
<1>2. ASSUME NEW w \in Callers, CallerNext(w), ~MarkDirty(w)
      PROVE  DeadInv'
  <2>1. PICK c \in Keys : Commits(w, c)
    BY <1>2, CallerCommits
  <2>2. \A d \in Keys : Dead(d) => Dead(d)'
    BY <2>1 DEF Commits
  <2>3. \A v \in Callers : v # w => caller'[v] = caller[v]
    BY <2>1 DEF Commits
  <2>4. caller'[w].chan = c /\ (caller'[w].want = "delete" => Dead(c)')
    BY <2>1 DEF Commits, Dead
  <2>5. \A v \in Callers : Owes(v)' /\ caller'[v].want = "delete" => Dead(caller[v].chan)'
    BY <2>2, <2>3, <2>4 DEF Owes, Ground, UseInv, CallerInv
  <2> QED
    BY <2>1, <2>2, <2>5 DEF Commits, wbVars, Pending
<1>3. ASSUME NEW w \in Callers, MarkDirty(w)
      PROVE  DeadInv'
  <2> DEFINE k == caller[w].chan
             want == caller[w].want
  <2>1. k \in Keys /\ want \in Wants /\ Enqueue(k, want) /\ Owes(w)
    BY <1>3 DEF MarkDirty, Ground, UseInv, CallerInv, CallerRecord
  <2>2. \A d : Dead(d)' = Dead(d)
    BY <1>3 DEF MarkDirty, Dead
  <2>3. want = "delete" => Dead(k)
    BY <2>1
  <2>4. run' = run /\ (\A c \in Keys : c # k => tasks'[c] = tasks[c] \/ tasks'[c] = NoTask)
        /\ tasks'[k] \in {tasks[k], NoTask, NewTask(want)}
    BY <2>1, MarkEffect
  <2>5. caller' = [caller EXCEPT ![w] = NoMark] /\ ~NoMark.owes
    BY <1>3 DEF MarkDirty, NoMark
  <2> HIDE DEF k, want
  <2>6. ASSUME NEW c \in Keys, Pending(c)', tasks'[c].want = "delete"
        PROVE  Dead(c)
    <3>1. CASE tasks'[c] = tasks[c]
      BY <2>6, <3>1 DEF Pending
    <3>2. CASE tasks'[c] = NoTask
      BY <2>6, <3>2 DEF Pending, NoTask
    <3>3. CASE c = k /\ tasks'[c] = NewTask(want)
      BY <2>3, <2>6, <3>3 DEF NewTask
    <3> QED
      BY <2>4, <3>1, <3>2, <3>3
  <2>7. ASSUME NEW v \in Callers, Owes(v)', caller'[v].want = "delete"
        PROVE  Dead(caller'[v].chan)
    <3>1. v # w
      BY <2>5, <2>7 DEF Owes
    <3>2. caller'[v] = caller[v]
      BY <2>5, <3>1
    <3> QED
      BY <2>7, <3>2 DEF Owes
  <2> QED
    BY <2>2, <2>4, <2>6, <2>7
<1>4. ASSUME NEW k \in RegularKeys, StartRun(k)
      PROVE  DeadInv'
  <2>1. UNCHANGED <<tasks, dataVars>> /\ run'.key = k /\ run'.want = tasks[k].want /\ Pending(k)
    BY <1>4 DEF StartRun, TakeTask
  <2> QED
    BY <2>1 DEF dataVars, Pending, Owes, Dead
<1> QED
  BY <1>1, <1>2, <1>3, <1>4, NextKinds

-----------------------------------------------------------------------------
(* Who else will copy a channel *)

\* Somebody will copy c, possibly the current run.
Awaited(c) == closed \/ Owed(c) \/ Pending(c) \/ AllAhead

LEMMA MarkReaches ==
  ASSUME Ground, Running, NEW w \in Callers, MarkDirty(w), NEW d \in Keys
  PROVE  /\ Elsewhere(d) => Elsewhere(d)'
         /\ Awaited(d) => Awaited(d)'
<1>1. PICK k \in Keys, want \in Wants : k = caller[w].chan /\ Enqueue(k, want)
  BY DEF MarkDirty, Ground, UseInv, CallerInv, CallerRecord
<1>2. \A v \in Callers : v # w => caller'[v] = caller[v]
  BY DEF MarkDirty
<1>3. d # k /\ Owed(d) => Owed(d)'
  BY <1>1, <1>2 DEF Owed
<1>4. nextGen + 1 # run.gen /\ nextGen + 1 # 0
  BY GroundFacts DEF Ground, GenInv, RunIsNumbered
<1>5. /\ closed' = closed /\ run' = run
      /\ (closed /\ UNCHANGED <<tasks, cursor>>) \/ AllAhead' \/ KeyedMark(k, want)
  BY <1>1, MarkEffect
<1>6. CASE closed \/ AllAhead'
  BY <1>5, <1>6 DEF Elsewhere, Awaited
<1>7. CASE KeyedMark(k, want)
  <2>1. tasks'[k].gen = nextGen + 1
    BY <1>1, <1>7, GroundFacts DEF KeyedMark, NewTask
  <2>2. Elsewhere(k)' /\ Awaited(k)'
    BY <1>4, <1>5, <2>1 DEF Elsewhere, Awaited, Pending
  <2>3. d # k => tasks'[d] = tasks[d]
    BY <1>1, <1>7, GroundFacts DEF KeyedMark
  <2>4. ~AllAhead
    BY <1>7 DEF KeyedMark, AllAhead
  <2> QED
    BY <1>3, <1>5, <2>2, <2>3, <2>4 DEF Elsewhere, Awaited, Pending
<1> QED
  BY <1>5, <1>6, <1>7

LEMMA CommitReaches ==
  ASSUME Ground, NEW w \in Callers, NEW c \in Keys, Commits(w, c), NEW d \in Keys
  PROVE  /\ Elsewhere(d) => Elsewhere(d)'
         /\ Awaited(d) => Awaited(d)'
         /\ Owed(d) => Owed(d)'
         /\ Owed(c)'
<1>1. caller'[w].owes /\ caller'[w].chan = c /\ \A v \in Callers : v # w => caller'[v] = caller[v]
  BY DEF Commits, Ground, UseInv, CallerInv
<1>2. Owed(c)' /\ (Owed(d) => Owed(d)')
  BY <1>1 DEF Owed, Commits, Owes
<1>3. UNCHANGED <<closed, tasks, run, cursor>>
  BY DEF Commits, wbVars
<1> QED
  BY <1>2, <1>3 DEF Elsewhere, Awaited, Pending, AllAhead

\* Only the begin of a page moves the reconciliation, and only the end of a
\* successful run removes a task.
LEMMA WorkerReaches ==
  ASSUME Ground, WorkerOrClock, ~StartPage, NEW d \in Keys
  PROVE  /\ Elsewhere(d) => Elsewhere(d)'
         /\ ~FinishRun => (Awaited(d) => Awaited(d)')
<1>1. /\ UNCHANGED caller /\ run'.gen = run.gen
      /\ closed => closed'
      /\ SameTask(d) \/ TaskDone(d)
  BY WorkerKeeps
<1>2. Owed(d)' = Owed(d)
  BY <1>1 DEF Owed
<1>3. ASSUME AllAhead
      PROVE  closed \/ AllAhead'
  <2> USE DEF AllAhead, dataVars
  <2>0. run \in Run /\ cursor \in Cursor /\ Pending(FullSync) /\ FullSync \in TaskKeys
    BY <1>3, GroundFacts
  <2>1. ASSUME UNCHANGED <<tasks, cursor>>
        PROVE  AllAhead'
    BY <1>3, <2>1 DEF Pending
  <2>2. CASE (WorkerStep /\ ~NextPage /\ ~PageProcessed /\ ~FinishRun) \/ StatementFails
    BY <2>1, <2>2 DEF WorkerStep, StatementFails, LoadConfig, LoadConfigMissing, LoadChildren, WriteReplica,
                DropReplica, ListPage, NextItem, CheckRow,
                Advances, ItemDone, Errs, wbVars, EndRun, FailPage
  <2>3. CASE NextPage
    <3>1. UNCHANGED cursor /\ (UNCHANGED tasks \/ tasks'[FullSync] = NewTask("sync"))
      BY <2>0, <2>3 DEF NextPage, ContinueReconcile, ReplaceReconcile
    <3>2. Pending(FullSync)'
      BY <2>0, <3>1, GroundFacts DEF Pending, NewTask
    <3> QED
      BY <1>3, <3>1, <3>2
  <2>4. CASE PageProcessed
    <3>1. cursor.started /\ cursor.restart
      BY <1>3, <2>4 DEF PageProcessed, AdvancePage, Ground, UseInv, PageInv
    <3>2. cursor'.active /\ (cursor'.restart \/ ~cursor'.started)
      BY <1>3, <2>0, <2>4, <3>1 DEF PageProcessed, AdvancePage, Advanced, FreshCursor, Cursor
    <3>3. UNCHANGED tasks
      BY <2>4 DEF PageProcessed, AdvancePage
    <3> QED
      BY <2>0, <3>2, <3>3 DEF Pending
  <2>5. CASE FinishRun
    <3>1. UNCHANGED cursor
      BY <2>5 DEF FinishRun, Finish
    <3>2. CASE FinishStale
      BY <2>1, <3>1, <3>2 DEF FinishStale
    <3>3. CASE FinishOk
      <4>1. run.key = FullSync => closed
        BY <1>3, <3>3 DEF FinishOk, Ground, CursorInv, LastPageRests
      <4>2. run.key # FullSync => tasks'[FullSync] = tasks[FullSync]
        BY <2>0, <3>3, GroundFacts DEF FinishOk
      <4> QED
        BY <1>3, <3>1, <4>1, <4>2 DEF Pending
    <3>4. CASE FinishDropped
      BY <3>4, KeyKinds DEF FinishDropped, Ground, StepInv
    <3>5. CASE FinishRetry
      <4>1. SameTask(FullSync)
        BY <2>0, <3>5, DueIsSame DEF FinishRetry, Run
      <4> QED
        BY <1>3, <3>1, <4>1 DEF Pending, SameTask
    <3> QED
      BY <2>5, <3>2, <3>3, <3>4, <3>5 DEF FinishRun, Finish
  <2>6. ASSUME NEW k \in RegularKeys, Oversleep(k) \/ Retry(k)
        PROVE  AllAhead'
    <3>1. UNCHANGED cursor /\ SameTask(FullSync)
      BY <2>0, <2>6, DueIsSame, KeyKinds DEF Oversleep, Retry, RetryDue
    <3> QED
      BY <1>3, <3>1 DEF Pending, SameTask
  <2>7. CASE Park \/ SleepUntilRetry \/ Wake \/ LoopExit \/ CloseQueue \/ CancelCtx \/ UNCHANGED vars
    BY <2>1, <2>7 DEF Park, SleepUntilRetry, Wake, PrimaryReady, WakeUp, LoopExit, Exit,
                CloseQueue, Close, CancelCtx, Cancel, vars, wbVars
  <2> QED
    BY <2>2, <2>3, <2>4, <2>5, <2>6, <2>7 DEF WorkerOrClock, Sleep, WorkerStep
<1>4. TaskDone(d) => tasks[d].gen = run.gen /\ FinishRun
  BY DEF TaskDone
<1> QED
  BY <1>1, <1>2, <1>3, <1>4 DEF Elsewhere, Awaited, SameTask, Pending

-----------------------------------------------------------------------------
(* What the worker has read, and what it has done *)

LEMMA ReadKept ==
  ASSUME Ground, DeadInv, ReadInv, [Next]_vars
  PROVE  ReadInv'
<1> USE DEF copyVars, Goto
<1>0. StepInv /\ RowsInv /\ run \in Run
  BY GroundFacts DEF Ground
<1>1. ASSUME step' \notin {"children", "write", "drop"}
      PROVE  ReadInv'
  BY <1>1 DEF ReadInv
<1>2. ASSUME step \in {"children", "write", "drop"}, UNCHANGED <<step, chan, buf, sqlite>>,
             \A d \in Keys : (Elsewhere(d) => Elsewhere(d)') /\ (Awaited(d) => Awaited(d)')
      PROVE  ReadInv'
  <2>1. chan \in Keys
    BY <1>0, <1>2 DEF StepInv, Copying
  <2>2. /\ step' = "children" => (sqlite'[chan'] # NoRow /\ buf'.name = sqlite'[chan'].name) \/ Elsewhere(chan)'
        /\ step' = "write" => buf' = sqlite'[chan'] \/ Elsewhere(chan)'
        /\ step' = "drop" => sqlite'[chan'] = NoRow \/ Elsewhere(chan)'
    BY <1>2, <2>1 DEF ReadInv
  <2>3. ASSUME step' \in {"children", "write"}, NEW d \in Keys, d # chan', sqlite'[d] # NoRow, sqlite'[d].name = buf'.name
        PROVE  Awaited(d)'
    BY <1>2, <2>3 DEF ReadInv, Awaited
  <2> QED
    BY <2>2, <2>3 DEF ReadInv, Awaited
<1>3. ASSUME NEW w \in Callers, CallerNext(w)
      PROVE  ReadInv'
  <2>1. UNCHANGED <<run, copyVars, fails>>
    BY <1>3, CallerKeepsRun
  <2>2. CASE step \in {"children", "write", "drop"}
    <3>1. Running
      BY <1>0, <2>2 DEF StepInv, Running
    <3>2. CASE MarkDirty(w)
      BY <1>2, <2>1, <2>2, <3>1, <3>2, MarkReaches DEF MarkDirty
    <3>3. CASE ~MarkDirty(w)
      <4>1. PICK c \in Keys : Commits(w, c)
        BY <1>3, <3>3, CallerCommits
      <4>2. \A d \in Keys : (Elsewhere(d) => Elsewhere(d)') /\ (Awaited(d) => Awaited(d)')
        BY <4>1, CommitReaches
      <4>3. Elsewhere(c)' /\ Awaited(c)'
        BY <4>1, CommitReaches DEF Elsewhere, Awaited
      <4>4. \A d \in Keys : d # c => sqlite'[d] = sqlite[d]
        BY <4>1 DEF Commits
      <4>5. chan \in Keys
        BY <1>0, <2>2 DEF StepInv, Copying
      <4>6. /\ step' = "children" => (sqlite'[chan'] # NoRow /\ buf'.name = sqlite'[chan'].name) \/ Elsewhere(chan)'
            /\ step' = "write" => buf' = sqlite'[chan'] \/ Elsewhere(chan)'
            /\ step' = "drop" => sqlite'[chan'] = NoRow \/ Elsewhere(chan)'
        <5>1. CASE chan = c
          BY <2>1, <4>3, <5>1 DEF Elsewhere, Owed, Pending, AllAhead
        <5>2. CASE chan # c
          BY <2>1, <4>2, <4>4, <4>5, <5>2 DEF ReadInv
        <5> QED
          BY <5>1, <5>2
      <4>7. ASSUME step' \in {"children", "write"}, NEW d \in Keys, d # chan', sqlite'[d] # NoRow, sqlite'[d].name = buf'.name
            PROVE  Awaited(d)'
        <5>1. CASE d = c
          BY <4>3, <5>1 DEF Awaited, Owed, Pending, AllAhead
        <5>2. CASE d # c
          BY <2>1, <4>2, <4>4, <4>7, <5>2 DEF ReadInv, Awaited
        <5> QED
          BY <5>1, <5>2
      <4> QED
        BY <2>1, <4>6, <4>7 DEF ReadInv, Awaited
    <3> QED
      BY <3>2, <3>3
  <2> QED
    BY <1>1, <2>1, <2>2
<1>4. ASSUME NEW k \in RegularKeys, StartRun(k)
      PROVE  ReadInv'
  <2>1. CASE step' = "drop"
    <3>1. k \in Keys /\ chan' = k /\ sqlite' = sqlite /\ Pending(k) /\ tasks[k].want = "delete"
      BY <1>4, <2>1 DEF StartRun, dataVars, RegularKeys, TakeTask
    <3>2. sqlite'[k] = NoRow
      BY <3>1 DEF DeadInv, Dead
    <3> QED
      BY <2>1, <3>1, <3>2 DEF ReadInv
  <2> QED
    BY <1>1, <1>4, <2>1 DEF StartRun
<1>5. CASE LoadConfig
  <2>1. buf'.name = sqlite[chan].name /\ sqlite[chan] # NoRow /\ UNCHANGED <<sqlite, chan>> /\ step' = "children"
    BY <1>5 DEF LoadConfig, Advances
  <2>2. chan \in Keys
    BY <1>0, <1>5 DEF LoadConfig, StepInv, Copying
  <2>3. \A d \in Keys : d # chan /\ sqlite[d] # NoRow => sqlite[d].name # buf'.name
    BY <1>0, <2>1, <2>2 DEF RowsInv
  <2> QED
    BY <2>1, <2>3 DEF ReadInv
<1>6. CASE LoadChildren
  <2>1. /\ buf' = [buf EXCEPT !.content = IF sqlite[chan] = NoRow THEN Bare ELSE sqlite[chan].content]
        /\ UNCHANGED <<sqlite, chan, wbVars, caller>> /\ step = "children" /\ step' = "write"
    BY <1>6 DEF LoadChildren, Advances
  <2>2. chan \in Keys /\ buf \in Row /\ sqlite[chan] \in Row \cup {NoRow}
    BY <1>0, <2>1 DEF StepInv, Copying, RowsInv
  <2>3. buf'.name = buf.name
    BY <2>1, <2>2 DEF Row
  <2>4. sqlite[chan] # NoRow /\ buf.name = sqlite[chan].name => buf' = sqlite[chan]
    BY <2>1, <2>2 DEF Row
  <2>5. \A d : Elsewhere(d)' = Elsewhere(d) /\ Awaited(d)' = Awaited(d)
    BY <2>1 DEF Elsewhere, Awaited, Owed, Pending, AllAhead, wbVars
  <2>6. buf' = sqlite'[chan'] \/ Elsewhere(chan)'
    BY <2>1, <2>4, <2>5 DEF ReadInv
  <2>7. ASSUME NEW d \in Keys, d # chan', sqlite'[d] # NoRow, sqlite'[d].name = buf'.name
        PROVE  Awaited(d)'
    BY <2>1, <2>3, <2>5, <2>7 DEF ReadInv, Awaited
  <2> QED
    BY <2>1, <2>6, <2>7 DEF ReadInv, Awaited
<1>7. CASE CheckRow
  BY <1>1, <1>7 DEF CheckRow, Advances, ReadInv
<1>8. CASE LoadConfigMissing \/ WriteReplica \/ DropReplica \/ StartPage \/ ListPage \/ NextItem
           \/ PageProcessed \/ NextPage \/ StatementFails
  BY <1>1, <1>8 DEF LoadConfigMissing, Errs, WriteReplica, DropReplica, ItemDone, Advances, StartPage,
                ListPage, NextItem, PageProcessed, NextPage, StatementFails
<1>9. ASSUME WorkerOrClock, ~StartPage, ~FinishRun, UNCHANGED <<copyVars, sqlite>>
      PROVE  ReadInv'
  BY <1>1, <1>2, <1>9, WorkerReaches
<1>10. ASSUME NEW k \in RegularKeys, Retry(k)
       PROVE  ReadInv'
  <2>1. UNCHANGED <<run, copyVars, sqlite>> /\ WorkerOrClock
    BY <1>10 DEF Retry, RetryDue, WorkerOrClock, dataVars
  <2> QED
    BY <1>0, <1>9, <2>1 DEF StartPage, BeginPage, FinishRun, Finish, Run
<1>11. CASE CloseQueue \/ CancelCtx \/ UNCHANGED vars
  <2>1. UNCHANGED <<run, copyVars, sqlite>> /\ WorkerOrClock
    BY <1>11 DEF CloseQueue, Close, CancelCtx, Cancel, vars, wbVars, WorkerOrClock, dataVars
  <2> QED
    BY <1>0, <1>9, <2>1 DEF StartPage, BeginPage, FinishRun, Finish, Run
<1>12. CASE Sleep \/ Wake \/ LoopExit \/ FinishRun
  <2>1. run.stage \notin {"running", "paging", "paged"} /\ UNCHANGED copyVars
    BY <1>12 DEF Sleep, Park, SleepUntilRetry, Oversleep, Wake, PrimaryReady, WakeUp, LoopExit, Exit, FinishRun, Finish
  <2> QED
    BY <1>0, <1>1, <2>1 DEF StepInv
<1> QED
  BY <1>3, <1>4, <1>5, <1>6, <1>7, <1>8, <1>10, <1>11, <1>12 DEF Next, WorkerStep

LEMMA DoneKept ==
  ASSUME Ground, ReadInv, DoneInv, [Next]_vars
  PROVE  DoneInv'
<1> USE DEF Goto
<1>0. StepInv /\ RowsInv /\ run \in Run /\ PagesAreFullSync /\ FullSync \notin Keys
  BY GroundFacts DEF Ground, UseInv, BaseInv
<1>1. ASSUME run'.stage # "ok" \/ run'.key \notin Keys
      PROVE  DoneInv'
  BY <1>1 DEF DoneInv
<1>2. ASSUME UNCHANGED <<run, primary, sqlite>>,
             \A d \in Keys : Elsewhere(d) => Elsewhere(d)'
      PROVE  DoneInv'
  <2>1. run'.stage = "ok" /\ run'.key \in Keys => primary'[run'.key] = sqlite'[run'.key] \/ Elsewhere(run.key)'
    BY <1>2 DEF DoneInv
  <2>2. run' = run
    BY <1>2
  <2> QED
    BY <2>1, <2>2 DEF DoneInv, Elsewhere, Owed, Pending, AllAhead
<1>3. ASSUME NEW w \in Callers, CallerNext(w)
      PROVE  DoneInv'
  <2>1. UNCHANGED run
    BY <1>3, CallerKeepsRun
  <2>2. CASE run.stage = "ok"
    <3>1. Running
      BY <2>2 DEF Running
    <3>2. CASE MarkDirty(w)
      BY <1>2, <2>1, <3>1, <3>2, MarkReaches DEF MarkDirty
    <3>3. CASE ~MarkDirty(w)
      <4>1. PICK c \in Keys : Commits(w, c)
        BY <1>3, <3>3, CallerCommits
      <4>2. \A d \in Keys : Elsewhere(d) => Elsewhere(d)'
        BY <4>1, CommitReaches
      <4>3. Elsewhere(c)'
        BY <4>1, CommitReaches DEF Elsewhere
      <4>4. primary' = primary /\ \A d \in Keys : d # c => sqlite'[d] = sqlite[d]
        BY <4>1 DEF Commits
      <4>5. ASSUME run.key \in Keys
            PROVE  primary'[run.key] = sqlite'[run.key] \/ Elsewhere(run.key)'
        <5>1. CASE run.key = c
          BY <2>1, <4>3, <5>1 DEF Elsewhere, Owed, Pending, AllAhead
        <5>2. CASE run.key # c
          BY <2>1, <2>2, <4>2, <4>4, <4>5, <5>2 DEF DoneInv
        <5> QED
          BY <5>1, <5>2
      <4> QED
        BY <2>1, <4>5 DEF DoneInv, Elsewhere, Owed, Pending, AllAhead
    <3> QED
      BY <3>2, <3>3
  <2> QED
    BY <1>1, <2>1, <2>2
<1>4. ASSUME WriteReplica \/ DropReplica
      PROVE  DoneInv'
  <2>0. CASE run.key = FullSync
    BY <1>0, <1>1, <1>4, <2>0 DEF WriteReplica, DropReplica, ItemDone, Advances, wbVars
  <2>1. CASE run.key # FullSync
    <3>1. EndRun("ok") /\ UNCHANGED <<sqlite, caller>>
      BY <1>4, <2>1 DEF WriteReplica, DropReplica, ItemDone
    <3>2. run.stage = "running" /\ chan = run.key /\ chan \in Keys /\ run'.key = run.key /\ run'.gen = run.gen
      BY <1>0, <1>4, <2>1, <3>1 DEF StepInv, EndRun, Run, WriteReplica, DropReplica, Copying
    <3>3. primary'[chan] = sqlite[chan] \/ Elsewhere(chan)
      BY <1>0, <1>4, <3>2 DEF ReadInv, WriteReplica, DropReplica, Written, RowsInv
    <3>4. UNCHANGED <<closed, tasks, cursor, caller, sqlite>>
      BY <3>1 DEF EndRun
    <3> QED
      BY <3>2, <3>3, <3>4 DEF DoneInv, Elsewhere, Owed, Pending, AllAhead
  <2> QED
    BY <2>0, <2>1
<1>5. ASSUME WorkerOrClock, ~StartPage, UNCHANGED <<primary, sqlite, run>>
      PROVE  DoneInv'
  BY <1>2, <1>5, WorkerReaches
<1>6. CASE LoadConfig \/ LoadChildren \/ ListPage \/ NextItem \/ CheckRow
  BY <1>0, <1>1, <1>6 DEF StepInv, Copying, LoadConfig, LoadChildren, ListPage, NextItem, CheckRow, Advances, wbVars
<1>7. CASE PageProcessed \/ NextPage
  BY <1>0, <1>1, <1>7 DEF PageProcessed, AdvancePage, NextPage, ContinueReconcile, PagesAreFullSync, Run
<1>8. CASE LoadConfigMissing \/ StatementFails \/ StartPage \/ FinishRun \/ Sleep \/ Wake \/ LoopExit
  BY <1>0, <1>1, <1>8 DEF LoadConfigMissing, Errs, StatementFails, FailPage, EndRun, StartPage, BeginPage,
       FinishRun, Finish, Sleep, Park, SleepUntilRetry, Oversleep, Wake, PrimaryReady, WakeUp, LoopExit, Exit, Run
<1>9. ASSUME NEW k \in RegularKeys, StartRun(k)
      PROVE  DoneInv'
  BY <1>1, <1>9 DEF StartRun, TakeTask
<1>10. ASSUME NEW k \in RegularKeys, Retry(k)
       PROVE  DoneInv'
  <2>1. UNCHANGED <<run, primary, sqlite>> /\ WorkerOrClock
    BY <1>10 DEF Retry, RetryDue, WorkerOrClock, dataVars
  <2> QED
    BY <1>0, <1>5, <2>1 DEF StartPage, BeginPage, Run
<1>11. CASE CloseQueue \/ CancelCtx \/ UNCHANGED vars
  <2>1. UNCHANGED <<run, primary, sqlite>> /\ WorkerOrClock
    BY <1>11 DEF CloseQueue, Close, CancelCtx, Cancel, vars, wbVars, WorkerOrClock, dataVars
  <2> QED
    BY <1>0, <1>5, <2>1 DEF StartPage, BeginPage, Run
<1> QED
  BY <1>3, <1>4, <1>6, <1>7, <1>8, <1>9, <1>10, <1>11 DEF Next, WorkerStep

-----------------------------------------------------------------------------
(* Responsibility for a channel is not given up before its row is up to date *)

UpToDate(d) == primary[d] = sqlite[d]

\* ElsewhereCovers, of the next state.
LEMMA ElsewhereCoversNext ==
  ASSUME Ground', NEW c \in Keys, Elsewhere(c)'
  PROVE  Covered(c)'
<1>1. c \in Nat /\ c > 0
  BY KeysAssumption, RowAssumption
<1>2. ASSUME AllAhead'
      PROVE  ReconcileCovers(c)'
  <2>1. cursor'.restart => ReconcileCovers(c)'
    BY <1>2 DEF AllAhead, ReconcileCovers
  <2>2. ASSUME ~cursor'.restart
        PROVE  ReconcileCovers(c)'
    <3>1. cursor'.active /\ ~cursor'.started
      BY <1>2, <2>2 DEF AllAhead
    <3>2. cursor'.phase = LocalChannels /\ cursor'.after = 0
      BY <3>1 DEF Ground, AheadInv, LocalChannels
    <3>3. run'.stage # "paging"
      BY <3>1 DEF Ground, UseInv, PageInv
    <3>4. Ahead(c)'
      BY <1>1, <3>2, <3>3 DEF Ahead
    <3> QED
      BY <1>2, <3>4 DEF AllAhead, ReconcileCovers
  <2> QED
    BY <2>1, <2>2
<1> QED
  BY <1>2 DEF Elsewhere, Covered

\* The cursor passes a channel only when its row has been copied.
LEMMA ReconcileStays ==
  ASSUME Ground, Ground', ReadInv, [Next]_vars, ~\E w \in Callers : CallerNext(w),
         NEW d \in Keys, ReconcileCovers(d)
  PROVE  ReconcileCovers(d)' \/ Covered(d)' \/ UpToDate(d)'
<1> USE DEF copyVars, Goto, dataVars, LocalChannels, PrimaryChannels
<1>a. /\ StepInv /\ RowsInv /\ PageInv /\ AheadInv
      /\ run \in Run /\ cursor \in Cursor /\ tasks \in [TaskKeys -> Task]
  BY GroundFacts DEF Ground, UseInv
<1>b. /\ FullSync \in TaskKeys /\ Keys \subseteq Nat /\ d \in Nat /\ d > 0
      /\ cursor.after \in Nat /\ cursor.phase \in Nat
  BY GroundFacts, KeysAssumption
<1>c. pageEnd.last \in Nat /\ pageEnd.done \in BOOLEAN
  <2>1. pageEnd.last \in PageEnds /\ pageEnd.done \in BOOLEAN
    BY <1>a DEF PageInv
  <2>2. PageEnds \subseteq Nat
    BY KeysAssumption DEF PageEnds
  <2>3. pageEnd.last \in Nat
    BY <2>1, <2>2
  <2> QED
    BY <2>1, <2>3
<1>d. Pending(FullSync) /\ cursor.active /\ (cursor.restart \/ Ahead(d))
  BY DEF ReconcileCovers
<1>0. /\ StepInv /\ RowsInv /\ PageInv /\ AheadInv
      /\ run \in Run /\ cursor \in Cursor /\ tasks \in [TaskKeys -> Task]
      /\ FullSync \in TaskKeys /\ Keys \subseteq Nat /\ d \in Nat /\ d > 0
      /\ cursor.after \in Nat /\ cursor.phase \in Nat
      /\ pageEnd.last \in Nat /\ pageEnd.done \in BOOLEAN
      /\ Pending(FullSync) /\ cursor.active /\ (cursor.restart \/ Ahead(d))
  BY <1>a, <1>b, <1>c, <1>d
<1>1. ASSUME UNCHANGED <<sqlite, cursor, tasks>>, cursor.restart \/ Ahead(d)'
      PROVE  ReconcileCovers(d)'
  BY <1>0, <1>1 DEF ReconcileCovers, Pending
<1>2. ASSUME UNCHANGED <<sqlite, cursor>>, Pending(FullSync)', run.stage # "paging", run'.stage # "paging"
      PROVE  ReconcileCovers(d)'
  BY <1>0, <1>2 DEF ReconcileCovers, Ahead
<1>3. CASE LoadConfig \/ LoadChildren
  <2>1. UNCHANGED <<wbVars, sqlite, chan, page, pageEnd>> /\ {step, step'} \cap {"item", "list"} = {}
    BY <1>3 DEF LoadConfig, LoadChildren, Advances
  <2>2. Ahead(d)' = Ahead(d)
    BY <2>1 DEF Ahead, wbVars
  <2> QED
    BY <1>0, <1>1, <2>1, <2>2 DEF wbVars
<1>4. CASE CheckRow
  <2>1. UNCHANGED <<wbVars, sqlite, chan, page, pageEnd>> /\ step = "check"
    BY <1>4 DEF CheckRow, Advances
  <2>2. CASE sqlite[chan] = NoRow
    <3>1. step' = "drop"
      BY <1>4, <2>2 DEF CheckRow, Advances
    <3>2. Ahead(d)' = Ahead(d)
      BY <2>1, <3>1 DEF Ahead, wbVars
    <3> QED
      BY <1>0, <1>1, <2>1, <3>2 DEF wbVars
  <2>3. CASE sqlite[chan] # NoRow
    <3>1. run.stage = "paging" /\ cursor.phase # 0
      BY <1>0, <2>1 DEF StepInv, AheadInv, Copying
    <3>2. Ahead(d) => d # chan
      BY <2>3, <3>1 DEF Ahead
    <3>3. Ahead(d) => Ahead(d)'
      BY <1>4, <2>1, <2>3, <3>1, <3>2 DEF Ahead, wbVars, CheckRow, Advances
    <3> QED
      BY <1>0, <1>1, <2>1, <3>3 DEF wbVars
  <2> QED
    BY <2>2, <2>3
<1>5. CASE ListPage
  <2> PICK P \in SUBSET Keys, last \in PageEnds :
        /\ PageOf(P, last) /\ page' = P
        /\ pageEnd' = [last |-> last, done |-> IF Cardinality(P) < PageSize THEN TRUE ELSE FALSE]
    BY <1>5 DEF ListPage
  <2>1. UNCHANGED <<wbVars, primary, sqlite, chan>> /\ step = "list" /\ step' = "item"
    BY <1>5 DEF ListPage, Advances
  <2>2. run.stage = "paging" /\ cursor.phase = run.phase
    BY <1>0, <2>1 DEF StepInv, AheadInv, Copying
  <2>3. ASSUME NEW S \in SUBSET Keys, IsPage(P, After(S)), d \in S, d > cursor.after,
               P # {} => last \in P /\ \A j \in P : j <= last
        PROVE  d \in P \/ (d > last /\ ~pageEnd'.done)
    <3>1. d \in After(S)
      BY <2>3 DEF After
    <3>2. CASE Cardinality(P) < PageSize
      BY <2>3, <3>1, <3>2 DEF IsPage
    <3>3. CASE ~(Cardinality(P) < PageSize)
      <4>1. P # {}
        BY <3>3, FS_EmptySet, RowAssumption
      <4>2. last \in P /\ last \in Nat
        BY <1>0, <2>3, <4>1
      <4>3. d < last => d \in P
        BY <2>3, <3>1, <4>2 DEF IsPage
      <4> QED
        BY <1>0, <3>3, <4>2, <4>3
    <3> QED
      BY <3>2, <3>3
  <2>4. ASSUME Ahead(d)
        PROVE  Ahead(d)' \/ UpToDate(d)'
    <3>1. CASE cursor.phase = 0 /\ sqlite[d] = NoRow
      BY <2>1, <3>1 DEF Ahead, wbVars
    <3>2. CASE cursor.phase = 0 /\ sqlite[d] # NoRow
      <4>1. d > cursor.after /\ d \in Ids(sqlite)
        BY <2>1, <2>4, <3>2 DEF Ahead, Ids
      <4>2. IsPage(P, After(Ids(sqlite))) /\ (P # {} => last \in P /\ \A j \in P : j <= last)
        BY <2>2, <3>2 DEF PageOf
      <4>3. d \in P \/ (d > last /\ ~pageEnd'.done)
        BY <2>3, <4>1, <4>2 DEF Ids
      <4> QED
        BY <2>1, <2>2, <3>2, <4>3 DEF Ahead, wbVars
    <3>3. CASE cursor.phase # 0
      <4>1. cursor.phase = 1 /\ d > cursor.after /\ sqlite[d] = NoRow
        BY <2>1, <2>4, <3>3 DEF Ahead
      <4>2. CASE primary[d] = NoRow
        BY <2>1, <4>1, <4>2 DEF UpToDate
      <4>3. CASE primary[d] # NoRow
        <5>1. IsPage(P, After(Ids(primary))) /\ (P # {} => last \in P /\ \A j \in P : j <= last)
          BY <2>2, <4>1 DEF PageOf
        <5>2. d \in P \/ (d > last /\ ~pageEnd'.done)
          BY <2>3, <4>1, <4>3, <5>1 DEF Ids
        <5> QED
          BY <2>1, <2>2, <4>1, <5>2 DEF Ahead, wbVars
      <4> QED
        BY <4>2, <4>3
    <3> QED
      BY <3>1, <3>2, <3>3
  <2> QED
    BY <1>0, <1>1, <2>1, <2>4 DEF wbVars
<1>6. CASE NextItem
  <2>1. /\ UNCHANGED <<wbVars, sqlite, pageEnd>> /\ step = "item" /\ step' \in {"load", "check"}
        /\ page = page' \cup {chan'}
    BY <1>6 DEF NextItem, Advances
  <2>2. Ahead(d) => Ahead(d)'
    BY <2>1 DEF Ahead, wbVars
  <2> QED
    BY <1>0, <1>1, <2>1, <2>2 DEF wbVars
<1>7. CASE WriteReplica \/ DropReplica
  <2>0. UNCHANGED <<sqlite, caller, cursor, tasks, closed, chan, page, pageEnd>> /\ step \in {"write", "drop"}
    BY <1>7 DEF WriteReplica, DropReplica, ItemDone, Advances, EndRun, wbVars
  <2>1. CASE run.key # FullSync
    BY <1>0, <1>2, <1>7, <2>0, <2>1 DEF WriteReplica, DropReplica, ItemDone, EndRun, Run, Pending
  <2>2. CASE run.key = FullSync
    <3>1. UNCHANGED run /\ run.stage = "paging" /\ step' = "item"
      BY <1>0, <1>7, <2>2 DEF WriteReplica, DropReplica, ItemDone, Advances, wbVars, StepInv, Copying
    <3>2. CASE d # chan
      <4>1. Ahead(d) => Ahead(d)'
        BY <2>0, <3>1, <3>2 DEF Ahead
      <4> QED
        BY <1>0, <1>1, <2>0, <4>1
    <3>3. CASE d = chan
      <4>1. primary'[d] = sqlite[d] \/ Elsewhere(d)
        BY <1>0, <1>7, <3>3 DEF ReadInv, WriteReplica, DropReplica, Written, RowsInv
      <4>2. Elsewhere(d) => Elsewhere(d)'
        BY <2>0, <3>1 DEF Elsewhere, Owed, Pending, AllAhead
      <4> QED
        BY <2>0, <4>1, <4>2, ElsewhereCoversNext DEF UpToDate
    <3> QED
      BY <3>2, <3>3
  <2> QED
    BY <2>1, <2>2
<1>8. CASE StartPage
  <2>1. cursor' = [cursor EXCEPT !.started = TRUE] /\ step' = "list" /\ UNCHANGED <<sqlite, tasks>>
        /\ run.stage = "running"
    BY <1>0, <1>8 DEF StartPage, BeginPage
  <2>2. Ahead(d) => Ahead(d)'
    BY <1>0, <2>1 DEF Ahead, Cursor
  <2>3. cursor'.active = cursor.active /\ cursor'.restart = cursor.restart
    BY <1>0, <2>1 DEF Cursor
  <2> QED
    BY <1>0, <2>1, <2>2, <2>3 DEF ReconcileCovers, Pending
<1>9. CASE PageProcessed
  <2>1. /\ cursor' = Advanced(cursor, run.phase, pageEnd.last, pageEnd.done).cursor
        /\ UNCHANGED <<sqlite, tasks>> /\ run.stage = "paging" /\ run'.stage # "paging"
        /\ step = "item" /\ page = {} /\ cursor.phase = run.phase
    BY <1>0, <1>9 DEF PageProcessed, AdvancePage, AheadInv, Run
  <2> DEFINE next == IF pageEnd.done THEN [cursor EXCEPT !.phase = @ + 1, !.after = 0]
                                     ELSE [cursor EXCEPT !.after = pageEnd.last]
  <2>2. next \in Cursor /\ next.active = cursor.active /\ next.restart = cursor.restart
    <3>0. cursor.phase + 1 \in Nat /\ 0 \in Nat
      BY <1>0
    <3>1. CASE pageEnd.done
      <4>1. next = [cursor EXCEPT !.phase = cursor.phase + 1, !.after = 0]
        BY <3>1
      <4> QED
        BY <1>0, <3>0, <4>1 DEF Cursor
    <3>2. CASE ~pageEnd.done
      BY <1>0, <3>2 DEF Cursor
    <3> QED
      BY <3>1, <3>2
  <2>3. CASE next.phase < PhaseCount
    <3>1. cursor' = next
      BY <2>1, <2>3 DEF Advanced
    <3>2. Ahead(d) => Ahead(d)'
      <4>1. CASE cursor.phase = 0 /\ sqlite[d] = NoRow
        BY <1>0, <2>1, <3>1, <4>1 DEF Ahead, Cursor
      <4>2. CASE ~(cursor.phase = 0 /\ sqlite[d] = NoRow)
        <5>1. Ahead(d) => d > pageEnd.last /\ ~pageEnd.done
                          /\ (cursor.phase = 0 \/ (cursor.phase = 1 /\ sqlite[d] = NoRow))
          BY <2>1, <4>2 DEF Ahead
        <5>2. ~pageEnd.done => cursor'.phase = cursor.phase /\ cursor'.after = pageEnd.last
          BY <1>0, <3>1 DEF Cursor
        <5> QED
          BY <2>1, <5>1, <5>2 DEF Ahead
      <4> QED
        BY <4>1, <4>2
    <3> QED
      BY <1>0, <2>1, <2>2, <3>1, <3>2 DEF ReconcileCovers, Pending
  <2>4. CASE ~(next.phase < PhaseCount)
    <3>1. cursor' = FreshCursor(cursor.restart)
      BY <2>1, <2>2, <2>4 DEF Advanced
    <3>2. ~Ahead(d)
      <4>1. cursor.phase = 0 => next.phase < PhaseCount
        BY <1>0, GroundFacts DEF Cursor
      <4>2. ~pageEnd.done => next.phase = cursor.phase
        BY <1>0 DEF Cursor
      <4>3. cursor.phase = 1 => pageEnd.done
        BY <2>4, <4>2, GroundFacts
      <4> QED
        BY <2>1, <2>4, <4>1, <4>3 DEF Ahead
    <3>3. AllAhead'
      BY <1>0, <2>1, <3>1, <3>2 DEF AllAhead, FreshCursor, Pending
    <3> QED
      BY <3>3, ElsewhereCoversNext DEF Elsewhere
  <2> QED
    BY <2>3, <2>4
<1>10. CASE NextPage
  <2>1. run.stage # "paging" /\ run'.stage # "paging" /\ UNCHANGED <<cursor, sqlite>>
    BY <1>0, <1>10 DEF NextPage, ContinueReconcile, Run
  <2>2. UNCHANGED tasks \/ tasks'[FullSync] = NewTask("sync")
    BY <1>0, <1>10 DEF NextPage, ContinueReconcile, ReplaceReconcile
  <2>3. Pending(FullSync)'
    BY <1>0, <2>2, GroundFacts DEF Pending, NewTask
  <2> QED
    BY <1>2, <2>1, <2>3
<1>11. CASE FinishRun
  <2>1. run.stage # "paging" /\ run'.stage # "paging" /\ UNCHANGED <<cursor, sqlite, closed>>
    BY <1>0, <1>11 DEF FinishRun, Finish, Run
  <2>2. CASE FinishStale
    BY <1>0, <1>2, <2>1, <2>2 DEF FinishStale, Pending
  <2>3. CASE FinishOk
    <3>1. run.key = FullSync => closed
      BY <1>0, <2>3 DEF FinishOk, Ground, CursorInv, LastPageRests
    <3>2. run.key # FullSync => tasks'[FullSync] = tasks[FullSync]
      BY <1>0, <2>3, GroundFacts DEF FinishOk
    <3> QED
      BY <1>0, <1>2, <2>1, <3>1, <3>2 DEF Covered, Pending
  <2>4. CASE FinishDropped
    BY <2>4, KeyKinds DEF FinishDropped, Ground, StepInv
  <2>5. CASE FinishRetry
    <3>1. SameTask(FullSync)
      BY <1>0, <2>5, DueIsSame DEF FinishRetry, Run
    <3> QED
      BY <1>0, <1>2, <2>1, <3>1 DEF Pending, SameTask
  <2> QED
    BY <1>11, <2>2, <2>3, <2>4, <2>5 DEF FinishRun, Finish
<1>12. CASE LoadConfigMissing \/ StatementFails
  <2>0. UNCHANGED <<sqlite, tasks, cursor, chan, page, pageEnd>> /\ step' = "none"
    BY <1>12 DEF LoadConfigMissing, StatementFails, Errs, FailPage, EndRun
  <2>1. run'.stage # "paging"
    BY <1>0, <1>12 DEF LoadConfigMissing, StatementFails, Errs, FailPage, EndRun, Run
  <2>2. CASE run.stage # "paging"
    BY <1>0, <1>2, <2>0, <2>1, <2>2 DEF Pending
  <2>3. CASE run.stage = "paging"
    <3>1. step # "item"
      BY <1>12 DEF LoadConfigMissing, StatementFails
    <3>2. step # "list" => pageEnd.done \/ pageEnd.last > cursor.after
      BY <1>0, <2>3 DEF PageInv
    <3>3. Ahead(d) => Ahead(d)'
      BY <1>0, <2>0, <2>1, <2>3, <3>1, <3>2 DEF Ahead, AheadInv
    <3> QED
      BY <1>0, <1>1, <2>0, <3>3
  <2> QED
    BY <2>2, <2>3
<1>13. ASSUME NEW k \in RegularKeys, StartRun(k)
       PROVE  ReconcileCovers(d)'
  <2>1. UNCHANGED <<sqlite, cursor, tasks>> /\ run.stage = "idle" /\ run'.stage = "running"
    BY <1>13 DEF StartRun, TakeTask
  <2> QED
    BY <1>0, <1>2, <2>1 DEF Pending
<1>14. ASSUME NEW k \in RegularKeys, Retry(k)
       PROVE  ReconcileCovers(d)'
  <2>1. SameTask(FullSync) /\ UNCHANGED <<sqlite, cursor, run, step, page, chan, pageEnd>>
    BY <1>0, <1>14, DueIsSame, KeyKinds DEF Retry, RetryDue
  <2> QED
    BY <1>0, <2>1 DEF ReconcileCovers, Ahead, Pending, SameTask
<1>15. ASSUME NEW k \in RegularKeys, Oversleep(k), UNCHANGED dataVars
       PROVE  ReconcileCovers(d)'
  <2>1. SameTask(FullSync) /\ UNCHANGED <<sqlite, cursor>> /\ run.stage = "idle" /\ run'.stage # "paging"
    BY <1>0, <1>15, DueIsSame, KeyKinds DEF Oversleep, Run
  <2> QED
    BY <1>0, <1>2, <2>1 DEF Pending, SameTask
<1>16. ASSUME UNCHANGED dataVars, Park \/ SleepUntilRetry \/ PrimaryReady \/ WakeUp \/ Exit
       PROVE  ReconcileCovers(d)'
  <2>1. UNCHANGED <<sqlite, cursor, tasks>> /\ run.stage # "paging" /\ run'.stage # "paging"
    BY <1>0, <1>16 DEF Park, SleepUntilRetry, PrimaryReady, WakeUp, Exit, Run
  <2> QED
    BY <1>0, <1>2, <2>1 DEF Pending
<1>17. CASE CloseQueue \/ CancelCtx \/ UNCHANGED vars
  <2>1. UNCHANGED <<sqlite, cursor, run, tasks, step, page, chan, pageEnd>>
    BY <1>17 DEF CloseQueue, Close, CancelCtx, Cancel, vars, wbVars
  <2> QED
    BY <1>0, <2>1 DEF ReconcileCovers, Ahead, Pending
<1> QED
  BY <1>3, <1>4, <1>5, <1>6, <1>7, <1>8, <1>9, <1>10, <1>11, <1>12, <1>13, <1>14, <1>15, <1>16, <1>17
     DEF Next, WorkerStep, Sleep, Wake, LoopExit

LEMMA CoverKept ==
  ASSUME Ground, Ground', ReadInv, DoneInv, [Next]_vars, NEW d \in Keys, Covered(d)
  PROVE  Covered(d)' \/ UpToDate(d)'
<1>1. ASSUME NEW w \in Callers, MarkDirty(w)
      PROVE  Covered(d)'
  <2>1. PICK k \in Keys, want \in Wants :
          k = caller[w].chan /\ want = caller[w].want /\ Enqueue(k, want)
    BY <1>1 DEF MarkDirty, Ground, UseInv, CallerInv, CallerRecord
  <2>2. /\ closed' = closed
        /\ (closed /\ UNCHANGED <<tasks, cursor>>) \/ AllAhead' \/ KeyedMark(k, want)
    BY <2>1, MarkEffect
  <2>3. CASE closed \/ AllAhead'
    BY <2>2, <2>3, ElsewhereCoversNext DEF Elsewhere, Covered
  <2>4. CASE KeyedMark(k, want) /\ ~closed
    <3>1. tasks'[k].gen = nextGen + 1 /\ nextGen + 1 # 0
      BY <2>1, <2>4, GroundFacts DEF KeyedMark, NewTask
    <3>2. d # k => tasks'[d] = tasks[d]
      BY <2>1, <2>4, GroundFacts DEF KeyedMark
    <3>3. d # k /\ d \in inherited => d \in inherited'
      BY <1>1, <2>1, <2>4 DEF MarkDirty, KeyedMark
    <3>4. d # k /\ Owed(d) => Owed(d)'
      BY <1>1, <2>1 DEF MarkDirty, Owed
    <3>5. ~ReconcileCovers(d)
      BY <2>4 DEF KeyedMark, ReconcileCovers
    <3> QED
      BY <2>4, <3>1, <3>2, <3>3, <3>4, <3>5 DEF Covered, Pending
  <2> QED
    BY <2>2, <2>3, <2>4
<1>2. ASSUME NEW w \in Callers, NEW c \in Keys, Commits(w, c)
      PROVE  Covered(d)'
  <2>1. Owed(c)' /\ (Owed(d) => Owed(d)')
    BY <1>2, CommitReaches
  <2>2. UNCHANGED <<wbVars, inherited, copyVars>> /\ (d # c => sqlite'[d] = sqlite[d])
    BY <1>2 DEF Commits
  <2>3. d # c /\ ReconcileCovers(d) => ReconcileCovers(d)'
    BY <2>2 DEF ReconcileCovers, Ahead, Pending, wbVars, copyVars
  <2> QED
    BY <2>1, <2>2, <2>3 DEF Covered, Pending, wbVars
<1>3. ASSUME ~(\E w \in Callers : CallerNext(w)), ReconcileCovers(d)
      PROVE  Covered(d)' \/ UpToDate(d)'
  BY <1>3, ReconcileStays DEF Covered
<1>4. ASSUME NEW k \in RegularKeys, StartRun(k), ~ReconcileCovers(d)
      PROVE  Covered(d)'
  BY <1>4 DEF StartRun, TakeTask, dataVars, Covered, Pending, Owed
<1>5. ASSUME WorkerOrClock, ~ReconcileCovers(d)
      PROVE  Covered(d)' \/ UpToDate(d)'
  <2>1. /\ UNCHANGED <<sqlite, caller, inherited>> /\ (closed => closed')
        /\ SameTask(d) \/ TaskDone(d)
    BY <1>5, WorkerKeeps
  <2>2. closed \/ d \in inherited \/ Owed(d) \/ (Pending(d) /\ SameTask(d)) => Covered(d)'
    BY <2>1 DEF Covered, Owed, Pending, SameTask
  <2>3. CASE TaskDone(d)
    <3>1. primary[d] = sqlite[d] \/ Elsewhere(d)
      BY <2>3 DEF TaskDone, DoneInv
    <3>2. primary' = primary /\ ~StartPage
      BY <2>3 DEF TaskDone, FinishRun, dataVars, StartPage, BeginPage
    <3>3. Elsewhere(d) => Elsewhere(d)'
      BY <1>5, <3>2, WorkerReaches
    <3> QED
      BY <2>1, <3>1, <3>2, <3>3, ElsewhereCoversNext DEF UpToDate
  <2> QED
    BY <1>5, <2>1, <2>2, <2>3 DEF Covered
<1> QED
  BY <1>1, <1>2, <1>3, <1>4, <1>5, NextKinds, CallerCommits

\* The worker writes and deletes only rows of channels somebody answers for.
LEMMA RowsTouched ==
  ASSUME Ground, ReadInv, NothingForgotten, [Next]_vars,
         NEW d \in Keys, primary'[d] # primary[d]
  PROVE  Covered(d) /\ (RowWritten \/ RowDropped) /\ UNCHANGED sqlite
<1>0. RowsInv /\ StepInv
  BY DEF Ground
<1>1. RowWritten \/ RowDropped
  <2>1. ASSUME NEW w \in Callers, CallerNext(w)
        PROVE  FALSE
    <3>1. CASE MarkDirty(w)
      BY <3>1 DEF MarkDirty
    <3>2. CASE ~MarkDirty(w)
      BY <2>1, <3>2, CallerCommits DEF Commits
    <3> QED
      BY <3>1, <3>2
  <2>2. CASE WorkerStep \/ StatementFails
    BY <2>2 DEF WorkerStep, StatementFails, LoadConfig, LoadConfigMissing, LoadChildren, WriteReplica,
                DropReplica, StartPage, ListPage, NextItem, CheckRow, PageProcessed, NextPage,
                FinishRun, Errs, dataVars, RowWritten, RowDropped
  <2>3. ~UNCHANGED dataVars
    BY DEF dataVars
  <2> QED
    BY <2>1, <2>2, <2>3 DEF Next, StartRun, Retry, Sleep, Wake, LoopExit, CloseQueue, CancelCtx, vars
<1>2. UNCHANGED sqlite
  <2>1. WorkerStep \/ StatementFails
    <3>1. step \in {"write", "drop"}
      BY <1>1 DEF RowWritten, RowDropped
    <3>2. ~UNCHANGED dataVars
      BY DEF dataVars
    <3>3. ASSUME NEW w \in Callers, CallerNext(w)
          PROVE  FALSE
      BY <3>3, CallerCommits DEF Commits, MarkDirty
    <3> QED
      BY <3>2, <3>3 DEF Next, StartRun, Retry, Sleep, Wake, LoopExit, CloseQueue, CancelCtx, vars
  <2> QED
    BY <2>1, WorkerKeeps DEF WorkerOrClock
<1>3. chan \in Keys
  BY <1>0, <1>1 DEF RowWritten, RowDropped, StepInv, Copying
<1>4. CASE d = chan
  <2>1. primary'[d] = sqlite[d] \/ Elsewhere(d)
    BY <1>0, <1>1, <1>3, <1>4 DEF RowWritten, RowDropped, Written, ReadInv, RowsInv
  <2>2. primary'[d] = sqlite[d] => Covered(d)
    BY DEF NothingForgotten
  <2> QED
    BY <1>1, <1>2, <2>1, <2>2, ElsewhereCovers
<1>5. CASE d # chan
  <2>1. step = "write" /\ primary[d] # NoRow /\ primary[d].name = buf.name
    BY <1>0, <1>1, <1>5 DEF RowWritten, RowDropped, Written, RowsInv
  <2>2. CASE sqlite[d] # NoRow /\ sqlite[d].name = buf.name
    <3>1. closed \/ Owed(d) \/ Pending(d) \/ AllAhead
      BY <1>5, <2>1, <2>2 DEF ReadInv
    <3> QED
      BY <1>1, <1>2, <3>1, AllAheadCovers DEF Covered
  <2>3. CASE ~(sqlite[d] # NoRow /\ sqlite[d].name = buf.name)
    BY <1>1, <1>2, <2>1, <2>3 DEF NothingForgotten
  <2> QED
    BY <2>2, <2>3
<1> QED
  BY <1>4, <1>5

LEMMA NothingForgottenKept ==
  ASSUME Ground, Ground', ReadInv, DoneInv, NothingForgotten, [Next]_vars
  PROVE  NothingForgotten'
<1> SUFFICES ASSUME NEW d \in Keys
             PROVE  UpToDate(d)' \/ Covered(d)'
  BY DEF NothingForgotten, UpToDate
<1>1. CASE Covered(d)
  BY <1>1, CoverKept
<1>2. CASE ~Covered(d)
  <2>1. primary[d] = sqlite[d] /\ primary'[d] = primary[d]
    BY <1>2, RowsTouched DEF NothingForgotten
  <2>2. ASSUME NEW w \in Callers, NEW c \in Keys, Commits(w, c)
        PROVE  UpToDate(d)' \/ Covered(d)'
    <3>1. d # c => sqlite'[d] = sqlite[d]
      BY <2>2 DEF Commits
    <3>2. Owed(c)'
      BY <2>2, CommitReaches
    <3> QED
      BY <2>1, <3>1, <3>2 DEF UpToDate, Covered
  <2>3. ASSUME UNCHANGED sqlite
        PROVE  UpToDate(d)'
    BY <2>1, <2>3 DEF UpToDate
  <2>4. ASSUME NEW w \in Callers, CallerNext(w)
        PROVE  UNCHANGED sqlite \/ \E c \in Keys : Commits(w, c)
    BY <2>4, CallerCommits DEF MarkDirty
  <2>5. ASSUME NEW k \in RegularKeys, StartRun(k)
        PROVE  UNCHANGED sqlite
    BY <2>5 DEF StartRun, dataVars
  <2> QED
    BY <2>2, <2>3, <2>4, <2>5, NextKinds, WorkerKeeps
<1> QED
  BY <1>1, <1>2

-----------------------------------------------------------------------------
(* The invariant, and what follows *)

LEMMA ReplicaInit ==
  ASSUME Init
  PROVE  ReplicaInv
<1>1. /\ run = [stage |-> "preparing", key |-> FullSync, gen |-> 0, want |-> "sync", phase |-> 0]
      /\ cursor = FreshCursor(FALSE) /\ tasks = [k \in TaskKeys |-> NoTask]
      /\ caller = [w \in Callers |-> NoMark] /\ step = "none" /\ chan = 0 /\ buf = NoRow
      /\ page = {} /\ inherited = {c \in Keys : primary[c] # sqlite[c]}
  BY DEF Init, wbInit
<1>2. UseInv /\ GenInv /\ CursorInv
  BY UseInit, QueueInit DEF Init, QueueInv
<1>3. RowsInv
  <2>1. \A c \in Ids(sqlite) : NameFree(sqlite[c].name, c)
    BY DEF Init
  <2> QED
    BY <1>1, <2>1 DEF Init, RowsInv, Ids, NameFree
<1>4. StepInv
  BY <1>1 DEF StepInv, Steps, RegularKeys, Copying
<1>5. AheadInv
  BY <1>1 DEF AheadInv, FreshCursor
<1>6. \A c \in Keys : ~Pending(c)
  BY <1>1 DEF Pending, NoTask, TaskKeys, RegularKeys
<1>7. DeadInv
  BY <1>1, <1>6 DEF DeadInv, Owes, NoMark
<1>8. ReadInv /\ DoneInv
  BY <1>1 DEF ReadInv, DoneInv
<1>9. NothingForgotten
  BY <1>1 DEF NothingForgotten, Covered
<1> QED
  BY <1>2, <1>3, <1>4, <1>5, <1>7, <1>8, <1>9 DEF ReplicaInv, Ground

LEMMA ReplicaKept ==
  ASSUME ReplicaInv, [Next]_vars
  PROVE  ReplicaInv'
<1>1. Ground'
  BY GroundKept DEF ReplicaInv
<1>2. DeadInv' /\ ReadInv' /\ DoneInv'
  BY DeadKept, ReadKept, DoneKept DEF ReplicaInv
<1>3. NothingForgotten'
  BY <1>1, NothingForgottenKept DEF ReplicaInv
<1> QED
  BY <1>1, <1>2, <1>3 DEF ReplicaInv

\* Whatever the callers commit and mark, whatever fails, and however the marks
\* are coalesced, absorbed or replaced by a reconciliation: as long as the
\* primary's row of a channel differs from SQLite's, somebody will copy it.
THEOREM NothingIsForgotten == Spec => []NothingForgotten
<1>1. ReplicaInv => NothingForgotten
  BY DEF ReplicaInv
<1> QED
  BY <1>1, ReplicaInit, ReplicaKept, PTL DEF Spec

\* No delete - committed, queued or running - is about a channel that exists,
\* since an id is never given away twice.
THEOREM DeletesStayFinal == Spec => []DeletesAreFinal
<1>1. ReplicaInv => DeletesAreFinal
  BY DEF ReplicaInv, DeadInv, Dead, DeletesAreFinal
<1> QED
  BY <1>1, ReplicaInit, ReplicaKept, PTL DEF Spec

-----------------------------------------------------------------------------
(* The hybrid store implements the contract of its two databases *)

Stale == {c \in Keys : Covered(c)}

LEMMA PromiseStep ==
  ASSUME ReplicaInv, ReplicaInv', [Next]_vars
  PROVE  [Promise!ContractNext]_<<sqlite, primary, Stale>>
<1> USE DEF Stale
<1>0. RowsInv /\ RowsInv'
  BY DEF ReplicaInv, Ground
<1>1. ASSUME NEW w \in Callers, NEW c \in Keys, Commits(w, c)
      PROVE  Promise!Commit(c)
  <2>1. Stale \cup {c} \subseteq Stale'
    <3>1. ASSUME NEW d \in Keys, Covered(d), d # c
          PROVE  Covered(d)'
      <4>1. Owed(d) => Owed(d)'
        BY <1>1, <3>1, CommitReaches DEF ReplicaInv
      <4>2. UNCHANGED <<wbVars, inherited, copyVars>> /\ sqlite'[d] = sqlite[d]
        BY <1>1, <3>1 DEF Commits
      <4>3. ReconcileCovers(d) => ReconcileCovers(d)'
        BY <4>2 DEF ReconcileCovers, Ahead, Pending, wbVars, copyVars
      <4> QED
        BY <3>1, <4>1, <4>2, <4>3 DEF Covered, Pending, wbVars
    <3>2. Covered(c)'
      BY <1>1, CommitReaches DEF ReplicaInv, Covered
    <3> QED
      BY <3>1, <3>2
  <2>2. primary' = primary /\ \E row \in Row \cup {NoRow} : sqlite' = [sqlite EXCEPT ![c] = row]
    BY <1>1 DEF Commits
  <2> QED
    BY <2>1, <2>2 DEF Promise!Commit
<1>2. ASSUME UNCHANGED sqlite
      PROVE  Promise!Replicate
  <2>1. primary' \in [Keys -> Row \cup {NoRow}]
    BY <1>0 DEF RowsInv
  <2>2. \A d \in Keys \ Stale : primary'[d] = primary[d]
    BY RowsTouched DEF ReplicaInv
  <2>3. \A d \in Keys \ Stale' : primary'[d] = sqlite[d]
    BY <1>2 DEF ReplicaInv, NothingForgotten
  <2> QED
    BY <1>2, <2>1, <2>2, <2>3 DEF Promise!Replicate
<1>3. ASSUME NEW w \in Callers, CallerNext(w)
      PROVE  UNCHANGED sqlite \/ \E c \in Keys : Commits(w, c)
  BY <1>3, CallerCommits DEF MarkDirty, ReplicaInv
<1>4. ASSUME NEW k \in RegularKeys, StartRun(k)
      PROVE  UNCHANGED sqlite
  BY <1>4 DEF StartRun, dataVars
<1> QED
  BY <1>1, <1>2, <1>3, <1>4, NextKinds, WorkerKeeps DEF Promise!ContractNext, ReplicaInv

\* SQLite and the primary keep their contract: rows differ only while somebody
\* is responsible for them, and a copy touches only such rows, the row it
\* deletes because another channel has its name on the primary included.
THEOREM PromiseIsKept == Spec => KeepsPromise
<1>1. Init => Promise!ContractInit
  <2>1. Init => RowsInv /\ NothingForgotten
    BY ReplicaInit DEF ReplicaInv, Ground
  <2> QED
    BY <2>1 DEF Promise!ContractInit, RowsInv, NothingForgotten
<1>2. ReplicaInv /\ ReplicaInv' /\ [Next]_vars => [Promise!ContractNext]_(Promise!contractVars)
  BY PromiseStep DEF Promise!contractVars, Stale
<1> QED
  BY <1>1, <1>2, ReplicaInit, ReplicaKept, PTL DEF Spec, KeepsPromise, Promise!ContractSpec
=============================================================================
