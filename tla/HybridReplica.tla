---------------------------- MODULE HybridReplica ----------------------------
(***************************************************************************)
(* Replication of channels in ccLoad's hybrid storage                      *)
(* (src/internal/storage/hybrid_store.go, hybrid_reconcile.go,             *)
(* sql/replica.go): every channel operation commits in SQLite first, the   *)
(* source of truth, and then marks the channel in the write-behind queue;  *)
(* the worker copies what SQLite holds when the task runs.  The commit and *)
(* the mark are two steps of the calling goroutine, the reads and the      *)
(* write of a copy are separate steps of the worker, and everything else   *)
(* may happen in between.                                                  *)
(*                                                                         *)
(* PrimaryWriteBehind is the queue; here its keys are channel ids and its  *)
(* runs do what the tasks built by markChannelDirty and reconcilePrimary   *)
(* do.                                                                     *)
(*                                                                         *)
(* Two mergers: an operation on several channels (BatchPatchConfigs, batch *)
(* deletes of models) commits them together and marks one after the other; *)
(* here a caller changes one channel and marks it.  And the keys, disabled *)
(* URLs and model cooldowns of a channel, which a copy reads in separate   *)
(* statements, are one content that is read in one step.                   *)
(***************************************************************************)
EXTENDS PrimaryWriteBehind

CONSTANTS
  Names,     \* channel names (UNIQUE in both databases)
  Contents,  \* the rest of a channel: API keys, disabled URLs, model cooldowns
  Bare,      \* the content of a channel with no rows in those tables
  NoRow,     \* the channel has no row
  Callers,   \* goroutines that write channels
  PageSize,  \* primaryReconcilePageSize
  MaxFails   \* bound: failed SQL statements of the worker

ASSUME RowAssumption ==
  /\ Bare \in Contents
  /\ IsFiniteSet(Callers)
  /\ NoRow \notin [name : Names, content : Contents]
  /\ 0 \notin Keys
  /\ PageSize \in Nat \ {0}
  /\ PhaseCount >= 2
  /\ MaxFails \in Nat

VARIABLES
  sqlite,   \* channel id -> row in the authoritative database
  primary,  \* channel id -> row in the replica
  used,     \* ids AUTOINCREMENT has handed out
  caller,   \* the mark each goroutine still owes, if any
  inherited,\* history: rows that already differed when the process started
            \* (marks lost with the previous process) and were not marked since
  step,     \* where the worker is inside task.run
  chan,     \* the channel it is copying or deleting
  buf,      \* what it has read from SQLite
  page,     \* ids of the page not processed yet
  pageEnd,  \* the last id of the page, and whether the page ends its phase
  fails     \* failures so far (only to bound them)

dataVars == <<sqlite, primary, used, caller, inherited>>
copyVars == <<step, chan, buf, page, pageEnd>>
vars == <<wbVars, dataVars, copyVars, fails>>

-----------------------------------------------------------------------------
Row == [name : Names, content : Contents]

Steps == {"none",                      \* not in task.run
          "load", "children", "write", \* syncChannelReplica
          "drop",                      \* primary.DeleteConfig
          "begin", "list", "item", "check", "advance", "continue"}

LocalChannels   == 0   \* reconcileLocalChannels
PrimaryChannels == 1   \* reconcilePrimaryChannels; the later phases copy other tables

Ids(db) == {c \in Keys : db[c] # NoRow}

\* UNIQUE(name).
NameFree(n, c) == \A d \in Keys \ {c} : sqlite[d] # NoRow => sqlite[d].name # n

Owes(w) == caller[w].owes
Owed(c) == \E w \in Callers : caller[w].owes /\ caller[w].chan = c

-----------------------------------------------------------------------------
(* Callers: commit in SQLite, then mark.  Operations that may touch OAuth   *)
(* credentials hold oauthCredentialMu around both.                          *)

NoMark == [owes |-> FALSE, chan |-> 0, want |-> "sync", locked |-> FALSE]

MutexFree == \A w \in Callers : ~caller[w].locked

Begin(w, c, want, locked) ==
  /\ ~Owes(w)
  /\ calls + Cardinality({v \in Callers : Owes(v)}) < MaxCalls
  /\ locked => MutexFree
  /\ caller' = [caller EXCEPT ![w] = [owes |-> TRUE, chan |-> c, want |-> want,
                                      locked |-> locked]]
  /\ UNCHANGED <<wbVars, primary, inherited, copyVars, fails>>

\* Mutant of Create: the id of a deleted channel is given away again.
Create_ReusesIds(w, c, row, locked) ==
  /\ sqlite[c] = NoRow
  /\ NameFree(row.name, c)
  /\ sqlite' = [sqlite EXCEPT ![c] = row]
  /\ used' = used \cup {c}
  /\ Begin(w, c, "sync", locked)

\* CreateConfig, CreateConfigWithAPIKeys: AUTOINCREMENT never reuses an id.
Create(w, c, row, locked) ==
  /\ c \notin used /\ \A d \in Keys \ used : c <= d
  /\ NameFree(row.name, c)
  /\ sqlite' = [sqlite EXCEPT ![c] = row]
  /\ used' = used \cup {c}
  /\ Begin(w, c, "sync", locked)

\* UpdateConfig, Bump*/Set*/Reset*Cooldown, API key and URL operations (no
\* mutex), the compare-and-swap operations (with the mutex).
Update(w, c, row, locked) ==
  /\ sqlite[c] # NoRow
  /\ NameFree(row.name, c)
  /\ sqlite' = [sqlite EXCEPT ![c] = row]
  /\ UNCHANGED used
  /\ Begin(w, c, "sync", locked)

\* BatchPatchConfigs and the Reset*Cooldown operations succeed, and mark,
\* also for an id whose row is gone.
TouchMissing(w, c) ==
  /\ c \in used /\ sqlite[c] = NoRow
  /\ UNCHANGED <<sqlite, used>>
  /\ Begin(w, c, "sync", FALSE)

\* DeleteConfig, DeleteConfigIfOAuthSnapshotMatches.
Delete(w, c) ==
  /\ c \in used
  /\ sqlite' = [sqlite EXCEPT ![c] = NoRow]
  /\ UNCHANGED used
  /\ Begin(w, c, "delete", TRUE)

\* markChannelDirty: enqueue the mark, and return to the caller.
MarkDirty(w) ==
  /\ Owes(w)
  /\ calls' = calls + 1
  /\ Enqueue(caller[w].chan, caller[w].want)
  /\ caller' = [caller EXCEPT ![w] = NoMark]
  /\ inherited' = IF closed THEN inherited
                  ELSE IF Pending(FullSync)' THEN {}
                  ELSE inherited \ {caller[w].chan}
  /\ UNCHANGED <<sqlite, primary, used, copyVars, fails>>

-----------------------------------------------------------------------------
(* The worker inside task.run *)

Goto(s) == step' = s

\* A statement succeeded and the next one is s.
Advances(s) ==
  /\ Goto(s)
  /\ UNCHANGED <<wbVars, sqlite, used, caller, inherited, fails>>

\* The copy or the delete of one channel is complete.
ItemDone ==
  IF run.key = FullSync
    THEN Advances("item")
    ELSE /\ Goto("none")
         /\ EndRun("ok")
         /\ UNCHANGED <<sqlite, used, caller, inherited, fails>>

\* task.run returns an error.
Errs ==
  /\ Goto("none")
  /\ IF run.key = FullSync THEN FailPage ELSE EndRun("err")
  /\ UNCHANGED <<dataVars, chan, buf, page, pageEnd>>

StartRun(k) ==
  /\ TakeTask(k)
  /\ Goto(IF k = FullSync THEN "begin"
          ELSE IF tasks[k].want = "delete" THEN "drop" ELSE "load")
  /\ chan' = IF k = FullSync THEN chan ELSE k
  /\ UNCHANGED <<dataVars, buf, page, pageEnd, fails>>

\* sqlite.GetConfig.
LoadConfig ==
  /\ step = "load"
  /\ sqlite[chan] # NoRow
  /\ buf' = [name |-> sqlite[chan].name, content |-> Bare]
  /\ Advances("children")
  /\ UNCHANGED <<primary, chan, page, pageEnd>>

LoadConfigMissing ==
  /\ step = "load"
  /\ sqlite[chan] = NoRow
  /\ Errs
  /\ UNCHANGED fails

\* GetAPIKeys, GetDisabledURLsReplica, GetModelCooldownReplicaState: they
\* return nothing, and no error, for a channel deleted in the meantime.
LoadChildren ==
  /\ step = "children"
  /\ buf' = [buf EXCEPT !.content = IF sqlite[chan] = NoRow THEN Bare
                                    ELSE sqlite[chan].content]
  /\ Advances("write")
  /\ UNCHANGED <<primary, chan, page, pageEnd>>

\* SyncChannelAggregateReplica, one transaction: a row of another id with the
\* same name is deleted first.
Written ==
  [c \in Keys |-> IF c = chan THEN buf
                  ELSE IF primary[c] # NoRow /\ primary[c].name = buf.name THEN NoRow
                  ELSE primary[c]]

WriteReplica ==
  /\ step = "write"
  /\ primary' = Written
  /\ ItemDone
  /\ UNCHANGED <<chan, buf, page, pageEnd>>

DropReplica ==
  /\ step = "drop"
  /\ primary' = [primary EXCEPT ![chan] = NoRow]
  /\ ItemDone
  /\ UNCHANGED <<chan, buf, page, pageEnd>>

StartPage ==
  /\ step = "begin"
  /\ BeginPage
  /\ Goto("list")
  /\ UNCHANGED <<dataVars, chan, buf, page, pageEnd, fails>>

\* ListReplicaIDsPage: the first PageSize ids after the cursor, in order.
IsPage(P, S) ==
  /\ P \subseteq S
  /\ \A i \in P, j \in S : j < i => j \in P
  /\ Cardinality(P) <= PageSize
  /\ Cardinality(P) < PageSize => P = S

After(S) == {i \in S : i > cursor.after}

\* Mutant of PageOf: the second phase lists the channels of SQLite again.
PageOf_LocalOnly(P, last) ==
  /\ IsPage(P, After(Ids(sqlite)))
  /\ IF P = {} THEN last = cursor.after
     ELSE last \in P /\ \A j \in P : j <= last

\* The page P of this phase, and the id it ends with.
PageOf(P, last) ==
  /\ CASE run.phase = LocalChannels   -> IsPage(P, After(Ids(sqlite)))
       [] run.phase = PrimaryChannels -> IsPage(P, After(Ids(primary)))
       [] OTHER                       -> P = {}
  /\ IF P = {} THEN last = cursor.after
     ELSE last \in P /\ \A j \in P : j <= last

\* Mutant of ListPage: the next page begins where this one began.
ListPage_SamePageAgain ==
  /\ step = "list"
  /\ \E P \in SUBSET Keys, last \in PageEnds :
       /\ PageOf(P, last)
       /\ page' = P
       /\ pageEnd' = [last |-> cursor.after,
                      done |-> IF Cardinality(P) < PageSize THEN TRUE ELSE FALSE]
  /\ Advances("item")
  /\ UNCHANGED <<primary, chan, buf>>

ListPage ==
  /\ step = "list"
  /\ \E P \in SUBSET Keys, last \in PageEnds :
       /\ PageOf(P, last)
       /\ page' = P
       /\ pageEnd' = [last |-> last,
                      done |-> IF Cardinality(P) < PageSize THEN TRUE ELSE FALSE]
  /\ Advances("item")
  /\ UNCHANGED <<primary, chan, buf>>

NextItem ==
  /\ step = "item"
  /\ \E c \in page :
       /\ \A d \in page : c <= d
       /\ chan' = c
       /\ page' = page \ {c}
  /\ Advances(IF run.phase = LocalChannels THEN "load" ELSE "check")
  /\ UNCHANGED <<primary, buf, pageEnd>>

PageProcessed ==
  /\ step = "item"
  /\ page = {}
  /\ AdvancePage(pageEnd.last, pageEnd.done)
  /\ Goto(IF run'.stage = "paged" THEN "continue" ELSE "none")
  /\ UNCHANGED <<dataVars, chan, buf, page, pageEnd, fails>>

\* ReplicaRowExists.
CheckRow ==
  /\ step = "check"
  /\ Advances(IF sqlite[chan] = NoRow THEN "drop" ELSE "item")
  /\ UNCHANGED <<primary, chan, buf, page, pageEnd>>

NextPage ==
  /\ step = "continue"
  /\ ContinueReconcile
  /\ Goto("none")
  /\ UNCHANGED <<dataVars, chan, buf, page, pageEnd, fails>>

\* A statement fails or times out.  A failed transaction on the primary may
\* have been committed all the same.
StatementFails ==
  /\ fails < MaxFails
  /\ step \in {"load", "children", "write", "drop", "list", "check"}
  /\ fails' = fails + 1
  /\ Goto("none")
  /\ IF run.key = FullSync THEN FailPage ELSE EndRun("err")
  /\ \/ UNCHANGED primary
     \/ step = "write" /\ primary' = Written
     \/ step = "drop" /\ primary' = [primary EXCEPT ![chan] = NoRow]
  /\ UNCHANGED <<sqlite, used, caller, inherited, chan, buf, page, pageEnd>>

FinishRun ==
  /\ Finish
  /\ UNCHANGED <<dataVars, copyVars, fails>>

-----------------------------------------------------------------------------
(* Time, shutdown, and the specification *)

\* The worker begins its work, waits, or stops waiting.
Sleep ==
  /\ Park \/ SleepUntilRetry \/ \E k \in RegularKeys : Oversleep(k)
  /\ UNCHANGED <<dataVars, copyVars, fails>>

Wake       == (PrimaryReady \/ WakeUp) /\ UNCHANGED <<dataVars, copyVars, fails>>
Retry(k)   == RetryDue(k) /\ UNCHANGED <<dataVars, copyVars, fails>>
LoopExit   == Exit /\ UNCHANGED <<dataVars, copyVars, fails>>
CloseQueue == Close /\ UNCHANGED <<dataVars, copyVars, fails>>
CancelCtx  == Cancel /\ UNCHANGED <<dataVars, copyVars, fails>>

Init ==
  /\ wbInit
  /\ \E U \in SUBSET Keys :
       /\ \A i \in U, j \in Keys : j < i => j \in U
       /\ used = U
       /\ sqlite \in [Keys -> Row \cup {NoRow}]
       /\ Ids(sqlite) \subseteq U
       /\ \A c \in Ids(sqlite) : NameFree(sqlite[c].name, c)
  /\ primary \in [Keys -> Row \cup {NoRow}]
  /\ inherited = {c \in Keys : primary[c] # sqlite[c]}
  /\ caller = [w \in Callers |-> NoMark]
  /\ step = "none"
  /\ chan = 0
  /\ buf = NoRow
  /\ page = {}
  /\ pageEnd = [last |-> 0, done |-> TRUE]
  /\ fails = 0

CallerNext(w) ==
  \/ \E c \in Keys, row \in Row, l \in BOOLEAN : Create(w, c, row, l) \/ Update(w, c, row, l)
  \/ \E c \in Keys : TouchMissing(w, c) \/ Delete(w, c)
  \/ MarkDirty(w)

WorkerStep ==
  \/ LoadConfig \/ LoadConfigMissing \/ LoadChildren
  \/ WriteReplica \/ DropReplica
  \/ StartPage \/ ListPage \/ NextItem \/ CheckRow \/ PageProcessed \/ NextPage
  \/ FinishRun

Next ==
  \/ \E w \in Callers : CallerNext(w)
  \/ \E k \in RegularKeys : StartRun(k) \/ Retry(k)
  \/ WorkerStep
  \/ StatementFails
  \/ Sleep
  \/ Wake
  \/ LoopExit
  \/ CloseQueue
  \/ CancelCtx

Spec == Init /\ [][Next]_vars

-----------------------------------------------------------------------------
(* Properties *)

TypeOK ==
  /\ wbTypeOK
  /\ sqlite \in [Keys -> Row \cup {NoRow}]
  /\ primary \in [Keys -> Row \cup {NoRow}]
  /\ used \subseteq Keys
  /\ inherited \subseteq Keys
  /\ caller \in [Callers -> [owes : BOOLEAN, chan : Nat, want : Wants,
                             locked : BOOLEAN]]
  /\ step \in Steps
  /\ chan \in Keys \cup {0}
  /\ buf \in Row \cup {NoRow}
  /\ page \subseteq Keys
  /\ pageEnd \in [last : Nat, done : BOOLEAN]
  /\ fails \in Nat

\* Channel c lies ahead of the reconciliation cursor: in the first phase a
\* channel of SQLite not copied yet, in the first two a row of the primary
\* whose channel is gone.
Ahead(c) ==
  \/ cursor.phase = LocalChannels /\ sqlite[c] = NoRow
  \/ /\ \/ cursor.phase = LocalChannels
        \/ cursor.phase = PrimaryChannels /\ sqlite[c] = NoRow
     /\ IF run.stage = "paging" /\ step # "list"
          THEN \/ c \in page
               \/ c = chan /\ step # "item"
               \/ c > pageEnd.last /\ ~pageEnd.done
          ELSE c > cursor.after

ReconcileCovers(c) ==
  /\ Pending(FullSync) /\ cursor.active
  /\ cursor.restart \/ Ahead(c)

\* Somebody still has to bring channel c to the primary.
Covered(c) ==
  \/ closed
  \/ c \in inherited
  \/ Owed(c)
  \/ Pending(c)
  \/ ReconcileCovers(c)

\* No change of a channel is ever forgotten: whenever the primary differs
\* from SQLite, the goroutine that changed it is about to mark it, a task of
\* the channel is queued, or a reconciliation is queued that has not passed
\* it - across coalescing, overflow, failures and marks during a run.
NothingForgotten ==
  \A c \in Keys : primary[c] = sqlite[c] \/ Covered(c)

\* The two databases, seen without the queue, keep the promise of the hybrid
\* storage: rows differ only while Covered, and only covered rows are written
\* (copying a channel deletes another one that has its name on the primary).
Promise == INSTANCE ReplicaContract
  WITH Entities <- Keys, Rows <- Row \cup {NoRow},
       source <- sqlite, copy <- primary, stale <- {c \in Keys : Covered(c)}

KeepsPromise == Promise!ContractSpec

\* A queued delete is about a channel SQLite no longer has: ids are not
\* reused, so no delete can remove a channel created later.
DeletesAreFinal ==
  \A c \in Keys :
    \/ Pending(c) /\ tasks[c].want = "delete"
    \/ \E w \in Callers : Owes(w) /\ caller[w].chan = c /\ caller[w].want = "delete"
    \/ run.stage = "running" /\ run.key = c /\ run.want = "delete"
    => sqlite[c] = NoRow

-----------------------------------------------------------------------------
(* Liveness.  Goroutines run on, the primary gets ready, the retry delay     *)
(* ends, and the worker takes the due task of the smallest generation as     *)
(* soon as it is idle; a run that keeps failing leaves the worker idle for   *)
(* the ten seconds of its delay, so no due task is passed over forever:      *)
(* strong fairness for StartRun(k).                                          *)

Fairness ==
  /\ \A w \in Callers : WF_vars(MarkDirty(w))
  /\ WF_vars(WorkerStep)
  /\ WF_vars(Wake)
  /\ \A k \in RegularKeys : WF_vars(Retry(k)) /\ SF_vars(StartRun(k))

\* Once the changes stop and the primary answers again, every channel that
\* SQLite has reaches the primary, unless the process shuts down first or the
\* worker oversleeps the retry (which only another mark would end).
LiveRowsConverge ==
  <>[](\/ closed \/ Overslept
       \/ \A c \in Ids(sqlite) \ inherited : primary[c] = sqlite[c])

\* "The primary is an eventually consistent copy": also a deleted channel
\* leaves it.
ReplicaConverges ==
  <>[](closed \/ Overslept \/ primary = sqlite)
=============================================================================
