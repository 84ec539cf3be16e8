# ccLoad: TLA+ models and proofs

ccLoad (`src/`, Go) is a self-hosted gateway for AI APIs: clients talk to it with a
gateway token, it chooses one of the configured upstream *channels* and one of that
channel's keys, fails over when an upstream fails, translates protocols, meters
cost, and keeps its data in SQLite, MySQL or PostgreSQL - or in SQLite with a
write-behind copy in one of the other two ("hybrid" storage).

This directory holds TLA+ models of the parts whose correctness rests on
interleavings, failures and time, the TLC configurations that check them on small
instances, and TLAPS proofs of their main invariants for all instances.

1. [The system](#1-the-system): inventory, hard behaviours, what makes each part correct
2. [The modules](#2-the-modules-and-the-code-they-model) and the code they model
3. [The runs](#3-the-runs): what each checks, bounds, fairness
4. [The proofs](#4-the-proofs): what is proved, from what, how
5. [Disagreements between code and documentation](#5-disagreements-found)
6. [What is not modelled](#6-what-is-not-modelled) and why
7. [Plan](#7-plan)

To check a module: `tlc -config MC_Admission.cfg MC_Admission`; to prove one:
`tlapm UpstreamAdmission_proofs.tla`. `PROJECT.json` maps every definition to its
source lines and lists runs, mutants (a deliberate bug for each property, which
breaks it), hazards and theorems.

## 1. The system

### How the parts interact

A request authenticates (token cache), asks the **selector** for channels (through
the **channel cache**), which drops what is cooling down; the **proxy** walks
through the candidates, for each channel through its keys, each attempt passing the
channel's **admission** (slots and requests per minute). A failure is classified and
becomes a **cooldown** of the key, the model or the channel, written to the store,
followed by an invalidation of the caches; a success clears the cooldowns. A channel
that was authorized by a login sends with a **credential** that it refreshes when it is
due or rejected. At the end the request is charged to its token (**token statistics**)
and logged (**log service**); the two queues behind these are drained when the
**server** stops. Every store write goes, in hybrid mode, first to SQLite and then as a
mark into the **write-behind queue**, whose one worker copies rows to the
primary.

All of this is goroutines in one process: shared state is guarded by a mutex per
component, and no lock spans two components. Store accesses happen outside the
locks. So what is read is often stale when it is used, and the interesting
questions are which invariants survive that.

### Inventory

| Component (code) | State | Operations | Hard behaviour | Correct when |
|---|---|---|---|---|
| **Primary write-behind queue** `storage/hybrid_writebehind.go` | task map with generations, wake channel, closed flag, drop counter, reconciliation cursor | enqueue (coalesce, absorb, overflow), best-effort enqueue, worker take/run/finish/retry, page advance, close | a mark arrives while the same row's task runs; overflow throws all row tasks away; resumable reconciliation under new generations; delay computed twice | no mark is lost; bounded memory; every lost log batch is counted; failed work is retried |
| **Channel replication** `hybrid_store.go`, `hybrid_reconcile.go`, `sql/replica.go` | the two databases, pending marks, worker position | commit then mark; copy one channel; delete one; page through both databases | commit and mark are two steps; copy reads row and keys separately; transaction outcome unknown; names are unique, ids are never reused | rows differ only while somebody is responsible for them; the primary converges |
| **Hybrid bootstrap/restore** `storage/factory.go`, `sync_manager.go` | database file, marker row, configuration and logs on both sides | adopt, import, import logs, serve, pure modes | death between any two steps; a log import that fails or commits unseen | an incomplete import is never taken for complete; nothing committed is taken back; no log twice |
| **SQL stores** `storage/sql/*` | tables | one transaction per operation | failing statements | modelled inside the components that depend on them |
| **Upstream admission** `app/channel_concurrency_limiter.go`, `channel_rpm_limiter.go` | counter and wake channel per channel, time stamps of the last minute | reserve (refuse) and wait (block), release, edit, delete, sweep | two limiters with a mutex each; release by several parties; limits edited under way | slots neither leak nor double; no lost wake-up; rolling minute respected |
| **Channel cache** `storage/cache.go` | list, keys per channel, cooldown tables, generations, refresh mutex | lookup, refresh, store, invalidate, expire, fallback query | query without lock between commit and invalidation | what a handler invalidated is not served afterwards; lookups return |
| **Cooldown and failover** `cooldown/manager.go`, `sql/cooldown.go`, `util/time.go`, `app/selector_cooldown.go`, `proxy_handler.go`, `proxy_forward.go`, `key_selector.go` | cooldown deadline and duration per key, model, channel; per request: candidates left, key snapshot, tried keys | filter, visit, choose key, judge failure, write cooldown, look for exhaustion, promote, clear | all requests share the records; each reads, decides and writes in separate steps | waits are bounded, and not shortened by a failure that read the clock later; a channel is cooled when exhausted and otherwise only for a failure of its own; requests reach an upstream, and end |
| **Error classification** `util/classifier.go` | none | status and body to scope and recovery time | text matching | its outcomes are the inputs of the failover model |
| **Auth tokens and cost limits** `app/auth_service.go`, `admin_auth_tokens.go`, `proxy_error.go` | maps of tokens with used amounts, counter of places, charge queue | authenticate, reload, evict, take a place, charge, edit | the row is read and the maps replaced in two steps; charges go to maps and row one after the other; eviction by hash | the maps are never behind the ledger; places balance; overspend is bounded; a disabled token is refused |
| **Log service** `app/log_service.go` | buffered channel, batch, counters | add, batch, retry, drain at shutdown | an entry after the last drain; a commit whose answer is lost | every entry is written or counted, once |
| **Server lifecycle** `main.go`, `app/server.go` | shutdown flag, shutdown channel, wait groups, store | two-stage shutdown with time-outs, crash, restart | handlers that outlive the HTTP server; the flag read and used in two steps | the process ends; queues are drained before the store closes |
| **Same-channel retries, multi-URL failover** `proxy_handler.go`, `url_selector.go`, `url_fallback.go` | failure counters, deferred cooldowns, URL cooldown map | retry, defer, commit | counter shared by requests | the threshold counts what it says |
| **Ordering and affinity** `selector_balancer.go`, `smooth_weighted_rr.go`, `session_affinity.go` | current weights, session map | order candidates | stale weights | shares converge to weights |
| **Active requests** `active_requests.go` | registry, abort handle per attempt | register, update, abort | handle used after its attempt is over | an abort ends the request it names |
| **Responses sessions, WebSocket bridges** | session store, two pumps | pin, evict, forward, close | either side closes first | no message after close; no pump left behind |
| **OAuth credentials** `*_credentials.go`, `proxy_forward.go`, `sql/config.go` | credential row, parsed credential in memory, a flight per access token, back-off, remembered refusal | use, refresh, redirect, compare-and-swap, retry after 401, disable, log in again | a grant is good for one use; the row is written by refreshes, quota samples and logins | the grant is not lost; no write undoes another; only a refused grant disables; callers get an answer |
| **Quota ledger and usage** `oauth_quota_cost.go`, `hybrid_quota_ledger.go`, `oauthcost/` | usage windows, ledgers | observe, roll over, replicate | out-of-order headers | a window is not counted twice |
| **Checks and schedulers** | timers, batch jobs | probe, refresh | probe vs traffic | probes use the waiting way of admission |
| **Statistics and cost caches** `stats_cache.go`, `cost_cache.go` | cost of the day in memory; read-mostly maps | add, restore at start, refresh | restored from logs that are behind memory | never less than a restart would find |
| **Upstream exchange, protocol translation, privacy masking** | per request | rewriting of streams | parsing | data transformation, no shared state |
| **Admin API, web UI, provider logins, support** | | CRUD, OAuth logins | | callers of the above |

The hazards of this code, each with the line where it bites and the property that
would catch it, are in `PROJECT.json` ("hazards").

## 2. The modules and the code they model

| Module | Models | Used by |
|---|---|---|
| `PrimaryWriteBehind` | the queue, its worker and the reconciliation cursor; what a task *does* is left open | `HybridReplica` (EXTENDS), `HybridReplica_proofs`, `MC_WriteBehind` |
| `HybridReplica` | channel replication on top of that queue: callers, single-row copy, paged reconciliation, two databases | `HybridReplica_proofs`, `MC_HybridReplica` |
| `ReplicaContract` | abstract: rows differ only while somebody is responsible | `HybridReplica` (INSTANCE with a refinement mapping) |
| `UpstreamAdmission` | both limiters and both ways through them | `UpstreamAdmission_proofs`, `MC_Admission` |
| `HybridBootstrap` | which database a start trusts, the imports, death at every step, the pure modes | `HybridBootstrap_proofs`, `MC_HybridBootstrap` |
| `ServerLifecycle` | the process as handlers and workers see it: serving, two-stage shutdown, end, start | `ChargeQueue`, `LogQueue` (EXTENDS) |
| `ChargeQueue`, `LogQueue` | the two bounded queues behind a handler, their workers and their drains | `Accounting` (EXTENDS both) |
| `Accounting` | the composition: a handler that feeds both, the cost in memory, one shutdown | `Accounting_proofs`, `MC_Accounting` |
| `TokenQuota` | limits of a token: row, maps, reloads, edits, charges | `TokenQuota_proofs`, `MC_TokenQuota` |
| `OAuthCredentials` | the credential of one Codex channel and everybody who refreshes, uses or replaces it | `OAuthCredentials_proofs`, `MC_OAuth` |
| `ChannelCache` | list, API keys and cooldown tables of the cache with readers and writers | `ChannelCache_proofs`, `MC_ChannelCache` |
| `Failover` | candidate filter, channel loop, key loop, cooldown records, promotion, clearing | `Failover_proofs`, `MC_Failover` |

Common conventions: an action is one critical section, one store statement or one
transaction of the code. A goroutine's program counter is a `stage` or `step` field.
Local variables that live across such a boundary are state (`reader[r].gen`,
`req[i].seen`, `buf`), because they can be stale. History variables (marked
`history`) are written and never read by a guard. Definitions named `X_Something`
are mutants of `X`; nothing else refers to them.

### PrimaryWriteBehind

`tasks`, `nextGen`, `wake`, `closed`, `cancelled`, `dropped` are the fields of
`primaryWriteBehind`; `cursor` is `HybridStore.primaryReconcile`; `run` is the
worker's stack, which begins with `initializePrimary` (`preparing`, until
`PrimaryReady`): marks that arrive before the primary has been reached and migrated only
queue up. `Enqueue` is `enqueueTask`, one disjunct for each path: closed, absorbed by a
queued reconciliation, overflow into one, or stored by key. `TakeTask` is `nextTask` choosing the due task of the smallest generation. `Park`,
`SleepUntilRetry` and `Oversleep` are the three ways into `wait()`; the third exists
because the delay is computed with a second clock reading (line 274). `BeginPage`,
`AdvancePage`, `ContinueReconcile` are the page protocol; `Finish` compares generations.

The time of a retry is a Boolean, `due`: how long ten seconds are makes no difference
to what is checked.

### HybridReplica and ReplicaContract

Channels are rows with a name (UNIQUE in both databases) and a content (API keys,
disabled URLs, model cooldowns together). `Create`, `Update`, `TouchMissing`,
`Delete` commit in SQLite and leave the goroutine owing its mark; `MarkDirty` pays
it. Operations on credentials hold `oauthCredentialMu` across both steps (`locked`),
the others do not. The worker's statements are separate steps, between which anything
may happen: `LoadConfig`, `LoadChildren`, `WriteReplica` copy a channel
(`SyncChannelAggregateReplica` deletes a row of another id with the same name);
`StartPage`, `ListPage`, `NextItem`, `CheckRow`, `PageProcessed`, `NextPage` run a
page. `StatementFails` fails any of them, and a failed transaction on the primary may
have been committed all the same.

`ReplicaContract` is what the comment on `HybridStore` promises, without the queue: a
row of the copy may differ from the source only while it is `stale`, and only stale
rows are written. `HybridReplica` maps `stale` to the channels for which a mark is
owed or queued, or which a queued reconciliation has not passed (`Covered`).
`inherited` are differences left behind by a previous process.

### HybridBootstrap

`at` is how far `NewStore` has come in a start; every stage is one commit or one open
database, and `Die` may come at any of them. `marker` is the row of
`hybrid_bootstrap_state`. A configuration is the set of the edits that made it, so that
"lacks an edit" is a subset test; logs are told apart by their time, and a log import
takes what is newer than the newest local log (`sync_manager.go` 94). `RunOnSQLite` and
`RunOnPrimary` are an operator who starts the program on one of the databases alone in between. Three
histories name the situations in which the code gives no guarantee, and no property
holds without them: `split` (a pure mode wrote to the side that is not trusted),
`cutShort` (a start died with a new, unmarked SQLite file), `gap` (SQLite got a log while
it lacked an older one).

### UpstreamAdmission

One channel. `active`, `watchers` are the concurrency limiter (`watchers` are those
who wait on the current `changed` channel; closing it empties the set); `events` are
the time stamps of the RPM limiter as ages. They are recorded in the order of their time,
so what the loop in `reserve` keeps is the end of the list (`Younger`; `MC_Admission` compares
it with the loop, for all short lists). `recent` is the history they are compared with: what
was really admitted in the last minute. A request takes a slot (`Acquire`,
`Reject`, `Block`), asks for the minute (`Reserve`), and on refusal gives its slot
back (`GiveBack`), then leaves or starts a timer. The response body is closed by
whoever is first (`CloseBody`), and again by the others (`CloseAgain`). An
administrator edits the limits or deletes the channel at any time; requests carry the
limits they were routed with (`lim`).

### ServerLifecycle, ChargeQueue, LogQueue, Accounting

`ServerLifecycle` is the frame: `phase` runs from `serving` through the five seconds of
`httpServer.Shutdown` (`draining`), the flag `isShuttingDown`, the closed `shutdownCh`, the
ten seconds of the workers, to the closed store and the end; a handler is at a stage of
`Stages`. A handler on a hijacked (WebSocket) connection is not waited for. `ChargeQueue`
is `updateTokenStatsAsync` and `tokenStatsWorker`: check of the flag, and then - in a
step of its own - the send, the drop after 100 ms, or the synchronous booking. The UPDATE may
be made and yet be reported as failed, when its answer does not come within three seconds: such a
charge is in `booked` and in `failedCharges`.
`LogQueue` is `AddLogAsync`, which never waits, and `logWorker`: batches, two attempts,
the drain, the last flush. A commit may succeed and its answer be lost (`doubtful`).
`Accounting` joins the two in both orders of the code: `handleProxySuccess` and most other ways
to end log and then charge, `handleProxyErrorResponse` charges and then logs (the requests of
`Failing`; `First`, `AfterLog` and `AfterCharge` say which order a handler follows). It adds the
cost in memory, which goes with the log entry, the restoring of the cost at a start, and `racing`, the handlers
that were between check and use when the flag was set.

### TokenQuota

One token and one window of its cost, each request costs 1. `cache` is what the maps of
`AuthService` hold of the token, `loader` the holder of `authTokensRefreshMu` with the row it
has read: between `LoadRead` and `LoadInstall` anything may happen. `reload` is how far the maps
are trusted: fresh, older than the reload interval, or a reload failed and the second
before the next one is not over. A request goes through `Resolve` (or `Evict`, when it sees
an expired token), `TakeSlot`, `CheckCost`, its upstream time, `Finish` and `Leave`; the worker
takes a charge from the queue, adds it to the maps and then to the row (`hand`). The
administrator edits the row, then reloads; when the UPDATE was made but reported an error, the
request ends there, without a reload (`unsure`, `admin_auth_tokens.go:395`). A request sends one
charge: one with several billed attempts sends as many, and the bound of the overshoot grows by
those of the requests that hold a place. Midnight and the token's expiry may come
between any two steps. `ghost` holds histories: `spent` of the window, the highest limit it
was checked with (`ceiling`), and the two exceptions of the properties - `gap` (the maps
lack a charge that the row has: it found no entry, or its window was replaced, and no
quiet reload has been made since) and `torn` (that was ever so, or a request passed
without a limit).

### OAuthCredentials

One channel. `row` is the channel's row (credential and `enabled`), `entry` the parsed
credential in memory, `flight[a]` the single flight of access token `a`, `req` the
requests, `usage` the quota sample under way, `admin` the login of an administrator.
Tokens are numbered in the order of their issue; `clock` says up to which number they
are due and expired, which is all that is asked of time. The provider takes a refresh
token (grant) once: `dead` are those it takes no more, and `lost` those among them whose
successor was lost to a fault - a crash, a failed statement, an answer that did not come.

A request looks up the cache (`Lookup`), joins the flight named by its access token
(`Join`; the first one starts it with its own refresh token), waits, and is answered,
redirected to what another flight has stored, or failed. With a credential it sends;
on 401 it comes back once with `rejected` set. Without one it gives the channel up: if
the grant was refused, `DisableMatches` compares the whole stored payload in the same
statement, `DisableMisses` reads it again and tries up to three times, provided the
tokens are still those that were refused.

A flight runs through `begin -> loaded -> persist -> publish`, with `failed`, `yield` and
`reread` for what it finds otherwise. The network exchange with the provider is one step
(`Refresh`), which issues, uses up, and delivers or loses the answer; the
compare-and-swap is another, and between the two quota samples and logins may write
the row. Mutants of this module are the swap that gives up when it misses, the redirect
that does not cache what it found, the merge that forgets the quota data, and the
recheck that takes any token for the refused one.

### ChannelCache

Contents are versions. A reader notes the generations, queries without a lock, and
stores if nothing was invalidated meanwhile; a handler commits a set of items
(`Changes`) and invalidates them one after the other. `settled` records, for an item,
the version that was there when an invalidation ended, and `floor` what was settled
when a lookup began. The cooldown tables have no generation in the code and have none
here. Of the list refresh, the mutex and the loop that starts over are modelled; its two
queries are one step (the second only sees more).

### Failover

`cool` holds the deadline and duration of every key, model and channel. A request
passes the stages

    ended -> visit -> select -> sent -> mark -> readKeys -> readModels -> promote
               ^        ^         |                             |            |
               |        +---------|---------- next key ---------+            |
               +------------------+---------- next channel ------------------+
    sent -> clearChannel -> clearKey -> clearModel -> ended

each of which is one store access or one exchange with the upstream. `Verdict` is what
the cooldown manager makes of a classified failure (which record to cool, until when,
where to go on), with the "retry other keys" option of a channel. `Backoff` is
`CooldownPolicy.CalculateBackoffDuration`, `Bumped` the record it leads to, `SetTo` a deadline
the upstream stated. `Ask` applies the cooldown filter and the fallback; it reads
three caches, which here is one step. `Visit` checks the channel again (`Offers`) and takes the
snapshot of its keys. `ReadKeys`, `ReadModels`, `Promote` are
`promoteExhaustedResources` in its three separate accesses. `WriteFails` and
`ReadFails` are store errors, after which the code goes on.

The clock is read apart from the store, as in the code: `time.Now()` is evaluated in
`manager.go` (329, 357, 418, 431), the transaction comes later, after a lock or a retry. An access
works with any reading `t` between the request's previous step (`since`) and now
(`Readings`), so the failures of two requests on one key may be written in an order that is
not that of their readings.

Three histories say what a cooldown or a request rests on. `reason[c]` is why channel `c` is
out of use as a whole, `crossed` are the requests whose promotion no longer has the ground they
read, `owed` the requests that still have a claim to reach an upstream: a request loses it by
being sent, by being refused a place (`Busy`), when its client leaves, and when the step of
another request takes away the last channel of its list that offers it anything (`LeftOut`).

Details kept because properties depend on them: the first cooldown is not clipped to
`cooldown_max_seconds` (`util/time.go` 92-96); a promotion writes its deadline over
whatever the channel had; the key loop works on the keys as they were on entry.

## 3. The runs

All passing runs end with every reachable state visited; states are distinct states.

| Run | Question | Instance | States |
|---|---|---|---|
| `write_behind` | is the queue safe, is no mark and no log batch lost | 3 rows, 1 log key, room for 2 tasks, 2 phases, 4 enqueue calls | 1.6 M |
| `hybrid_replica` | with the replica up to date at the start: nothing forgotten, deletes final, and does replication use the queue as modelled (`wbSpec` as a property) | 2 channels, 2 names, 2 contents, 2 callers, room for 1 task, pages of 1, 3 calls, 1 failed statement | 2.9 M |
| `hybrid_drift` | from any replica: implements `ReplicaContract`; live rows converge | as above, 2 calls, one content | 0.8 M |
| `hybrid_replica_deleted` | see section 5 | as above | |
| `bootstrap` | which database is trusted, over any number of starts and deaths | 3 edits, 4 log times, a window of 2 | 0.1 M |
| `admission` | slots, limits, wake-ups, rolling minute, retry delay, probes served | 2 requests, 5 pairs of limits, a minute of 2 ticks | 0.7 M |
| `channel_cache` | staleness, settled reads, lookups return | 2 readers, 1 writer with 1 commit, 2 channels, 1 cooldown table | 0.3 M |
| `failover` | waits bounded, shortened only by late writes; a visit has a key; exhaustion noticed; cooled only when exhausted; fallback serves | 2 clients, 1 channel with 2 keys and 1 model, cooldowns up to 2, no stated recovery times | 4.0 M |
| `failover_ends` | requests end, also when a store access fails | 1 client, 2 channels of 2 keys, one with the other-keys option, key retries 1, cooldowns of 1, 1 store fault | 1.3 M |
| `accounting` | what becomes of every charge and log entry; the process ends | 2 requests, one that charges before it logs and one on a hijacked socket, queues of 1, batches of 2, 2 attempts | 0.5 M |
| `token_quota` | places, maps against ledger, revocation, overshoot | 2 goroutines, 4 requests, limits none and 1, 1 place, a queue of 1, 2 days, 1 edit | 6.2 M |
| `oauth` | the grant, the row, the disabling, the callers | 1 request at a time, 3 tokens, 2 events out of the ordinary | 1.2 M |

### What the properties say

* **Queue.** `NewestMarkSurvives`: a row's task leaves the queue only because a run of
  *that* generation succeeded, or for a reconciliation. `QueueSafe` is the conjunction of
  `ReconcileAlone`, `BoundedPending`, `GenerationsIdentify`, `CursorHasTask`: the four facts
  that make coalescing and overflow safe. `NoSilentLogLoss`: handed-over log batches are stored,
  queued or counted.
* **Replication.** `NothingForgotten`: whenever a row differs, a goroutine owes its
  mark, or a task or an uncompleted reconciliation will see it - across overflow,
  restart of the reconciliation, failures and marks during a page. `DeletesAreFinal`: a
  queued delete never meets a channel that exists (it does not say that the delete comes about:
  section 5). `KeepsPromise`: refinement of
  `ReplicaContract`. `LiveRowsConverge`: once changes stop, existing channels are equal.
* **Bootstrap.** `SourceIsAhead`: no process serves a configuration that lacks what the
  primary had. `EditsSurvive`: what SQLite has committed is not replaced. `ImportedOnce`:
  after a successful import every log of the window is there, and none twice.
* **Admission.** `SlotsAreHeld`, `WithinLimits`, `NoLostWakeup`, `RollingMinute`,
  `RetryIsEarliest` (the delay is the first moment a retry can succeed, not before and
  not later), `ProbesServed`.
* **Cache.** `StaleOnlyWhileOwed`: list and keys are cached out of date only while
  somebody is still about to invalidate them. `ReadsAreSettled`: no lookup returns
  something older than what was invalidated before it began. `LookupsReturn`.
* **Failover.** `WaitIsBounded`. `FailuresNeverShorten`: a failure brings a key or a model back
  earlier only if it read the clock before the failure it overwrites and was served after it,
  and then by no more than the time between the two readings. `VisitTriesKey`.
  `ExhaustionNoticed`: of requests that exhaust a channel together, the last cools it.
  `ChannelCooledOnlyWhenExhausted`: a channel is out of use as a whole for a failure of its own
  or while all its keys or all its models cool, unless `reason` names one of three exceptions.
  `FallbackServes`: a request that is `owed` an upstream is not answered without one.
  `RequestsEnd`.
* **Accounting.** `Conserved`: a charge, and a log entry, is in exactly one place - with
  its handler, queued, in the worker's hand, written once, or counted - and after a crash
  written at most once. A charge that was made but reported as failed counts as one; a log entry
  whose commit lost its answer is left out, because the retry may store it again.
  `OnlyRacingStranded`: when the workers have ended in time, only handlers that were between check and use of the flag leave something behind.
  `CostNotBehindLogs`: a restart never finds more in the logs table than memory had. (What it
  finds less - entries still queued at a crash, or all of them when the table cannot be read - is
  not bounded by any property.)
  `ShutdownEnds`, `ChargesSettle`.
* **Token limits.** `PlacesAreHeld`: the counter equals the requests that hold a place.
  `MapsCoverLedger`: what requests are checked against is not behind what is booked.
  `RevocationHolds`: once the edit that disables a token is answered, no trusted map knows
  it. `OvershootBounded`: what is spent exceeds the highest limit checked by at most places
  and queue.
* **Credential.** `GrantNotLost`: a grant in the row that the provider takes no more has
  a flight that still has the successor to store, or the successor was lost to a fault.
  `NothingUndone`: login, access token and quota counter of the row only go forwards.
  `DisabledOnlyIfDead`. `CallersReturn`: nobody is sent round between cache, row and
  flights for ever.

A type invariant is proved where section 4 lists one (`QueueTypeCorrect`, `TypeCorrect`,
or as a part of an inductive invariant); TLC is not asked for it again.

### Bounds, and why they suffice to see the interesting cases

* Queue: one row more than the queue has room for, so that overflow, absorption and
  reconciliation during other marks all happen; four calls allow mark, overflow, absorbed mark, and
  a mark after it. Deadlock is not checked: after `Close` and `Exit` the worker is gone,
  and with all calls made a parked worker rests.
* Replica: pages of one row make two channels span pages, so a row behind, on and ahead
  of the cursor is written during a run; three calls allow create, delete, create with the
  same name (the conflict on the primary). One failure suffices to leave a page half-done.
* Bootstrap: with three edits one can be made before, one during and one after an interrupted
  import; four times with a window of two let a log fall out of the window. Deadlock is checked.
* Admission: two requests compete for a slot under limits that come and go; a minute of
  two ticks has events of different ages, so expiry out of step with a lowered limit
  happens. The proofs cover any number of requests.
* Cache: two readers and one commit allow the overtaken store, the refresh waited for
  by another reader, and the refresh that starts over. Handlers touch one channel, several,
  or everything. `Asks` names what each reader asks for: one asks for the list, a
  channel's keys and the cooldowns, the other competes with it for list and keys; the
  second channel is only written, to tell "this channel" from "all channels".
* Failover: `MaxTime` and `MaxCooldown` of 2 let the back-off start, double and
  saturate, and a write use a reading of the clock that is one tick old; two clients with two keys
  are the smallest instance in which two requests exhaust a channel together, a success clears
  what another request has read, or one request cools the channel another one has chosen.
  Two channels are needed for fail-over; that run has one client, cooldowns of one tick, which
  end and begin again while the clock runs to 2, and one failing access. Store faults with
  several clients, stated recovery times and the other-keys option with several clients are
  covered by the theorems, which have no bounds.

* Accounting: with queues of one the second handler meets a full channel; the request on
  the hijacked socket outlives the HTTP server, the other one charges first. A batch has both entries, so a lost
  answer concerns more than one. No deadlock check: with all requests made the process rests.
* Token limits: four requests of two goroutines can fill place, hand and queue at once and
  still ask for more; one edit disables, renews, or changes the limit; two days have one
  midnight. No deadlock check: the bounds end the behaviour.
* Credential: one request at a time, but not one flight: a request that leaves or gives up
  lets its flight run on, and the next one starts another, so flights of three tokens
  overlap with each other, with a sample and with a login. Three tokens allow a
  refresh of a refreshed token or a login over one; of the two events one may be the
  sample, login or leaving client that makes the race, the other a fault. The safety
  properties are proved for any number of requests, tokens and events. No deadlock
  check: when the tokens are used up, a flight may have nothing left to ask for.

Bounds by name: `MaxCalls`, `MaxFails`, `MaxWrites`, `Asks`, `MaxTime`, `MaxFaults`, `MaxEdits`,
`MaxRequests`, `MaxDay`, `MaxTokens`, `MaxEvents` limit the
behaviours, `Window` the resolution of the clock. Symmetry is used only for sets of
interchangeable requests, callers, names and keys in runs without liveness.

### Fairness

* *Write-behind*: a goroutine that committed goes on to mark; the primary is reached in the end;
  the worker goroutine runs on; timers fire; `StartRun(k)` is strongly fair, because the worker takes the due task
  of the smallest generation and a failing task sleeps for ten seconds. No fairness
  for callers' changes, failures, `Oversleep` or shutdown.
* *Admission*: every request's own steps, and time. A response ends because the request
  context closes its body. No fairness for starting, cancelling or editing.
* *Cache*: readers run, and `sync.Mutex` hands over to a goroutine that has waited 1 ms
  (strong fairness of `LockRefresh`).
* *Failover*: the server runs each request, and each upstream answers or fails in the end.
  The latter is an assumption on the environment: the configured upstream timeouts are
  off by default, and then only the client's leaving ends a silent upstream.
* *Accounting*: workers run, a handler that has its answer runs on, and main goes on
  after its five seconds. An answer may never come, a crash or a start need not happen,
  and the ten seconds the workers are given are not relied on.
* *Credential*: each request's own steps, and the flights' steps together: the provider
  answers, or the client's timeout does. Nothing is assumed of logins, samples, clocks or faults.

## 4. The proofs

All theorems hold for every value of the constants that satisfies the named
assumptions (`KeysAssumption`, `BoundAssumption`, `RowAssumption`, `LimitsAssumption`,
`ItemsAssumption`, `AsksAssumption`, `NamesAssumption`, `TimesAssumption`,
`BootstrapAssumption`, `QuotaAssumption`, `NoneAssumption`): finite sets of goroutines,
names that do not clash, positive limits. Bounds such as `MaxCalls` are arbitrary
numbers there. `Accounting` uses `ChargeAssumption` and `LogAssumption` (positive
capacities, and `None` is no request; `RequestsAssumption` says that `Sockets` and `Failing`
are requests). One theorem has a further hypothesis, written out in
its statement: `FailuresOnlyLengthen` needs `OnlyBackoff` (no upstream states a recovery time, and
first cooldowns respect the limit), because a stated time is replaced by whatever the next failure
asks for.

Every invariant and every action property that a run checks is a theorem; section 5 says
what the exceptions in the properties are.

| Module | Theorem | States |
|---|---|---|
| `HybridReplica_proofs` | `QueueTypeCorrect` | `wbSpec => []wbTypeOK` |
| | `QueueInvariants` | ... `[]QueueSafe` |
| | `LogLossIsCounted` | ... `[]NoSilentLogLoss` |
| | `MarksSurvive` | ... `NewestMarkSurvives` |
| | `ReplicaUsesQueue` | `Spec => wbSpec`: replication implements the queue |
| | `ReplicaQueueSafe` | so the queue's invariants hold in it |
| | `NothingIsForgotten`, `DeletesStayFinal` | `NothingForgotten`, `DeletesAreFinal` |
| | `PromiseIsKept` | `Spec => KeepsPromise`: replication implements `ReplicaContract` |
| `HybridBootstrap_proofs` | `TypeCorrect`, `NeverBehind`, `NothingTakenBack`, `HistoryIsComplete` | `TypeOK`, `SourceIsAhead`, `EditsSurvive`, `ImportedOnce` |
| `UpstreamAdmission_proofs` | `TypeCorrect`, `SlotsHeld`, `LimitsKept`, `WakeupsArrive` | `TypeOK`, `SlotsAreHeld`, `WithinLimits`, `NoLostWakeup` |
| | `MinuteIsKept`, `RetryIsExact` | `RollingMinute`, `RetryIsEarliest` |
| `ChannelCache_proofs` | `TypeCorrect`, `StaleWhileOwed`, `ReadsSettled` | `TypeOK`, `StaleOnlyWhileOwed`, `ReadsAreSettled` |
| `Failover_proofs` | `TypeCorrect`, `CooldownsAreBounded`, `VisitsTryKeys` | `TypeOK`, `WaitIsBounded`, `VisitTriesKey` |
| | `ExhaustionIsNoticed` | `ExhaustionNoticed`, for any number of requests at once |
| | `FailuresOnlyLengthen` | `FailuresNeverShorten`, under `OnlyBackoff` |
| | `ChannelsCoolWhenExhausted` | `ChannelCooledOnlyWhenExhausted`, for any number of requests, faults and stated times |
| | `FallbackReachesAChannel` | `FallbackServes`, likewise |
| `Accounting_proofs` | `TypeCorrect`, `NothingLostOrRepeated`, `StrandedRaced`, `CostKeepsUp` | `TypeOK`, `Conserved`, `OnlyRacingStranded`, `CostNotBehindLogs` |
| `TokenQuota_proofs` | `TypeCorrect`, `PlacesHeld`, `Revoked`, `LedgerCovered`, `Overshoot` | `TypeOK`, `PlacesAreHeld`, `RevocationHolds`, `MapsCoverLedger`, `OvershootBounded` |
| `OAuthCredentials_proofs` | `TypeCorrect`, `GrantKept`, `WritesKept`, `OnlyDeadDisabled` | `TypeOK`, `GrantNotLost`, `NothingUndone`, `DisabledOnlyIfDead` |

**The queue.** None of the four queue facts is inductive alone. `QueueInv` adds: paging is
only done for the reconciliation (`PagesAreFullSync`); a running task has a number not
above `nextGen` (`RunIsNumbered`); the task of a running page stays
queued unless the queue closed (`PageHasTask`), and when a page returns the cursor rests
unless a mark or a further page has renewed the task (`LastPageRests`), which is what
`finish`'s comparison of generations is for; a stored batch whose task is still queued
counts twice for a moment (`StoredTwice`). The proof first reduces the
actions to a dozen kinds of step (`QueueStep`: what they do to numbers, cursor,
counters) and shows the invariant for each kind.

**Replication.** `UseInv` says what the worker's program counter means for the queue
(`PageInv`) and that the callers' debts are within `MaxCalls` (`CallerInv`); with it,
each action is a queue step or leaves `wbVars` alone.

`NothingForgotten` follows a change from its commit to its copy, and is far from
inductive: it says nothing of what the worker has in its hands. `ReplicaInv` adds the ground facts
(names unique in SQLite, `RowsInv`; what the worker holds at each statement, `StepInv`; what
is left of a page lies after the cursor, `AheadInv`) and three arguments. `ReadInv`: what the
worker has read is what SQLite has, *or* somebody else will copy the channel again
(`Elsewhere`: an owed mark, a newer task, a reconciliation with the channel ahead of it), and a
channel that took the name since will be copied as well - which is why it is safe to read a row,
then its keys, then write, without a lock. `DoneInv`: a run that has succeeded leaves an equal
row or somebody else, so `finish` may remove the task. `DeadInv`: whatever is to be deleted is an
id that is used up and gone, from the commit to the run, hence `DeletesAreFinal`: no delete is ever
of a channel that exists. (Not that it is carried out; section 5 shows one that is not.)
`PromiseIsKept` is then a step-by-step refinement: a commit is `Commit` of one
channel, every other step `Replicate`, because rows that are not covered are equal before
and after (`NothingForgotten`) and only covered rows are written.

**Bootstrap.** Two inductive invariants. `ConfInv`: what each stage of a start knows of the
disk (`StartInv`), that a file without a marker is new or cut short (`NewFile`), and who is
ahead of whom: before an import is complete SQLite has nothing of its own (`Behind`),
afterwards everything (`Ahead`). `LogInv`: logs are in SQLite at most once (`LogsOnce`),
none from the future (`Past`), and whatever comes after the newest local log is still to be
imported (`TailHasRest`, `AllRecent`).

**Admission.** `SlotInv` is the conjunction of slot typing, `SlotsAreHeld`,
`WithinLimits` and `NoLostWakeup`; the step proof again goes by kinds (`Take`,
`Return`, `Hold`, `Idle`, `Queue`, ...). `MinuteInv` says that the events not older than a
minute are exactly the recent admissions, oldest first. It rests on lemmas about `Younger`, which
cuts an ordered list in two (`YoungerIsSuffix`, by counting; no induction is needed): dropping old
events before or after a tick gives the same (`YoungerOfAged`), which is why lazy expiry,
sweeps and refusals under other limits do no harm. `RetryIsExact` counts the events before and
after the one that has to expire.

**Cache.** `CacheInv`: besides the entries, a query result in a reader's hand is fit to
be stored *if* the generations have not moved (`LoadOK`), which is the reason for
generations; and settled versions never exceed the database.

**Failover.** `IInv` is `TypeOK`, what each request may hold at each stage (`Sound`:
e.g. a verdict to be written names a record and a bounded deadline; one that selects its
first key has one; `since` is not later than the clock), bounded records (`Within`), and
`DurationsLimited` when there are only back-offs. From it follows, step by step, that a bump
never shortens unless its reading is older: a doubled or saturated wait, counted from a later
reading, ends later. Three invariants stand on it.
`NoticeInv`: if all keys (models) of a channel that is not cooled are cooling, some request is at a
stage from which it will see that, or is about to clear one (`NoticesKeys`,
`NoticesModels`); of requests that fail together the last to mark is such a one. `CoolInv`:
whatever a request carries from reading the keys to the promotion still holds when it writes,
or the request is `crossed` (`Carries`, `Backed`), so a channel that is out of use for exhaustion
is so no later than any of its keys or any of its models (`Justified`), unless a success is
clearing it. `ServeInv`: a request that is owed an upstream and has not been sent has a
channel in front of it that takes it (`Goes`): time only ends cooldowns, and whoever cools the
last of its channels makes it one of `LeftOut`. None of the three bounds the number of
requests or of faults.

**Accounting.** The sums of `Conserved` are argued about one request at a time: `ChargeOf`,
`LogOf` and `CostOf` are equations over the places of its charge, entry and cost, and
lemmas about `Times` say what `Append` and `Tail` do to a count; a charge that is booked and
reported as failed counts once. They are inductive only
together with where the process is: `StopInv` (a worker that has ended has left nothing but
what racing handlers send later; a handler past the check of the flag is in `racing`),
`DownInv` (between two processes there is only the database) and `RetryInv`. `CostOf` counts the rows
that will still be written, which is what makes `CostNotBehindLogs` hold at every later commit.

**Token limits.** `PlaceInv` counts places (`PlacesAreHeld`, and a loader that waits has no
place, `LoaderWaits`). `RevokeInv` follows a disabling through a reload that read the row
before it. `CoverInv` is the one with content: the maps cover the row (`Covers`) counting the
charge that the worker has applied to the maps and not yet to the row (`Due`), also in the
copy a loader holds (`CacheCovers`, `QuietRead`: a quiet reload is one during which no
charge passed). `SpendInv` adds to `PlaceInv` that days do not run backwards (`DayInv`) and
that a request that may still be billed was admitted under the ceiling (`Watched`).

**Credential.** `TypeInv` adds to the types what the locals of a request or a flight are at
each stage (`GoodRequest`, `GoodFlight`), in particular that a remembered or reported
refusal names a dead grant, and that a token to be stored is newer than the one it
replaces; `NothingUndone` and `DisabledOnlyIfDead` follow step by step. `GrantNotLost`
needs `Grants`: a number is `Known` if row, cache, a request or a flight has it as a grant
or the provider has closed it; whatever a flight or a login waits to store is not yet known
(`PendingFresh`, `LoginFresh`); the row's grant belongs to one access token, hence to one
flight (`KeyOfRow`); and a used-up grant in the row has a flight with its successor
(`SuccessorComes`). Steps are first reduced to nine kinds (`Kinds`: a request moves on,
joins, a flight moves, stores, is issued a token, ...), and each kind is shown to keep the
invariants.

Only model-checked: the liveness properties (`ReplicaConverges`, `LiveRowsConverge`, `ProbesServed`,
`LookupsReturn`, `RequestsEnd`, `ShutdownEnds`, `ChargesSettle`, `CallersReturn`), which need fairness
and ENABLED, out of the prover's reach; that `Younger` is the loop of `reserve`, for lists up to
four (the loop is a recursive definition, about which nothing can be proved for all lists);
and the finding of section 5, which is a counterexample.

## 5. Disagreements found

One run ends with a counterexample to what the code's own documentation says:
`hybrid_replica_deleted` - "replacing a task with the same key is therefore safe"
(`hybrid_writebehind.go:19`). A `sync` mark by an operation outside the credential mutex can
replace the `delete` mark of a channel; the copy then fails for ever, and the channel stays
on the primary. Live rows do converge (`hybrid_drift`).

The others were met while modelling. Each is a named exception of a property or an
outcome the model includes, so the passing runs say exactly how far the code's promise goes.

* *Write-behind.* A failed task is "retried after 10 seconds" (`hybrid_store.go:22`). If the
  retry falls due between the two clock readings of `nextTask` (`hybrid_writebehind.go:274`,
  278), the delay is not positive, `wait` takes it for "no task", and the worker sleeps until
  the next mark: `Oversleep`. `LiveRowsConverge` excepts `Overslept`.
* *Bootstrap.* A start that dies after the SQLite file was created and before it was marked
  makes the next one adopt the empty file as the source (`factory.go:131`, 188): `cutShort`. A
  process that serves although its log import failed moves the newest local log past what
  was missing, and no later import fetches it (`sync_manager.go:94`): `gap`.
* *Cache.* The caches are refreshed "so that the next request does not hit stale data"
  (`proxy_error.go:680`), but the cooldown tables have no generation: a query from before
  the clear is stored after the invalidation and served until its time to live ends.
  `CooldownReadsAreSettled` states it and does not hold.
* *Failover.* A channel is cooled only while all its models or all its keys are
  (`README.zh-CN.md:237`): `promoteExhaustedResources` decides on what it read
  (`manager.go:450`). A success in between is undone for the channel as a whole, and so is
  any earlier deadline that a key or a model gets in between: `crossed`. A promotion may also fall
  between the three clears of a success, and the store may refuse to clear the channel.
  `ChannelCooledOnlyWhenExhausted` excepts these and no other.
* *Fallback.* The guide promises that when every channel is cooling, the one that recovers
  first goes on serving (`docs/guide/configuration.zh-CN.md:86`). But the fallback is asked only
  once, when the candidates are chosen: a request whose channels are all put out of use by others before it gets to them finds
  none and gets 503 (`proxy_handler.go:978`). `FallbackServes` excepts the requests to which a
  step of another one has done that (`LeftOut`), and those refused a place.
* *Back-off.* Concurrent failures of one key read the clock (`manager.go:329`, 357, 418) before the
  transaction that computes the next deadline (`sql/cooldown.go:412-447`). Once the wait has
  saturated, one that is served late writes a deadline earlier than the one it finds, by the
  difference of the readings: the second alternative of `FailuresNeverShorten`. And a back-off
  replaces a longer recovery time that an upstream stated (`sql/cooldown.go:428`;
  `README.zh-CN.md:236`): the property is about back-offs only (`OnlyBackoff`).
* *Accounting.* A handler that has found the server running may send its charge
  (`proxy_error.go:598`) or log entry (`log_service.go:233`) after the worker has drained its
  queue and gone: neither written nor counted. `OnlyRacingStranded` says that these are the only ones.
  A charge whose UPDATE was made although its answer did not come in time is reported as failed
  (`proxy_error.go:531-537`), and one of a deleted token vanishes without a word (533).
* *Token limits.* The comment at `proxy_handler.go:881` accepts that requests in flight
  overshoot a limit; queued charges and the one being applied do as well, and
  `OvershootBounded` counts them. A request that evicts a token it saw expired does so by
  hash, also if it was renewed meanwhile (`auth_service.go:650`), and a reload that spans
  midnight installs the amounts of the day before: both are `gap`. Two administrators who
  edit a token at once overwrite each other's fields, because an edit reads the row and
  writes it back without comparing (`admin_auth_tokens.go:349`); the model has one, and merges
  its read and its write. And an edit that disables a token and is answered with an error although
  the row was changed does not reload (`admin_auth_tokens.go:395`): requests are served until the
  next regular reload. `RevocationHolds` is about edits that were answered as done.
* *Credential.* "Dropping the cache is always safe" (`codex_credentials.go:543`), but a request
  that then parses the configuration it came with may hold tokens from long ago; after a 401
  it can be given the rejected token once more, and the channel is cooled (in `Failover`'s
  terms) although the row has a good one. A late answer puts a replaced login back into
  memory; it is redirected on its next refresh. Neither loses the grant or disables
  the channel, which is what is checked.

## 6. What is not modelled

* *Within the modelled parts.* Replication of tokens, settings, logs and quota ledgers
  (writers of their own on the same queue). Several URLs of one channel, same-channel
  retries, models restricted to some keys, routing of `*`, and the order
  of candidates: it is a free choice in `Failover`, which covers every order the code can
  produce. How a channel with a login walks through `Failover` is not modelled:
  `OAuthCredentials` has its credential up to the point where the channel is cooled. The caches in front of the cooldown tables are taken as current in
  `Failover`; what they may do is in `ChannelCache`. Requests per minute of a token, model
  and channel restrictions, web sessions. The credential managers of the other
  providers, which have the pattern of the Codex one with differences of their own. SQL text,
  dialects, migrations, the batching of imports.
* *Mergers and limits of a module*, also named in their headers. `HybridReplica` and
  `ReplicaContract`: an operation on several channels (`BatchPatchConfigs`, `hybrid_store.go:325`)
  commits them together and marks one after the other, here a commit and its mark are of one
  channel; keys, URL states and cooldowns of a channel are read in one step, so a copy mixes row and
  content of two moments but not the parts of the content. `HybridBootstrap`: logs have unique
  times, so a millisecond whose logs `time > ?` (`sync_manager.go:265`) cuts in two is not covered.
  `OAuthCredentials`: one account and plan; a refresh or login that changes it restarts the quota
  epoch and drops samples on purpose (`codexauth/credential.go:432`, `admin_codex_auth.go:775`);
  personal access tokens (`codex_credentials.go:171`) are left out. `TokenQuota`: one charge per
  request, one administrator. `Failover`: the candidates are chosen in one step.
* *Whole parts, planned*: setting and ledger replication, retries and URLs, the
  smooth round-robin, active requests, sessions.
* *Whole parts, left out*: protocol translation, privacy masking, SSE parsing, pricing
  (sequential data transformation without shared state); provider logins (external
  protocols, partly generated SDK code); web UI; classification tables (text matching whose
  outcomes are the inputs of `Failover`). These are by far the most lines of the repository,
  which is why the mapped share of its lines is small: what is mapped is its concurrency,
  persistence and accounting.

## 7. Plan

Done: write-behind and replication, bootstrap, admission, cache, failover, accounting with
shutdown, token limits, the Codex credential. The project keeps to a dozen runs and about
forty properties; a new one has to be worth more than one that is there. In this order:

1. Proofs: every invariant and action property of the runs is proved. Left are facts that
   liveness rests on (what decreases with each turn of a loop) as action properties.
2. `SettingReplica`, `LedgerReplica` - the other writers on `PrimaryWriteBehind`: values
   captured at commit, and the name conflict that deletes ledgers.
3. `ChannelRetries` - deferred cooldowns and the shared counter, as an extension of
   `Failover`; URL choice.
4. The credential managers of the other providers as instances of one module.
5. `SmoothWeighted` - the round-robin against its definition on bounded weights;
   `ActiveRequests`.
