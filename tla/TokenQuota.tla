------------------------------ MODULE TokenQuota ------------------------------
(***************************************************************************)
(* How the limits of an API token are enforced: the token's row in the     *)
(* database, the maps of AuthService that requests are checked against     *)
(* (src/internal/app/auth_service.go), the reloads that copy the row into  *)
(* them, the administrator who edits it, and the charges that finished     *)
(* requests send to both through a queue (src/internal/app/proxy_error.go).*)
(*                                                                         *)
(* The check of a request and the charge for it are far apart, the maps    *)
(* and the row are charged one after the other, and a reload reads the row *)
(* and replaces the maps in two steps; requests and charges run between.   *)
(*                                                                         *)
(* Scope: one token, one of its cost windows (the daily and the monthly    *)
(* one work alike; the total is a window that never ends), every request   *)
(* is charged at most once, and 1.  (A request that fails over may charge  *)
(* for every attempt: a request with a place then stands for as many       *)
(* charges as it has attempts.)  The edit's read of the row belongs to its *)
(* write: two administrators do not edit the token at the same time.  The  *)
(* queue's part in a shutdown is the subject of ChargeQueue.               *)
(***************************************************************************)
EXTENDS Naturals, FiniteSets, Sequences

CONSTANTS
  Requests,     \* goroutines that serve requests, one after the other
  Nobody,
  Admin,        \* the administrator's handler
  Limits,       \* the cost limits it sets; 0: none
  MaxConns,     \* max_concurrency of the token
  QueueCap,     \* capacity of tokenStatsCh
  MaxRequests,  \* bound: requests in one behaviour
  MaxDay,       \* bound: the last day
  MaxEdits      \* bound: edits of the row

ASSUME QuotaAssumption ==
  /\ IsFiniteSet(Requests)
  /\ Nobody \notin Requests \cup {Admin} /\ Admin \notin Requests
  /\ Limits \subseteq Nat /\ Limits # {}
  /\ {MaxConns, QueueCap} \subseteq Nat \ {0}
  /\ {MaxRequests, MaxDay, MaxEdits} \subseteq Nat

VARIABLES
  today,   \* the day of the clock
  passed,  \* the token's first expiry has passed
  row,     \* the row of auth_tokens
  cache,   \* what the maps of AuthService hold of the token
  reload,  \* authTokensReloadAt: how much the maps are trusted
  loader,  \* the holder of authTokensRefreshMu, and what it has read
  active,  \* authTokenActiveReqs
  at,      \* of every goroutine: where its request is
  queue,   \* tokenStatsCh: for every charge the day its request completed
  hand,    \* the charge the worker applies
  admin,   \* what the administrator's handler does; unsure: its last edit was
           \*   made, but answered with an error
  count,   \* requests so far, edits so far (only to bound them)
  ghost    \* histories, used by properties only: see Ghost

vars == <<today, passed, row, cache, reload, loader, active, at, queue, hand, admin, count, ghost>>

-----------------------------------------------------------------------------
(* The token *)

Days == 0..MaxDay

\* expires says that the token has the first expiry, not a later one.
Row == [alive : BOOLEAN, expires : BOOLEAN, limit : Nat, used : Nat, day : Days]

\* known: the hash is in authTokens; limited: ... and in authTokenCostLimits.
Cache == [known : BOOLEAN, expires : BOOLEAN, limited : BOOLEAN,
          limit : Nat, used : Nat, day : Days]

Absent == [known |-> FALSE, expires |-> FALSE, limited |-> FALSE, limit |-> 0, used |-> 0, day |-> 0]

\* A charge that completed on day d: a newer day opens a new window, and an
\* older one is not added any more (addCost, and CASE in updateTokenStatsQuery).
Charged(x, d) ==
  IF d < x.day THEN x
  ELSE [x EXCEPT !.used = IF d = x.day THEN @ + 1 ELSE 1, !.day = d]

\* What the window holds on a given day (applyPeriod, CurrentPeriodCostUsed).
UsedOn(x, d) == IF x.day = d THEN x.used ELSE 0

Larger(a, b) == IF a > b THEN a ELSE b

-----------------------------------------------------------------------------
(* Requests *)

Stages == {"idle",
           "refresh",   \* in refreshAuthTokensIfStale, the maps are not fresh
           "resolve",   \* about to look the token up
           "evict",     \* it has found it expired
           "slot",      \* about to take a place of max_concurrency
           "check",     \* has it; about to look at the cost limit
           "running",
           "leaving"}   \* the charge is sent; the place goes back

\* The stages in which a request has a place.
Placed  == {"check", "running", "leaving"}
Holders == {r \in Requests : at[r] \in Placed}

\* The requests that will be charged for.
Billable == {r \in Requests : at[r] = "running"}

Goto(r, s) == at' = [at EXCEPT ![r] = s]

\* Histories: the charges sent today; the highest limit a request has passed;
\* whether the maps lack a charge that the row has (gap), or have ever lacked
\* one, or been without a limit to check (torn).
Ghost == [spent : Nat, ceiling : Nat, gap : BOOLEAN, torn : BOOLEAN]

Expired(x) == x.expires /\ passed

Arrive(r) ==
  /\ at[r] = "idle" /\ count.requests < MaxRequests
  /\ count' = [count EXCEPT !.requests = @ + 1]
  /\ Goto(r, IF reload = "fresh" THEN "resolve" ELSE "refresh")
  /\ UNCHANGED <<today, passed, row, cache, reload, loader, active, queue, hand, admin, ghost>>

\* The lock is free: somebody else has reloaded meanwhile, or has failed to
\* less than a second ago: 503.
Refreshed(r) ==
  /\ at[r] = "refresh" /\ loader.who = Nobody
  /\ \/ reload = "fresh" /\ Goto(r, "resolve")
     \/ reload = "failed" /\ Goto(r, "idle")
  /\ UNCHANGED <<today, passed, row, cache, reload, loader, active, queue, hand, admin, count, ghost>>

\* resolveAuthToken: an unknown token gets 401.
Resolve(r) ==
  /\ at[r] = "resolve"
  /\ Goto(r, IF ~cache.known THEN "idle" ELSE IF Expired(cache) THEN "evict" ELSE "slot")
  /\ UNCHANGED <<today, passed, row, cache, reload, loader, active, queue, hand, admin, count, ghost>>

\* The lazy eviction removes the token by its hash, whatever is there now.
Evict(r) ==
  /\ at[r] = "evict"
  /\ cache' = Absent
  /\ ghost' = [ghost EXCEPT !.gap = TRUE, !.torn = TRUE]
  /\ Goto(r, "idle")
  /\ UNCHANGED <<today, passed, row, reload, loader, active, queue, hand, admin, count>>

\* Mutant of TakeSlot: a refused request keeps its place in the counter.
TakeSlot_Leaks(r) ==
  /\ at[r] = "slot"
  /\ active' = active + 1
  /\ Goto(r, IF cache.known /\ active + 1 > MaxConns THEN "idle" ELSE "check")
  /\ UNCHANGED <<today, passed, row, cache, reload, loader, queue, hand, admin, count, ghost>>

\* acquireTokenConcurrencySlot.  Of a token that has just gone, the limit has
\* gone too.
TakeSlot(r) ==
  /\ at[r] = "slot"
  /\ \/ /\ cache.known /\ active + 1 > MaxConns
        /\ Goto(r, "idle")
        /\ UNCHANGED active
     \/ /\ ~cache.known \/ active + 1 <= MaxConns
        /\ Goto(r, "check")
        /\ active' = active + 1
  /\ UNCHANGED <<today, passed, row, cache, reload, loader, queue, hand, admin, count, ghost>>

Release == active' = IF active <= 1 THEN 0 ELSE active - 1

\* Mutant of CheckCost: the limit itself may still be spent.
CheckCost_Late(r) ==
  /\ at[r] = "check"
  /\ \/ /\ cache.limited /\ UsedOn(cache, today) > cache.limit
        /\ Goto(r, "idle") /\ Release
        /\ UNCHANGED ghost
     \/ /\ ~cache.limited \/ UsedOn(cache, today) <= cache.limit
        /\ Goto(r, "running")
        /\ ghost' = [ghost EXCEPT !.ceiling = Larger(@, cache.limit), !.torn = @ \/ ~cache.limited]
        /\ UNCHANGED active
  /\ UNCHANGED <<today, passed, row, cache, reload, loader, queue, hand, admin, count>>

\* enforceTokenLimits: no limit, or not yet reached; otherwise 429, and the
\* place goes back.
CheckCost(r) ==
  /\ at[r] = "check"
  /\ \/ /\ cache.limited /\ UsedOn(cache, today) >= cache.limit
        /\ Goto(r, "idle") /\ Release
        /\ UNCHANGED ghost
     \/ /\ ~cache.limited \/ UsedOn(cache, today) < cache.limit
        /\ Goto(r, "running")
        /\ ghost' = [ghost EXCEPT !.ceiling = Larger(@, cache.limit), !.torn = @ \/ ~cache.limited]
        /\ UNCHANGED active
  /\ UNCHANGED <<today, passed, row, cache, reload, loader, queue, hand, admin, count>>

\* The request completes and its charge is enqueued ...
Finish(r) ==
  /\ at[r] = "running"
  /\ Len(queue) < QueueCap
  /\ queue' = Append(queue, today)
  /\ ghost' = [ghost EXCEPT !.spent = @ + 1]
  /\ Goto(r, "leaving")
  /\ UNCHANGED <<today, passed, row, cache, reload, loader, active, hand, admin, count>>

\* ... or there is none, or it is dropped: the queue stayed full.
FinishUncharged(r) ==
  /\ at[r] = "running"
  /\ Goto(r, "leaving")
  /\ UNCHANGED <<today, passed, row, cache, reload, loader, active, queue, hand, admin, count, ghost>>

Leave(r) ==
  /\ at[r] = "leaving"
  /\ Goto(r, "idle") /\ Release
  /\ UNCHANGED <<today, passed, row, cache, reload, loader, queue, hand, admin, count, ghost>>

-----------------------------------------------------------------------------
(* applyTokenStatsUpdate, in tokenStatsWorker: the maps first, then the row *)

HandStages == {"empty", "taken", "cached"}

TakeCharge ==
  /\ hand.stage = "empty" /\ queue # << >>
  /\ hand' = [stage |-> "taken", day |-> Head(queue)]
  /\ queue' = Tail(queue)
  /\ UNCHANGED <<today, passed, row, cache, reload, loader, active, at, admin, count, ghost>>

\* AddCostToCache; nothing happens to a token without a limit in the maps.
AddCostToCache ==
  /\ hand.stage = "taken"
  /\ hand' = [hand EXCEPT !.stage = "cached"]
  /\ cache' = IF cache.limited THEN Charged(cache, hand.day) ELSE cache
  /\ loader' = [loader EXCEPT !.quiet = FALSE]
  /\ ghost' = IF cache.limited THEN ghost ELSE [ghost EXCEPT !.gap = TRUE, !.torn = TRUE]
  /\ UNCHANGED <<today, passed, row, reload, active, at, queue, admin, count>>

\* UpdateTokenStats; its failure is only logged.
UpdateTokenStats ==
  /\ hand.stage = "cached"
  /\ hand' = [stage |-> "empty", day |-> 0]
  /\ row' \in {row, Charged(row, hand.day)}
  /\ UNCHANGED <<today, passed, cache, reload, loader, active, at, queue, admin, count, ghost>>

-----------------------------------------------------------------------------
(* Reloads, under authTokensRefreshMu *)

NoLoader == [who |-> Nobody, read |-> Absent, quiet |-> FALSE]

\* What ListActiveAuthTokens and the loop over its rows make of the row.
Listed ==
  IF ~row.alive \/ Expired(row) THEN Absent
  ELSE [known |-> TRUE, expires |-> row.expires, limited |-> row.limit > 0,
        limit |-> row.limit,
        used  |-> IF row.limit > 0 THEN UsedOn(row, today) ELSE 0,
        day   |-> IF row.limit > 0 THEN today ELSE 0]

MayLoad(who) ==
  /\ loader.who = Nobody
  /\ \/ who \in Requests /\ at[who] = "refresh" /\ reload = "stale"
     \/ who = Admin /\ admin = "edited"

\* The read; `quiet` notes whether a charge is applied between it and the end.
LoadRead(who) ==
  /\ MayLoad(who)
  /\ loader' = [who |-> who, read |-> Listed, quiet |-> hand.stage # "cached"]
  /\ UNCHANGED <<today, passed, row, cache, reload, active, at, queue, hand, admin, count, ghost>>

\* Mutant of Merged: the row replaces what the maps have counted.
Merged_Replaces(old, read) == read

\* The maps have counted what the row may not have yet: within a window the
\* larger number wins.
Merged(old, read) ==
  IF old.limited /\ read.limited /\ old.day = read.day
  THEN [read EXCEPT !.used = Larger(old.used, read.used)] ELSE read

\* The step of whoever has reloaded, or failed to.
Loaded(ok) ==
  \/ /\ loader.who \in Requests
     /\ Goto(loader.who, IF ok THEN "resolve" ELSE "idle")
     /\ UNCHANGED admin
  \/ /\ loader.who = Admin
     /\ admin' = "idle"
     /\ UNCHANGED at

\* A window of the maps is lost with its charges: the token was not limited
\* before, is not any more, or the read is of an older day.
Torn == \/ ~cache.limited \/ ~loader.read.limited
        \/ cache.day > loader.read.day

\* The maps are replaced; if the web sessions of a token that is gone cannot be
\* revoked, that is a failure after all.
LoadInstall ==
  /\ loader.who # Nobody
  /\ cache' = Merged(cache, loader.read)
  /\ reload' \in {"fresh", "failed"}
  /\ ghost' = [ghost EXCEPT !.gap = (@ \/ Torn) /\ ~(loader.quiet /\ loader.read.day = today),
                            !.torn = @ \/ Torn]
  /\ Loaded(reload' = "fresh")
  /\ loader' = NoLoader
  /\ UNCHANGED <<today, passed, row, active, queue, hand, count>>

\* Mutant of LoadFails: the maps stay trusted until they are due.
LoadFails_KeepsTrust ==
  /\ loader.who # Nobody
  /\ Loaded(FALSE)
  /\ loader' = NoLoader
  /\ UNCHANGED <<today, passed, row, cache, reload, active, queue, hand, count, ghost>>

\* The database cannot be read: the maps stay, but are not trusted any more.
LoadFails ==
  /\ loader.who # Nobody
  /\ reload' = "failed"
  /\ Loaded(FALSE)
  /\ loader' = NoLoader
  /\ UNCHANGED <<today, passed, row, cache, active, queue, hand, count, ghost>>

-----------------------------------------------------------------------------
(* The administrator and the clock *)

\* HandleUpdateAuthToken commits, and ReloadAuthTokens is next; or the answer of
\* the commit is an error: then it returns without a reload.
Edit(alive, expires, limit) ==
  /\ admin \in {"idle", "unsure"} /\ count.edits < MaxEdits
  /\ row' = [row EXCEPT !.alive = alive, !.expires = @ /\ expires, !.limit = limit]
  /\ admin' \in {"edited", "unsure"}
  /\ count' = [count EXCEPT !.edits = @ + 1]
  /\ UNCHANGED <<today, passed, cache, reload, loader, active, at, queue, hand, ghost>>

\* authTokenReloadInterval, or the second after a failure, is over.
GrowsStale ==
  /\ reload # "stale"
  /\ reload' = "stale"
  /\ UNCHANGED <<today, passed, row, cache, loader, active, at, queue, hand, admin, count, ghost>>

ExpiryPasses ==
  /\ ~passed
  /\ passed' = TRUE
  /\ UNCHANGED <<today, row, cache, reload, loader, active, at, queue, hand, admin, count, ghost>>

Midnight ==
  /\ today < MaxDay
  /\ today' = today + 1
  /\ ghost' = [ghost EXCEPT !.spent = 0]
  /\ UNCHANGED <<passed, row, cache, reload, loader, active, at, queue, hand, admin, count>>

-----------------------------------------------------------------------------
Init ==
  /\ today = 0 /\ passed = FALSE
  /\ \E l \in Limits, e \in BOOLEAN :
       /\ row = [alive |-> TRUE, expires |-> e, limit |-> l, used |-> 0, day |-> 0]
       /\ cache = [known |-> TRUE, expires |-> e, limited |-> l > 0, limit |-> l, used |-> 0, day |-> 0]
       /\ ghost = [spent |-> 0, ceiling |-> 0, gap |-> l = 0, torn |-> l = 0]
  /\ reload = "fresh"
  /\ loader = NoLoader
  /\ active = 0
  /\ at = [r \in Requests |-> "idle"]
  /\ queue = << >>
  /\ hand = [stage |-> "empty", day |-> 0]
  /\ admin = "idle"
  /\ count = [requests |-> 0, edits |-> 0]

RequestStep(r) ==
  \/ Arrive(r) \/ Refreshed(r) \/ Resolve(r) \/ Evict(r) \/ TakeSlot(r) \/ CheckCost(r)
  \/ Finish(r) \/ FinishUncharged(r) \/ Leave(r)

Next ==
  \/ \E r \in Requests : RequestStep(r)
  \/ TakeCharge \/ AddCostToCache \/ UpdateTokenStats
  \/ \E who \in Requests \cup {Admin} : LoadRead(who)
  \/ LoadInstall \/ LoadFails
  \/ \E a, e \in BOOLEAN, l \in Limits : Edit(a, e, l)
  \/ GrowsStale \/ ExpiryPasses \/ Midnight

Spec == Init /\ [][Next]_vars

-----------------------------------------------------------------------------
(* Properties *)

\* The types of the row, the maps, the handlers and the histories; the maps of
\* the token go together, and the channel keeps its capacity.
TypeOK ==
  /\ today \in Days /\ passed \in BOOLEAN
  /\ row \in Row /\ cache \in Cache
  /\ cache.limited => cache.known
  /\ reload \in {"fresh", "stale", "failed"}
  /\ loader \in [who : Requests \cup {Admin, Nobody}, read : Cache, quiet : BOOLEAN]
  /\ loader.read.limited => loader.read.known
  /\ active \in Nat
  /\ at \in [Requests -> Stages]
  /\ queue \in Seq(Days) /\ Len(queue) <= QueueCap
  /\ hand \in [stage : HandStages, day : Days]
  /\ admin \in {"idle", "edited", "unsure"}
  /\ count \in [requests : 0..MaxRequests, edits : 0..MaxEdits]
  /\ ghost \in Ghost

\* The counter is the number of requests that still have a place, on every way
\* out and whatever becomes of the token meanwhile: places neither leak, which
\* would lock the token out, nor come back twice.
PlacesAreHeld == active = Cardinality(Holders)

\* The maps are never behind the row, so a limit the ledger has reached is
\* enforced: unless a charge was applied while the token had no entry, or a
\* window was replaced, and no quiet reload has been made since.
MapsCoverLedger ==
  cache.limited /\ ~ghost.gap /\ row.day = today => UsedOn(cache, today) >= row.used

\* What is spent of a window exceeds the highest limit checked by less than
\* what can be under way unseen: the requests with a place, the queue, and the
\* charge in the worker's hand.
OvershootBounded ==
  ~ghost.torn => ghost.spent + Cardinality(Billable) <= ghost.ceiling + MaxConns + QueueCap

\* A token that has been disabled is not served from the maps once the edit is
\* answered: they do not know it any more, or are not trusted.  The exception is
\* an edit that was made but answered with an error (admin_auth_tokens.go:395):
\* the maps are served until they are due.
RevocationHolds ==
  admin = "idle" /\ ~row.alive /\ cache.known => reload # "fresh"
=============================================================================
