------------------------- MODULE UpstreamAdmission -------------------------
(***************************************************************************)
(* Admission of upstream requests to one channel: the concurrency limiter  *)
(* (src/internal/app/channel_concurrency_limiter.go), the RPM limiter      *)
(* (channel_rpm_limiter.go) and the two ways through both of them:         *)
(* reserveUpstreamRequest, which gives up at once (proxy traffic), and     *)
(* waitForUpstreamRequest, which waits for capacity (background probes).   *)
(*                                                                         *)
(* Each limiter has a mutex of its own, so a request takes its slot, asks  *)
(* for its place in the rolling minute, and gives the slot back, in        *)
(* critical sections that other requests run between.  A request uses the  *)
(* limits of the channel configuration it was given; an administrator may  *)
(* change them, or delete the channel, at any time.                        *)
(*                                                                         *)
(* Time: the minute has Window ticks, and an event is represented by its   *)
(* age in ticks, up to Window (ts.After(cutoff) fails from there on).      *)
(***************************************************************************)
EXTENDS Naturals, FiniteSets, Sequences

CONSTANTS
  Requests,   \* the attempts to send something to this channel
  Limits,     \* the limits the channel may have; 0 is "no limit"
  Window,     \* ticks in a minute
  Earlier     \* what the minute may hold before them: ages, oldest first

\* Events are recorded in the order of their time.
OldestFirst(ages) == \A i, j \in DOMAIN ages : i <= j => ages[i] >= ages[j]

ASSUME LimitsAssumption ==
  /\ IsFiniteSet(Requests)
  /\ Limits # {} /\ Limits \subseteq [conc : Nat, rpm : Nat]
  /\ Window \in Nat \ {0}
  /\ Earlier # {} /\ Earlier \subseteq {ages \in Seq(0..Window-1) : OldestFirst(ages)}

VARIABLES
  active,    \* l.active[channelID]; 0 when the map has no entry
  watchers,  \* the requests selecting on the current l.changed[channelID]
  events,    \* l.requests[id], oldest first
  limits,    \* the limits in the channel configuration
  deleted,   \* the channel has been deleted
  stage,     \* of every request: where it is,
  kind,      \*   which of the two ways it takes,
  lim,       \*   the limits in the configuration it was given,
  wait,      \*   retryAfter, then what is left of its timer
  recent     \* history: ages of the requests admitted in the last minute

reqVars == <<stage, kind, lim, wait>>
vars == <<active, watchers, events, limits, deleted, stage, kind, lim, wait, recent>>

-----------------------------------------------------------------------------
(* Types *)

Stages == {"idle",
           "new",       \* the caller holds a channel configuration
           "blocked",   \* select on ctx.Done() and changed
           "slot",      \* has a slot, about to ask the RPM limiter
           "refused",   \* no place in this minute: the slot must go back
           "backoff",   \* the slot is back, the timer not yet created
           "sleeping",  \* on the timer of waitForUpstreamRequest
           "sending",   \* in client.Do
           "open",      \* the response body is being read
           "closed",    \* ... and has been closed
           "done"}      \* rejected, cancelled, failed, or closed by everybody

Kinds == {"proxy", "probe"}

Probing(r) == kind[r] = "probe"

\* The stages in which a request owes the limiter a release.
Holding == {"slot", "refused", "sending", "open"}
Holders == {r \in Requests : stage[r] \in Holding /\ lim[r].conc > 0}

Goto(r, s) ==
  /\ stage' = [stage EXCEPT ![r] = s]
  /\ UNCHANGED <<kind, lim, wait>>

-----------------------------------------------------------------------------
(* The concurrency limiter *)

\* Mutant of HasRoom: the limit is off by one.
HasRoom_OneMore(l) == l.conc = 0 \/ active <= l.conc

HasRoom(l) == l.conc = 0 \/ active < l.conc

\* acquire and acquireContext when there is room.
Acquire(r) ==
  /\ stage[r] = "new"
  /\ HasRoom(lim[r])
  /\ active' = IF lim[r].conc = 0 THEN active ELSE active + 1
  /\ Goto(r, "slot")
  /\ UNCHANGED <<watchers, events, limits, deleted, recent>>

\* acquire fails: ErrChannelConcurrencyExceeded.
Reject(r) ==
  /\ stage[r] = "new" /\ ~Probing(r)
  /\ ~HasRoom(lim[r])
  /\ Goto(r, "done")
  /\ UNCHANGED <<active, watchers, events, limits, deleted, recent>>

\* acquireContext waits for the next release.
Block(r) ==
  /\ stage[r] = "new" /\ Probing(r)
  /\ ~HasRoom(lim[r])
  /\ watchers' = watchers \cup {r}
  /\ Goto(r, "blocked")
  /\ UNCHANGED <<active, events, limits, deleted, recent>>

\* The changed channel it waits on has been closed: it tries again.
Wake(r) ==
  /\ stage[r] = "blocked" /\ r \notin watchers
  /\ Goto(r, "new")
  /\ UNCHANGED <<active, watchers, events, limits, deleted, recent>>

\* Mutant of Release: the waiters are not woken.
Release_Silent(r) ==
  IF lim[r].conc = 0 THEN UNCHANGED <<active, watchers>>
  ELSE /\ active' = IF active <= 1 THEN 0 ELSE active - 1
       /\ UNCHANGED watchers

\* The release function of a slot, when it runs for the first time.
Release(r) ==
  IF lim[r].conc = 0 THEN UNCHANGED <<active, watchers>>
  ELSE /\ active' = IF active <= 1 THEN 0 ELSE active - 1
       /\ watchers' = {}

-----------------------------------------------------------------------------
(* The RPM limiter *)

\* Those of `ages` that are below a bound; as the oldest come first, the last ones.
Younger(ages, bound) ==
  SubSeq(ages, Cardinality({i \in DOMAIN ages : ages[i] >= bound}) + 1, Len(ages))

\* Mutant of Fresh: the cutoff drops an event that is still in the minute.
Fresh_DropsEarly(evs) == Younger(evs, Window - 1)

Fresh(evs) == Younger(evs, Window)

\* Mutant of RetryAfter: waits for the oldest event whatever the limit is.
RetryAfter_Oldest(evs, limit) == Window - evs[1]

\* A lower limit may need several events to expire.
RetryAfter(evs, limit) == Window - evs[Len(evs) - limit + 1]

\* Mutant of Reserve: a refused request goes on without giving its slot back.
Reserve_KeepsSlot(r) ==
  LET kept  == Fresh(events)
      limit == lim[r].rpm
  IN  /\ stage[r] = "slot"
      /\ \/ /\ limit = 0
            /\ Goto(r, "sending")
            /\ UNCHANGED <<events, recent>>
         \/ /\ limit # 0 /\ Len(kept) < limit
            /\ events' = Append(kept, 0)
            /\ recent' = Append(recent, 0)
            /\ Goto(r, "sending")
         \/ /\ limit # 0 /\ Len(kept) >= limit
            /\ events' = kept
            /\ stage' = [stage EXCEPT ![r] = "backoff"]
            /\ wait' = [wait EXCEPT ![r] = RetryAfter(kept, limit)]
            /\ UNCHANGED <<kind, lim, recent>>
      /\ UNCHANGED <<active, watchers, limits, deleted>>

\* reserve, called with the slot held.
Reserve(r) ==
  LET kept  == Fresh(events)
      limit == lim[r].rpm
  IN  /\ stage[r] = "slot"
      /\ \/ /\ limit = 0
            /\ Goto(r, "sending")
            /\ UNCHANGED <<events, recent>>
         \/ /\ limit # 0 /\ Len(kept) < limit
            /\ events' = Append(kept, 0)
            /\ recent' = Append(recent, 0)
            /\ Goto(r, "sending")
         \/ /\ limit # 0 /\ Len(kept) >= limit
            /\ events' = kept
            /\ stage' = [stage EXCEPT ![r] = "refused"]
            /\ wait' = [wait EXCEPT ![r] = RetryAfter(kept, limit)]
            /\ UNCHANGED <<kind, lim, recent>>
      /\ UNCHANGED <<active, watchers, limits, deleted>>

\* A refused request gives its slot back; proxy traffic gives up
\* (channelRPMExceededError), a probe starts a timer.
GiveBack(r) ==
  /\ stage[r] = "refused"
  /\ Release(r)
  /\ Goto(r, IF Probing(r) THEN "backoff" ELSE "done")
  /\ UNCHANGED <<events, limits, deleted, recent>>

StartTimer(r) ==
  /\ stage[r] = "backoff"
  /\ Goto(r, "sleeping")
  /\ UNCHANGED <<active, watchers, events, limits, deleted, recent>>

TimerFires(r) ==
  /\ stage[r] = "sleeping" /\ wait[r] = 0
  /\ Goto(r, "new")
  /\ UNCHANGED <<active, watchers, events, limits, deleted, recent>>

\* CleanupExpired, the periodic sweep.
CleanupExpired ==
  /\ events # Fresh(events)
  /\ events' = Fresh(events)
  /\ UNCHANGED <<active, watchers, limits, deleted, reqVars, recent>>

-----------------------------------------------------------------------------
(* The request *)

\* A selected channel configuration carries the limits of this moment.
Start(r, k) ==
  /\ stage[r] = "idle" /\ ~deleted
  /\ stage' = [stage EXCEPT ![r] = "new"]
  /\ kind' = [kind EXCEPT ![r] = k]
  /\ lim' = [lim EXCEPT ![r] = limits]
  /\ UNCHANGED <<wait, active, watchers, events, limits, deleted, recent>>

\* The context of a waiting probe ends.
Cancel(r) ==
  /\ stage[r] \in {"blocked", "sleeping"}
  /\ watchers' = watchers \ {r}
  /\ Goto(r, "done")
  /\ UNCHANGED <<active, events, limits, deleted, recent>>

\* doReservedUpstreamRequest: no response, or one without a body.
SendFails(r) ==
  /\ stage[r] = "sending"
  /\ Release(r)
  /\ Goto(r, "done")
  /\ UNCHANGED <<events, limits, deleted, recent>>

\* The body is wrapped in a releaseOnCloseReadCloser.
Respond(r) ==
  /\ stage[r] = "sending"
  /\ Goto(r, "open")
  /\ UNCHANGED <<active, watchers, events, limits, deleted, recent>>

CloseBody(r) ==
  /\ stage[r] = "open"
  /\ Release(r)
  /\ Goto(r, "closed")
  /\ UNCHANGED <<events, limits, deleted, recent>>

\* Mutant of CloseAgain: the release function is not guarded by a sync.Once.
CloseAgain_ReleasesTwice(r) ==
  /\ stage[r] = "closed"
  /\ Release(r)
  /\ Goto(r, "done")
  /\ UNCHANGED <<events, limits, deleted, recent>>

\* The deferred Close and the one of context.AfterFunc both run; the second
\* one finds rc.once done.
CloseAgain(r) ==
  /\ stage[r] = "closed"
  /\ Goto(r, "done")
  /\ UNCHANGED <<active, watchers, events, limits, deleted, recent>>

-----------------------------------------------------------------------------
(* The channel and the clock *)

EditLimits(new) ==
  /\ ~deleted
  /\ limits' = new
  /\ UNCHANGED <<active, watchers, events, deleted, reqVars, recent>>

\* deleteChannelByID; requests on their way keep the configuration they have.
DeleteChannel ==
  /\ ~deleted
  /\ deleted' = TRUE
  /\ events' = << >>
  /\ UNCHANGED <<active, watchers, limits, reqVars, recent>>

Older(age) == IF age < Window THEN age + 1 ELSE Window

Tick ==
  /\ events' = [i \in DOMAIN events |-> Older(events[i])]
  /\ recent' = Younger([i \in DOMAIN recent |-> Older(recent[i])], Window)
  /\ wait' = [r \in Requests |->
                IF stage[r] = "sleeping" /\ wait[r] > 0 THEN wait[r] - 1 ELSE wait[r]]
  /\ UNCHANGED <<active, watchers, limits, deleted, stage, kind, lim>>

-----------------------------------------------------------------------------
(* Specification *)

\* A server that has been running: the requests of the minute are answered.
Init ==
  /\ active = 0
  /\ watchers = {}
  /\ events \in Earlier
  /\ limits \in Limits
  /\ deleted = FALSE
  /\ stage = [r \in Requests |-> "idle"]
  /\ kind = [r \in Requests |-> "proxy"]
  /\ lim = [r \in Requests |-> limits]
  /\ wait = [r \in Requests |-> 0]
  /\ recent = events

RequestStep(r) ==
  \/ Acquire(r) \/ Reject(r) \/ Block(r) \/ Wake(r)
  \/ Reserve(r) \/ GiveBack(r) \/ StartTimer(r) \/ TimerFires(r)
  \/ SendFails(r) \/ Respond(r) \/ CloseBody(r) \/ CloseAgain(r)

Next ==
  \/ \E r \in Requests :
       \/ \E k \in Kinds : Start(r, k)
       \/ RequestStep(r)
       \/ Cancel(r)
  \/ CleanupExpired
  \/ \E new \in Limits : EditLimits(new)
  \/ DeleteChannel
  \/ Tick

Spec == Init /\ [][Next]_vars

-----------------------------------------------------------------------------
(* Properties *)

\* What the concurrency limiter and the requests consist of.
SlotTypeOK ==
  /\ active \in Nat
  /\ watchers \subseteq Requests
  /\ limits \in Limits
  /\ deleted \in BOOLEAN
  /\ stage \in [Requests -> Stages]
  /\ kind \in [Requests -> Kinds]
  /\ lim \in [Requests -> Limits]

\* The type invariant of both limiters, the requests and the history.
TypeOK ==
  /\ SlotTypeOK
  /\ wait \in [Requests -> 0..Window]
  /\ events \in Seq(0..Window)
  /\ recent \in Seq(0..Window)

\* The counter is the number of requests that still owe a release: on every
\* path (rejected by RPM, failed, no body, closed twice) a slot goes back
\* exactly once, so the channel neither starves nor admits too many.
SlotsAreHeld == active = Cardinality(Holders)

\* Of the requests in flight at most n were admitted under a limit up to n:
\* however the limits are edited meanwhile, no request joins a channel that is
\* full for it.
WithinLimits ==
  \A l \in Limits :
    Cardinality({r \in Holders : lim[r].conc <= l.conc}) <= l.conc

\* A probe that has not been woken has no slot to take: no release happens
\* between the check of the counter and the wait that the probe misses.
NoLostWakeup ==
  \A r \in watchers : stage[r] = "blocked" /\ active >= lim[r].conc

\* The recorded requests of any minute, the new one included, fit the limit of
\* the request that is admitted, also after lazy expiry and sweeps.
RollingMinute ==
  [][\A r \in Requests :
       stage[r] = "slot" /\ stage'[r] = "sending" /\ lim[r].rpm > 0 /\ ~deleted
         => Len(recent') <= lim[r].rpm]_vars

\* retryAfter is the earliest moment at which a retry can succeed: the minute
\* stays full for that long, and is not full any more then.
RetryIsEarliest ==
  [][\A r \in Requests :
       stage[r] = "slot" /\ stage'[r] = "refused" /\ ~deleted =>
         \A d \in 0..Window :
           d >= wait'[r] <=> Len(Younger(recent, Window - d)) < lim[r].rpm]_vars

-----------------------------------------------------------------------------
(* Liveness: goroutines run, time passes, and every response ends (the      *)
(* request context of a proxy request closes the body at the latest).       *)

Fairness ==
  /\ WF_vars(Tick)
  /\ \A r \in Requests : WF_vars(RequestStep(r))

LiveSpec == Spec /\ Fairness

\* A probe is never stuck waiting for capacity: with finitely many requests it
\* is admitted or cancelled in the end.
ProbesServed ==
  \A r \in Requests :
    (Probing(r) /\ stage[r] = "new") ~> (stage[r] \in {"sending", "done"})
=============================================================================
