------------------------------ MODULE Failover ------------------------------
(***************************************************************************)
(* How a proxied request fails over: which channels it may use, which keys *)
(* of a channel it tries, and which cooldowns its failures leave behind    *)
(* for the requests after it.  The candidate filter is in                  *)
(* src/internal/app/selector_cooldown.go, the channel loop in              *)
(* proxy_handler.go, the key loop in proxy_forward.go, the decision what   *)
(* to cool in src/internal/cooldown/manager.go and the cooldown records in *)
(* src/internal/storage/sql/cooldown.go.                                   *)
(*                                                                         *)
(* Every access to the store is a step of its own: between a request's     *)
(* mark, the reads that look whether the channel is exhausted, and the     *)
(* write that cools the channel, other requests run.  The clock is read    *)
(* apart from the store: an access uses a reading taken at any time since  *)
(* the step before it, so accesses may take effect in another order than   *)
(* that of the times they write.                                           *)
(*                                                                         *)
(* Scope: API-key channels with one URL, without same-channel retries; all *)
(* keys are enabled and serve every configured model, every channel has    *)
(* all the models, and a request names one of them.  The caches in front   *)
(* of the cooldown tables (ChannelCache) are taken to be current, and      *)
(* priority, health and rotation, which only order the candidates, are a   *)
(* free choice among them.                                                 *)
(***************************************************************************)
EXTENDS Integers, FiniteSets

CONSTANTS
  Clients,          \* each has one request at a time
  Channels,
  Keys,             \* of every channel
  Models,           \* of every channel
  Whole,            \* names the cooldown of a channel as a whole
  None,
  KeyFallback,      \* the channels with RetryOtherKeysOnFailure
  MaxKeyRetries,    \* max_key_retries
  FallbackEnabled,  \* cooldown_fallback_enabled
  Initials,         \* first cooldowns of the various status codes
  MinCooldown,      \* cooldown_min_seconds
  MaxCooldown,      \* cooldown_max_seconds
  Waits,            \* recovery times an upstream may state, from now
  MaxTime,          \* bound on the clock
  MaxFaults         \* bound on failing store accesses

ASSUME NamesAssumption ==
  /\ IsFiniteSet(Keys) /\ Keys # {} /\ IsFiniteSet(Models) /\ Models # {}
  /\ Keys \cap Models = {} /\ Whole \notin Keys \cup Models
  /\ None \notin Channels \cup Keys \cup Models
  /\ KeyFallback \subseteq Channels /\ FallbackEnabled \in BOOLEAN

ASSUME TimesAssumption ==
  /\ MaxKeyRetries \in Nat \ {0} /\ Initials \subseteq Nat \ {0}
  /\ MinCooldown \in Nat \ {0} /\ MaxCooldown \in Nat /\ MinCooldown <= MaxCooldown
  /\ Waits \subseteq Nat \ {0} /\ MaxTime \in Nat /\ MaxFaults \in Nat

VARIABLES
  now,     \* the clock, in the ticks of the cooldown columns
  cool,    \* cooldown_until and cooldown_duration_ms of every record
  faults,  \* store accesses that have failed
  req,     \* the request of every client
  reason,  \* history: what the cooldown of each channel as a whole rests on
  crossed, \* history: the clients about to cool a channel by what they read
           \* before a key or a model of it came back early
  owed     \* history: the clients whose request has not reached an upstream, was
           \* not refused a place, and has not lost to other requests all that
           \* was left of the channels it had chosen

vars == <<now, cool, faults, req, reason, crossed, owed>>

-----------------------------------------------------------------------------
(* Cooldown records: of a channel as a whole, of its keys and its models *)

Things == Channels \X (Keys \cup Models \cup {Whole})

KeysOf(c) == {c} \X Keys
ModelsOf(c) == {c} \X Models
Channel(c) == <<c, Whole>>

CoolingAt(x, t) == cool[x].until > t

Cooling(x) == CoolingAt(x, now)

AllKeysCooling(c) == \A x \in KeysOf(c) : Cooling(x)
AllModelsCooling(c) == \A x \in ModelsOf(c) : Cooling(x)

Later(a, b) == IF a > b THEN a ELSE b

\* The smallest of a finite, non-empty set of times.
Earliest(times) == CHOOSE t \in times : \A u \in times : t <= u

\* The exponential back-off at the reading t of the clock: twice the previous
\* cooldown, within the limits.  A record without one starts with `initial`,
\* which no limit applies to.
Backoff(record, initial, t) ==
  LET previous == IF record.dur > 0 THEN record.dur ELSE record.until - t
      doubled  == IF previous < MaxCooldown \div 2 THEN 2 * previous ELSE MaxCooldown
  IN  IF previous <= 0 THEN initial ELSE Later(doubled, MinCooldown)

\* Mutant of Bumped: once saturated it starts again from the minimum.
Bumped_Restarts(record, initial, t) ==
  LET wait == Backoff(record, initial, t)
  IN  IF record.dur >= MaxCooldown THEN [until |-> t + MinCooldown, dur |-> MinCooldown]
      ELSE [until |-> t + wait, dur |-> wait]

\* Mutant of Bumped: the limit is not applied.
Bumped_Unlimited(record, initial, t) ==
  LET wait == IF record.dur > 0 THEN 2 * record.dur ELSE initial
  IN  [until |-> t + wait, dur |-> wait]

\* A record after a failure whose end the upstream did not state ...
Bumped(record, initial, t) ==
  LET wait == Backoff(record, initial, t)
  IN  [until |-> t + wait, dur |-> wait]

\* ... and a record set to cool until a given time.
SetTo(until, t) == [until |-> until, dur |-> Later(until - t, 0)]

Clear == [until |-> 0, dur |-> 0]

\* What a failure does: the record it cools, until when (0: as back-off
\* says), and where to go on if that does not exhaust the channel: to another
\* key, or to another channel, which a failure of the channel itself goes to
\* without looking.
Verdicts == [on : Things \cup {None}, until : Nat, then : {"key", "model", "channel"}]

\* A failure as the classifier sees it: what it blames, the recovery time the
\* upstream states (0: none), and whether another key would meet it as well.
Failures == [scope : {"key", "model", "channel"}, wait : {0} \cup Waits, shared : BOOLEAN]

FallsBack(c, f) ==
  /\ c \in KeyFallback
  /\ f.scope # "key" /\ ~f.shared
  /\ f.scope = "channel" => f.wait = 0

Verdict(c, k, m, f) ==
  [on    |-> CASE f.scope = "key" \/ FallsBack(c, f) -> <<c, k>>
               [] f.scope = "model" /\ ~FallsBack(c, f) -> <<c, m>>
               [] OTHER -> Channel(c),
   until |-> IF f.wait > 0 THEN now + f.wait ELSE 0,
   then  |-> IF FallsBack(c, f) THEN "key" ELSE f.scope]

-----------------------------------------------------------------------------
(* Requests *)

Stages == {"ended",    \* answered, or never asked
           "visit",    \* between two candidates
           "select",   \* in the key loop of a channel
           "sent",     \* waiting for the upstream
           "mark",     \* a failure, to be written to its cooldown record
           "readKeys", "readModels", "promote",  \* is the channel exhausted?
           "clearChannel", "clearKey", "clearModel"}  \* after a success

Requests ==
  [at       : Stages,
   model    : Models,
   left     : SUBSET Channels,        \* candidates not visited yet
   fallback : BOOLEAN,                \* the candidate is a CooldownFallback
   chan     : Channels \cup {None},   \* the channel being visited,
   seen     : [Keys -> Nat],          \*   the cooldowns of its keys on entry,
   tried    : SUBSET Keys,            \*   the keys tried,
   key      : Keys \cup {None},       \*   the one in use
   verdict  : Verdicts,               \* what its failure does
   since    : Nat,                    \*   no reading of the clock is older
   keyUntil : Nat,                    \* promoteExhaustedResources: keyUntil and
   modUntil : Nat]                    \*   modelUntil, 0 when not all are cooling

NoVerdict == [on |-> None, until |-> 0, then |-> "channel"]

\* A request at stage `at` that visits no channel.
Between(r, at) ==
  [r EXCEPT !.at = at, !.chan = None, !.seen = [k \in Keys |-> 0], !.tried = {},
            !.key = None, !.verdict = NoVerdict, !.since = 0, !.keyUntil = 0, !.modUntil = 0]

Ended(r) == [Between(r, "ended") EXCEPT !.left = {}, !.fallback = FALSE]

Becomes(i, r) == req' = [req EXCEPT ![i] = r]

\* A step that touches no cooldown record.
OnlyRequest == UNCHANGED <<now, cool, faults, reason, crossed, owed>>

\* The same, when request i gets as far as the gateway can take it.
Settles(i) == owed' = owed \ {i} /\ UNCHANGED <<now, cool, faults, reason, crossed>>

At(i, stage) == req[i].at = stage

-----------------------------------------------------------------------------
(* Choosing channels *)

\* The channel has a combination of model and key that is not cooling.
Usable(c, m) == ~Cooling(Channel(c)) /\ ~Cooling(<<c, m>>) /\ ~AllKeysCooling(c)

\* When it next has one.
ReadyAt(c, m) ==
  Later(Later(now, cool[Channel(c)].until),
        Later(cool[<<c, m>>].until, Earliest({cool[x].until : x \in KeysOf(c)})))

\* Mutant of Candidates: a channel is taken as soon as one of its keys is free.
Candidates_KeysOnly(m) == {c \in Channels : ~AllKeysCooling(c)}

Candidates(m) == {c \in Channels : Usable(c, m)}

\* filterCooldownChannels for a new request: the channels with something to
\* offer; if there are none, the one that recovers first, unless that is
\* switched off.
Ask(i, m) ==
  LET r == [req[i] EXCEPT !.at = "visit", !.model = m] IN
  /\ At(i, "ended")
  /\ IF Candidates(m) # {} THEN Becomes(i, [r EXCEPT !.left = Candidates(m)])
     ELSE IF FallbackEnabled THEN
       \E c \in Channels :
         /\ \A d \in Channels : ReadyAt(c, m) <= ReadyAt(d, m)
         /\ Becomes(i, [r EXCEPT !.left = {c}, !.fallback = TRUE])
     ELSE Becomes(i, Ended(r))
  /\ owed' = owed \cup {i}
  /\ UNCHANGED <<now, cool, faults, reason, crossed>>

\* Of a record, what a reader with this clock can ever use.
StillCooling(x) == IF Cooling(x) THEN cool[x].until ELSE 0

\* The check on entering a channel, which its own cooldown has no part in.
Offers(c, m) == ~Cooling(<<c, m>>) /\ ~AllKeysCooling(c)

\* tryChannelWithKeys, up to its key loop.  The keys are read once; a channel
\* whose model or keys are all cooling by now is left as it is, unless it is
\* the fallback.
Visit(i, c) ==
  LET r == [req[i] EXCEPT !.left = @ \ {c}] IN
  /\ At(i, "visit") /\ c \in req[i].left
  /\ IF Offers(c, r.model) \/ r.fallback THEN
       Becomes(i, [r EXCEPT !.at = "select", !.chan = c,
                            !.seen = [k \in Keys |-> StillCooling(<<c, k>>)]])
     ELSE Becomes(i, r)
  /\ OnlyRequest

\* No candidate is left: the last failure is the answer, or a 503.
Answer(i) ==
  /\ At(i, "visit") /\ req[i].left = {}
  /\ Becomes(i, Ended(req[i]))
  /\ OnlyRequest

-----------------------------------------------------------------------------
(* The keys of a channel *)

KeyLimit(c) ==
  IF c \in KeyFallback \/ Cardinality(Keys) < MaxKeyRetries THEN Cardinality(Keys)
  ELSE MaxKeyRetries

\* Mutant of Offered: the keys' cooldowns are read again.
Offered_Rereads(r) == {k \in Keys \ r.tried : ~Cooling(<<r.chan, k>>)}

\* The keys to choose from: not tried, and not cooling when the visit began
\* or since recovered; for a fallback, failing that, the first to recover.
Offered(r) ==
  LET untried == Keys \ r.tried
      ready   == {k \in untried : r.seen[k] <= now}
  IN  IF ready = {} /\ r.fallback
        THEN {k \in untried : \A l \in untried : r.seen[k] <= r.seen[l]}
        ELSE ready

\* Mutant of SelectKey: it is not noted that the key was tried.
SelectKey_Forgets(i, k) ==
  LET r == req[i] IN
  /\ At(i, "select") /\ Cardinality(r.tried) < KeyLimit(r.chan) /\ k \in Offered(r)
  /\ Becomes(i, [r EXCEPT !.at = "sent", !.key = k])
  /\ OnlyRequest

SelectKey(i, k) ==
  LET r == req[i] IN
  /\ At(i, "select") /\ Cardinality(r.tried) < KeyLimit(r.chan) /\ k \in Offered(r)
  /\ Becomes(i, [r EXCEPT !.at = "sent", !.key = k, !.tried = @ \cup {k}])
  /\ OnlyRequest

\* The channel has no further key to try: on with its last failure.
KeysTried(i) ==
  LET r == req[i] IN
  /\ At(i, "select")
  /\ Cardinality(r.tried) >= KeyLimit(r.chan) \/ Offered(r) = {}
  /\ Becomes(i, Between(r, "visit"))
  /\ OnlyRequest

\* The request context is done: no cooldown, no further channel.
ClientLeaves(i) ==
  /\ req[i].at \in {"visit", "select", "sent"}
  /\ Becomes(i, Ended(req[i]))
  /\ Settles(i)

\* The RPM or concurrency limit of the channel is reached; nothing is sent.
Busy(i) ==
  /\ At(i, "sent")
  /\ Becomes(i, Between(req[i], "visit"))
  /\ Settles(i)

\* An error the client has made, which no other channel can help.
Reject(i) ==
  /\ At(i, "sent")
  /\ Becomes(i, Ended(req[i]))
  /\ Settles(i)

\* A request that leaves the key loop for good: what the loop knew is gone.
OutOfLoop(r) == [r EXCEPT !.seen = [k \in Keys |-> 0], !.tried = {}]

Succeed(i) ==
  /\ At(i, "sent")
  /\ Becomes(i, [OutOfLoop(req[i]) EXCEPT !.at = "clearChannel", !.left = {}, !.fallback = FALSE])
  /\ Settles(i)

\* The verdict v on a failure of request r, about to be carried out.
Judged(r, v) ==
  [IF v.then = "key" THEN r ELSE OutOfLoop(r)
     EXCEPT !.at = "mark", !.key = None, !.verdict = v, !.since = now]

Fail(i, f) ==
  LET r == req[i] IN
  /\ At(i, "sent")
  /\ Becomes(i, Judged(r, Verdict(r.chan, r.key, r.model, f)))
  /\ Settles(i)

\* The stream breaks when part of it is with the client: the cooldown is the
\* same, but there is nothing left to try.
BreakOff(i, f) ==
  LET r == [req[i] EXCEPT !.left = {}, !.fallback = FALSE]
      v == Verdict(r.chan, r.key, r.model, f)
  IN  /\ At(i, "sent")
      /\ Becomes(i, Judged(r, [v EXCEPT !.then = IF @ = "key" THEN "model" ELSE @]))
      /\ Settles(i)

-----------------------------------------------------------------------------
(* Cooldowns *)

\* On to the next key, or the next channel.
Resumed(r) ==
  IF r.verdict.then = "key"
    THEN [r EXCEPT !.at = "select", !.verdict = NoVerdict, !.since = 0,
                   !.keyUntil = 0, !.modUntil = 0]
    ELSE Between(r, "visit")

\* What follows a write, whether or not the store has made it.
AfterWrite(r) ==
  CASE r.at = "mark" /\ r.verdict.then = "channel" -> Between(r, "visit")
    [] r.at = "mark" /\ r.verdict.then # "channel" ->
         [r EXCEPT !.at = "readKeys", !.since = now,
                   !.verdict = [NoVerdict EXCEPT !.then = r.verdict.then]]
    [] r.at = "promote"      -> Between(r, "visit")
    [] r.at = "clearChannel" -> [r EXCEPT !.at = "clearKey"]
    [] r.at = "clearKey"     -> [r EXCEPT !.at = "clearModel"]
    [] OTHER                 -> Ended(r)

\* The times that the readings of the clock for this step may show.
Readings(i) == req[i].since..now

\* Mutant of Exhausted: a channel is cooled when all its models and all its
\* keys are cooling.
Exhausted_Both(r) == r.keyUntil > 0 /\ r.modUntil > 0

Exhausted(r) == r.keyUntil > 0 \/ r.modUntil > 0

\* The requests that have chosen channels, none of which offers them anything.
LeftOut ==
  {j \in Clients : /\ At(j, "visit") /\ req[j].left # {} /\ ~req[j].fallback
                   /\ \A c \in req[j].left : ~Offers(c, req[j].model)}

Written(i, x, record) ==
  /\ cool' = [cool EXCEPT ![x] = record]
  /\ Becomes(i, AfterWrite(req[i]))
  /\ UNCHANGED <<now, faults>>
  /\ owed' = owed \ (LeftOut' \ LeftOut)

\* A key or a model comes back earlier than was known so far.
Lowers(x, record) == x[2] # Whole /\ record.until < cool[x].until

\* The requests about to cool channel c because its keys or models were cooling.
Crosses(c) == {j \in Clients : req[j].chan = c /\ Exhausted(req[j])}

\* What a cooldown of the channel rests on when its keys or models no longer count.
Doubtful(why) == IF why = "exhausted" THEN "crossed" ELSE why

\* SetKeyCooldown, SetModelCooldown, SetChannelCooldown, or their Bump.
Mark(i, initial, t) ==
  LET v == req[i].verdict
      c == v.on[1]
      new == IF v.until > 0 THEN SetTo(v.until, t) ELSE Bumped(cool[v.on], initial, t)
      early == Lowers(v.on, new)
  IN  /\ At(i, "mark")
      /\ Written(i, v.on, new)
      /\ crossed' = IF early THEN crossed \cup Crosses(c) ELSE crossed
      /\ reason' = [reason EXCEPT ![c] = IF v.on = Channel(c) THEN "failure"
                                        ELSE IF early THEN Doubtful(@) ELSE @]

\* allEnabledKeysCooldownUntil, by the clock of promoteExhaustedResources.
ReadKeys(i, t) ==
  LET keys == KeysOf(req[i].chan) IN
  /\ At(i, "readKeys")
  /\ Becomes(i, [req[i] EXCEPT
       !.at = "readModels", !.since = t,
       !.keyUntil = IF \A x \in keys : CoolingAt(x, t)
                      THEN Earliest({cool[x].until : x \in keys}) ELSE 0])
  /\ OnlyRequest

\* The channel is to be cooled, and then left.
Exhausting(r) ==
  [OutOfLoop(r) EXCEPT !.at = "promote", !.verdict = NoVerdict]

\* allConfiguredModelsCooldownUntil, and whether there is anything to promote.
\* The rows are those that cool by a second, later reading of the clock.
ReadModels(i, t) ==
  LET models == ModelsOf(req[i].chan)
      r == [req[i] EXCEPT
              !.modUntil = IF \A x \in models : CoolingAt(x, t)
                             THEN Earliest({cool[x].until : x \in models}) ELSE 0]
  IN  /\ At(i, "readModels")
      /\ Becomes(i, IF Exhausted(r) THEN Exhausting(r) ELSE Resumed(r))
      /\ OnlyRequest

\* Some request has cleared channel c and is about to clear a key or model of it.
BeingCleared(c) ==
  \E j \in Clients : req[j].chan = c /\ req[j].at \in {"clearKey", "clearModel"}

\* SetChannelCooldown until the channel has something to offer again.
Promote(i, t) ==
  LET c == req[i].chan
      until == Later(req[i].keyUntil, req[i].modUntil)
  IN  /\ At(i, "promote")
      /\ Written(i, Channel(c), SetTo(until, t))
      /\ crossed' = crossed \ {i}
      /\ reason' = [reason EXCEPT ![c] =
                      IF i \in crossed \/ BeingCleared(c) THEN "crossed" ELSE "exhausted"]

\* Mutant of Cleared: the channel itself stays cooled.
Cleared_NotChannel(r) ==
  IF r.at = "clearModel" THEN <<r.chan, r.model>> ELSE <<r.chan, r.key>>

\* A success clears the channel, the key and the model it went through.
Cleared(r) ==
  CASE r.at = "clearChannel" -> Channel(r.chan)
    [] r.at = "clearKey"     -> <<r.chan, r.key>>
    [] OTHER                 -> <<r.chan, r.model>>

ClearNext(i) ==
  LET c == req[i].chan
      x == Cleared(req[i])
  IN  /\ req[i].at \in {"clearChannel", "clearKey", "clearModel"}
      /\ Written(i, x, Clear)
      /\ crossed' = IF Lowers(x, Clear) THEN crossed \cup Crosses(c) ELSE crossed
      /\ reason' = [reason EXCEPT ![c] = IF x = Channel(c) THEN "exhausted" ELSE @]

\* A write the store refuses is logged; the request goes on as if it was made.
WriteFails(i) ==
  LET c == req[i].chan IN
  /\ req[i].at \in {"mark", "promote", "clearChannel", "clearKey", "clearModel"}
  /\ faults < MaxFaults /\ faults' = faults + 1
  /\ Becomes(i, AfterWrite(req[i]))
  /\ crossed' = crossed \ {i}
  /\ reason' = [reason EXCEPT ![c] = IF At(i, "clearChannel") THEN Doubtful(@) ELSE @]
  /\ UNCHANGED <<now, cool, owed>>

\* Keys or models that cannot be read count as not all cooling.
ReadFails(i, t) ==
  LET r == req[i] IN
  /\ faults < MaxFaults /\ faults' = faults + 1
  /\ \/ At(i, "readKeys") /\ Becomes(i, [r EXCEPT !.at = "readModels", !.since = t])
     \/ At(i, "readModels") /\ Becomes(i, IF Exhausted(r) THEN Exhausting(r) ELSE Resumed(r))
  /\ UNCHANGED <<now, cool, reason, crossed, owed>>

Tick ==
  /\ now < MaxTime /\ now' = now + 1
  /\ UNCHANGED <<cool, faults, req, reason, crossed, owed>>

-----------------------------------------------------------------------------

Init ==
  /\ now = 1 /\ faults = 0
  /\ cool = [x \in Things |-> Clear]
  /\ reason = [c \in Channels |-> "exhausted"] /\ crossed = {} /\ owed = {}
  /\ \E m \in Models :
       req = [i \in Clients |->
         [at |-> "ended", model |-> m, left |-> {}, fallback |-> FALSE, chan |-> None,
          seen |-> [k \in Keys |-> 0], tried |-> {}, key |-> None, verdict |-> NoVerdict,
          since |-> 0, keyUntil |-> 0, modUntil |-> 0]]

\* What the gateway does for a request, and what its upstream does.
Proceed(i) ==
  \/ (\E c \in Channels : Visit(i, c)) \/ Answer(i)
  \/ (\E k \in Keys : SelectKey(i, k)) \/ KeysTried(i)
  \/ (\E t \in Readings(i) : (\E n \in Initials : Mark(i, n, t))
                              \/ ReadKeys(i, t) \/ ReadModels(i, t) \/ Promote(i, t))
  \/ ClearNext(i)

Respond(i) ==
  \/ Busy(i) \/ Reject(i) \/ Succeed(i)
  \/ \E f \in Failures : Fail(i, f) \/ BreakOff(i, f)

Next ==
  \/ \E i \in Clients :
       \/ (\E m \in Models : Ask(i, m)) \/ Proceed(i) \/ Respond(i)
       \/ ClientLeaves(i) \/ WriteFails(i) \/ (\E t \in Readings(i) : ReadFails(i, t))
  \/ Tick

Spec == Init /\ [][Next]_vars

\* The server runs every request, and every upstream answers in the end.
Fairness == \A i \in Clients : WF_vars(Proceed(i) \/ Respond(i))

FairSpec == Spec /\ Fairness

-----------------------------------------------------------------------------
(* Properties *)

TypeOK ==
  /\ now \in Nat /\ faults \in 0..MaxFaults
  /\ cool \in [Things -> [until : Nat, dur : Nat]]
  /\ req \in [Clients -> Requests]
  /\ reason \in [Channels -> {"exhausted", "failure", "crossed"}]
  /\ crossed \in SUBSET Clients /\ owed \in SUBSET Clients

\* Nothing is ever out of use for longer than the back-off limit, a first
\* cooldown or what an upstream asked for, however many requests fail on it,
\* one after the other or together (backoff, cooldown tables, promotion).
WaitIsBounded ==
  \A x \in Things : \E w \in Waits \cup Initials \cup {MaxCooldown} : cool[x].until <= now + w

\* What the clock showed to the failure that made this record.
ReadingOf(record) == record.until - record.dur

\* A failure never brings a key or a model back earlier than an older failure,
\* of this or another request, has left it, unless it read the clock before the
\* other did and the store served it later: then by no more than what lies
\* between the two readings.  Apart from that only a success ends a cooldown
\* early.  (Where no upstream states a recovery time, Waits = {}, and first
\* cooldowns respect the limit: a stated time is replaced by whatever the next
\* failure asks for.)
FailuresNeverShorten ==
  [][\A c \in Channels, n \in Keys \cup Models :
       LET old == cool[<<c, n>>]
           new == cool'[<<c, n>>]
       IN  \/ new = Clear \/ new.until >= old.until
           \/ /\ ReadingOf(new) < ReadingOf(old)
              /\ old.until - new.until <= ReadingOf(old) - ReadingOf(new)]_vars

\* A request that enters a channel tries at least one key there, whatever
\* other requests do to the keys between the entry check and the choice of a
\* key: the path that cools the channel for having no key at all, with 503,
\* is not taken for requests that name a model.
VisitTriesKey ==
  \A i \in Clients : At(i, "select") /\ req[i].tried = {} => Offered(req[i]) # {}

\* No request is about to look at or to change the cooldowns of channel c.
Settled(c) ==
  \A i \in Clients : req[i].chan = c => req[i].at \in {"select", "sent", "mark"}

\* Of requests that fail on a channel together, each looks only once whether
\* the channel is exhausted, and each may look before the others have marked
\* their key; still the channel is cooled when the last of them is through.
ExhaustionNoticed ==
  \A c \in Channels :
    faults = 0 /\ Settled(c) /\ (AllKeysCooling(c) \/ AllModelsCooling(c))
      => cool[Channel(c)].until > 0

\* A channel is out of use as a whole only because a failure of its own says so
\* or as long as all its keys or all its models are cooling
\* (README.zh-CN.md:237, promoteExhaustedResources).  The exceptions: a key or a
\* model came back early, by a success or by a failure with an earlier end, after
\* a request that went on to cool the channel had read it; the channel was cooled
\* while a success was clearing it piece by piece; the store refused to clear it.
ChannelCooledOnlyWhenExhausted ==
  \A c \in Channels :
    Cooling(Channel(c)) =>
      reason[c] # "exhausted" \/ AllKeysCooling(c) \/ AllModelsCooling(c)

\* As long as the fallback is switched on, a request is not answered with the
\* gateway's own 503 before an upstream was asked for it
\* (docs/guide/configuration.zh-CN.md:86).  The exceptions are a channel that has
\* no place for it, and other requests that put out of use everything that was
\* left on its list: the channel loop ends there, and nobody chooses again
\* (proxy_handler.go:978).
FallbackServes == FallbackEnabled => \A i \in owed : ~At(i, "ended")

\* Every request is answered: it runs out of channels and of keys.
RequestsEnd == \A i \in Clients : ~At(i, "ended") ~> At(i, "ended")

=============================================================================
