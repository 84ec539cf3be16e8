-------------------------- MODULE Failover_proofs --------------------------
(***************************************************************************)
(* Proofs about Failover, for any number of clients, channels, keys and    *)
(* models, any back-off parameters and any number of store faults:         *)
(* cooldowns are bounded, no failure brings a key or a model back earlier  *)
(* than an earlier failure put it out of use, a channel whose keys or      *)
(* models are all cooling is noticed by whoever fails on it last, a        *)
(* channel cools only when it is exhausted or failed itself, and with the  *)
(* fallback on every request gets to a channel; each up to what the        *)
(* comment of the property excepts.                                        *)
(*                                                                         *)
(* None holds of the cooldown records by themselves: a request carries     *)
(* times it has read (or was told) across the steps of others, and writes  *)
(* them later.  The inductive invariant IInv therefore bounds the times in *)
(* the requests too (Sound) and the durations the next back-off is         *)
(* computed from (DurationsLimited).  On it rest NoticeInv (somebody who   *)
(* will cool an exhausted channel, or is about to clear it, is on the      *)
(* way), CoolInv (what a request carries to a promotion was a reading of   *)
(* the records, which still hold unless somebody cleared them, and then    *)
(* the history says so) and ServeInv (a request that has got nowhere has a *)
(* channel left, or the history says who put it out of use).               *)
(***************************************************************************)
EXTENDS Failover, FiniteSetTheorems, TLAPS, WellFoundedInduction

\* The most that a cooldown may still last at time `now`.
Within(t) == \E w \in Waits \cup Initials \cup {MaxCooldown} : t <= now + w

\* A request that enters a channel with something to try there.
HasKey(r) == r.fallback \/ \E k \in Keys : r.seen[k] <= now

\* A request that is consistent in itself, and the times it carries.
Shape(r) ==
  /\ r \in Requests
  /\ r.at \notin {"ended", "visit"} => r.chan \in Channels
  /\ r.at \in {"sent", "clearChannel", "clearKey", "clearModel"} => r.key \in Keys
  /\ r.at = "mark" => r.verdict.on \in Things
  /\ r.at = "sent" => r.tried # {}
  /\ r.at \in {"mark", "readKeys", "readModels"} /\ r.verdict.then = "key" => r.tried # {}
  /\ Waits = {} => r.verdict.until = 0

Sound(r) ==
  /\ Shape(r)
  /\ Within(r.verdict.until) /\ Within(r.keyUntil) /\ Within(r.modUntil)
  /\ r.at = "select" /\ r.tried = {} => HasKey(r)

Records == [until : Nat, dur : Nat]

\* Durations of keys and models come from back-off alone when no upstream
\* states a recovery time.
OnlyBackoff == Waits = {} /\ \A n \in Initials : n <= MaxCooldown

DurationsLimited ==
  OnlyBackoff => \A x \in Things : x[2] # Whole => cool[x].dur <= MaxCooldown

IInv ==
  /\ TypeOK
  /\ \A i \in Clients : Sound(req[i])
  /\ \A x \in Things : Within(cool[x].until)
  /\ DurationsLimited

-----------------------------------------------------------------------------
(* Arithmetic of cooldowns *)

\* A set of times has an earliest one.
LEMMA EarliestExists ==
  ASSUME NEW times \in SUBSET Nat, times # {}
  PROVE  \E x \in times : \A y \in times : x <= y
<1> DEFINE R == OpToRel(<, Nat)
<1>1. IsWellFoundedOn(R, Nat)
  BY NatLessThanWellFounded
<1>2. \E x \in times : \A y \in times : ~(<<y, x>> \in R)
  BY <1>1, WFMin
<1>3. \A x, y \in Nat : <<y, x>> \in R <=> y < x
  BY DEF OpToRel
<1>4. \A x, y \in Nat : ~(y < x) => x <= y
  OBVIOUS
<1> HIDE DEF R
<1>5. PICK x \in times : \A y \in times : ~(<<y, x>> \in R)
  BY <1>2
<1>6. \A y \in times : x <= y
  BY <1>3, <1>4, <1>5
<1> QED BY <1>6

LEMMA EarliestIsOne ==
  ASSUME NEW times \in SUBSET Nat, times # {}
  PROVE  /\ Earliest(times) \in times
         /\ \A u \in times : Earliest(times) <= u
BY EarliestExists DEF Earliest

\* Zero and every time up to now are within the bound, and time only helps.
LEMMA PastIsWithin ==
  ASSUME now \in Nat, NEW t \in Nat, t <= now
  PROVE  Within(t)
BY TimesAssumption DEF Within

LEMMA LaterIsWithin ==
  ASSUME NEW a \in Nat, NEW b \in Nat, a <= b, NEW w \in Nat, NEW t \in Nat, t <= a + w
  PROVE  t <= b + w
OBVIOUS

LEMMA WithinIsStable ==
  ASSUME now \in Nat, now' \in Nat, now <= now', NEW CONSTANT t \in Nat, Within(t)
  PROVE  Within(t)'
<1>1. PICK w \in Waits \cup Initials \cup {MaxCooldown} : t <= now + w
  BY DEF Within
<1>2. w \in Nat
  BY TimesAssumption
<1>3. t <= now' + w
  BY <1>1, <1>2, LaterIsWithin
<1> QED BY <1>3 DEF Within

LEMMA BackoffIsLimited ==
  ASSUME NEW record \in Records, NEW initial \in Initials, NEW t \in Nat
  PROVE  /\ Backoff(record, initial, t) \in Nat \ {0}
         /\ Backoff(record, initial, t) = initial \/ Backoff(record, initial, t) <= MaxCooldown
         /\ record.dur <= MaxCooldown => Backoff(record, initial, t) >= record.dur
<1> DEFINE previous == IF record.dur > 0 THEN record.dur ELSE record.until - t
           doubled == IF previous < MaxCooldown \div 2 THEN 2 * previous ELSE MaxCooldown
<1>1. record.dur \in Nat /\ record.until \in Nat /\ previous \in Int
  BY DEF Records
<1>2. MaxCooldown \in Nat /\ MinCooldown \in Nat \ {0} /\ MinCooldown <= MaxCooldown
      /\ initial \in Nat \ {0}
  BY TimesAssumption
<1>3. 2 * (MaxCooldown \div 2) <= MaxCooldown /\ MaxCooldown \div 2 \in Nat
  BY <1>2
<1>4. doubled \in Int /\ doubled <= MaxCooldown
  BY <1>1, <1>2, <1>3
<1>5. Backoff(record, initial, t) = IF previous <= 0 THEN initial ELSE Later(doubled, MinCooldown)
  BY DEF Backoff
<1>6. Later(doubled, MinCooldown) \in Nat \ {0} /\ Later(doubled, MinCooldown) <= MaxCooldown
      /\ Later(doubled, MinCooldown) >= doubled
  BY <1>2, <1>4 DEF Later
<1>7. record.dur > 0 /\ record.dur <= MaxCooldown => previous > 0 /\ doubled >= record.dur
  BY <1>1, <1>2, <1>3
<1> HIDE DEF previous, doubled
<1>8. previous > 0 \/ previous <= 0
  BY <1>1
<1>9. CASE previous <= 0
  BY <1>1, <1>2, <1>5, <1>7, <1>9
<1>10. CASE previous > 0
  <2>1. Backoff(record, initial, t) = Later(doubled, MinCooldown)
    BY <1>1, <1>5, <1>10
  <2> QED BY <2>1, <1>1, <1>4, <1>6, <1>7
<1> QED BY <1>8, <1>9, <1>10

\* A back-off keeps everything the invariant says of a record, and is never
\* shorter than the one before.
LEMMA BumpedRecord ==
  ASSUME now \in Nat, NEW record \in Records, NEW initial \in Initials, NEW t \in Nat, t <= now
  PROVE  /\ Bumped(record, initial, t) \in Records
         /\ Bumped(record, initial, t).until > 0 /\ Within(Bumped(record, initial, t).until)
         /\ OnlyBackoff => Bumped(record, initial, t).dur <= MaxCooldown
         /\ record.dur <= MaxCooldown => Bumped(record, initial, t).dur >= record.dur
<1> DEFINE wait == Backoff(record, initial, t)
<1>1. wait \in Nat \ {0} /\ (wait = initial \/ wait <= MaxCooldown)
      /\ (record.dur <= MaxCooldown => wait >= record.dur)
  BY BackoffIsLimited
<1>2. Bumped(record, initial, t) = [until |-> t + wait, dur |-> wait]
  BY DEF Bumped
<1>3. MaxCooldown \in Nat /\ initial \in Nat
  BY TimesAssumption
<1> HIDE DEF wait
<1>4. Within(t + wait)
  <2>1. \E w \in {initial, MaxCooldown} : t + wait <= now + w
    BY <1>1, <1>3
  <2> QED BY <2>1 DEF Within
<1>5. OnlyBackoff => wait <= MaxCooldown
  BY <1>1, <1>3 DEF OnlyBackoff
<1>6. [until |-> t + wait, dur |-> wait] \in Records /\ t + wait > 0
  BY <1>1 DEF Records
<1> QED BY <1>1, <1>2, <1>4, <1>5, <1>6

LEMMA SetRecord ==
  ASSUME NEW until \in Nat, NEW t \in Nat
  PROVE  SetTo(until, t) \in Records /\ SetTo(until, t).until = until
<1>1. Later(until - t, 0) \in Nat
  BY DEF Later
<1> QED BY <1>1 DEF SetTo, Records

-----------------------------------------------------------------------------
(* What a request may turn into *)

LEMMA BetweenIsSound ==
  ASSUME now \in Nat, NEW r, Sound(r), NEW at \in {"ended", "visit"}
  PROVE  Sound(Between(r, at))
<1>1. Within(0) /\ None \notin Keys
  BY PastIsWithin, NamesAssumption
<1>2. r \in Requests
  BY DEF Sound, Shape
<1>3. NoVerdict \in Verdicts /\ NoVerdict.until = 0
  BY DEF NoVerdict, Verdicts
<1> DEFINE new == Between(r, at)
<1>4. new.at = at /\ new.verdict = NoVerdict /\ new.keyUntil = 0 /\ new.modUntil = 0
  BY <1>2 DEF Between, Requests
<1>5. new \in Requests
  BY <1>2, <1>3 DEF Between, Requests, Stages
<1> HIDE DEF new
<1>6. Sound(new)
  BY <1>1, <1>3, <1>4, <1>5 DEF Sound, Shape
<1> QED BY <1>6 DEF new

LEMMA EndedIsSound ==
  ASSUME now \in Nat, NEW r, Sound(r)
  PROVE  Sound(Ended(r))
<1> DEFINE old == Between(r, "ended")
           new == Ended(r)
<1>1. Sound(old)
  BY BetweenIsSound
<1>2. old \in Requests /\ old.at = "ended"
  BY <1>1 DEF Sound, Shape, Between, Requests
<1>3. new = [old EXCEPT !.left = {}, !.fallback = FALSE]
  BY DEF Ended
<1> HIDE DEF old, new
<1>4. new \in Requests /\ new.at = "ended" /\ new.verdict = old.verdict
      /\ new.keyUntil = old.keyUntil /\ new.modUntil = old.modUntil
  BY <1>2, <1>3 DEF Requests
<1>5. Sound(new)
  BY <1>1, <1>4 DEF Sound, Shape
<1> QED BY <1>5 DEF new

\* What a request keeps when it leaves the key loop.
LEMMA OutOfLoopFields ==
  ASSUME NEW r \in Requests
  PROVE  /\ OutOfLoop(r) \in Requests
         /\ OutOfLoop(r).at = r.at /\ OutOfLoop(r).chan = r.chan /\ OutOfLoop(r).key = r.key
         /\ OutOfLoop(r).verdict = r.verdict /\ OutOfLoop(r).tried = {}
         /\ OutOfLoop(r).keyUntil = r.keyUntil /\ OutOfLoop(r).modUntil = r.modUntil
BY DEF OutOfLoop, Requests

LEMMA ExhaustingIsSound ==
  ASSUME now \in Nat, NEW r, Sound(r), r.chan \in Channels
  PROVE  Sound(Exhausting(r))
<1> DEFINE old == OutOfLoop(r)
           new == Exhausting(r)
<1>1. Within(0)
  BY PastIsWithin
<1>2. old \in Requests /\ old.chan = r.chan /\ old.keyUntil = r.keyUntil /\ old.modUntil = r.modUntil
  BY OutOfLoopFields DEF Sound, Shape
<1>3. new = [old EXCEPT !.at = "promote", !.verdict = NoVerdict]
  BY DEF Exhausting
<1>4. NoVerdict \in Verdicts /\ NoVerdict.until = 0
  BY DEF NoVerdict, Verdicts
<1> HIDE DEF old, new
<1>5. new \in Requests /\ new.at = "promote" /\ new.verdict = NoVerdict /\ new.chan = r.chan
      /\ new.keyUntil = r.keyUntil /\ new.modUntil = r.modUntil
  BY <1>2, <1>3, <1>4 DEF Requests, Stages
<1>6. Sound(new)
  BY <1>1, <1>4, <1>5 DEF Sound, Shape
<1> QED BY <1>6 DEF new

LEMMA ResumedIsSound ==
  ASSUME now \in Nat, NEW r, Sound(r), r.at \in {"readKeys", "readModels"}
  PROVE  Sound(Resumed(r))
<1>1. Within(0)
  BY PastIsWithin
<1>2. r \in Requests /\ r.chan \in Channels /\ (r.verdict.then = "key" => r.tried # {})
  BY DEF Sound, Shape
<1>3. NoVerdict \in Verdicts /\ NoVerdict.until = 0
  BY DEF NoVerdict, Verdicts
<1> DEFINE new == [r EXCEPT !.at = "select", !.verdict = NoVerdict, !.since = 0,
                            !.keyUntil = 0, !.modUntil = 0]
<1>4. CASE r.verdict.then = "key"
  <2>1. new \in Requests /\ new.at = "select" /\ new.verdict = NoVerdict /\ new.chan = r.chan
        /\ new.keyUntil = 0 /\ new.modUntil = 0 /\ new.tried = r.tried
    BY <1>2, <1>3 DEF Requests, Stages
  <2> HIDE DEF new
  <2>2. Sound(new)
    BY <1>1, <1>2, <1>3, <1>4, <2>1 DEF Sound, Shape
  <2> QED BY <1>4, <2>2 DEF Resumed, new
<1>5. CASE r.verdict.then # "key"
  BY <1>5, BetweenIsSound DEF Resumed
<1> QED BY <1>4, <1>5

\* A verdict that a request may carry out.
Fit(v) == v \in Verdicts /\ v.on \in Things /\ Within(v.until) /\ (Waits = {} => v.until = 0)

LEMMA VerdictIsFit ==
  ASSUME now \in Nat, NEW c \in Channels, NEW k \in Keys, NEW m \in Models, NEW f \in Failures
  PROVE  Fit(Verdict(c, k, m, f))
<1> DEFINE v == Verdict(c, k, m, f)
<1>1. f.wait \in {0} \cup Waits /\ f.scope \in {"key", "model", "channel"}
  BY DEF Failures
<1>2. <<c, k>> \in Things /\ <<c, m>> \in Things /\ Channel(c) \in Things
  BY DEF Things, Channel
<1>3. v.on \in Things
  BY <1>2 DEF Verdict
<1>4. v.until = IF f.wait > 0 THEN now + f.wait ELSE 0
  BY DEF Verdict
<1>5. f.wait \in Nat /\ (Waits = {} => f.wait = 0)
  <2>1. \A w \in {0} \cup Waits : w \in Nat
    BY TimesAssumption
  <2> QED BY <1>1, <2>1
<1>6. v.until \in Nat /\ (Waits = {} => v.until = 0)
  BY <1>4, <1>5
<1>7. Within(v.until)
  <2>1. CASE f.wait > 0
    <3>1. f.wait \in Waits /\ v.until <= now + f.wait
      BY <1>1, <1>4, <1>5, <2>1
    <3> QED BY <3>1 DEF Within
  <2>2. CASE ~(f.wait > 0)
    BY <1>4, <2>2, PastIsWithin
  <2> QED BY <2>1, <2>2
<1>8. v = [on |-> v.on, until |-> v.until, then |-> IF FallsBack(c, f) THEN "key" ELSE f.scope]
  BY DEF Verdict
<1>9. v \in Verdicts
  BY <1>1, <1>3, <1>6, <1>8 DEF Verdicts
<1> QED BY <1>3, <1>6, <1>7, <1>9 DEF Fit

LEMMA JudgedIsSound ==
  ASSUME now \in Nat, NEW r, Sound(r), r.chan \in Channels, NEW v, Fit(v), v.then = "key" => r.tried # {}
  PROVE  Sound(Judged(r, v))
<1> DEFINE old == IF v.then = "key" THEN r ELSE OutOfLoop(r)
           new == Judged(r, v)
<1>1. old \in Requests /\ old.chan = r.chan /\ old.keyUntil = r.keyUntil
      /\ old.modUntil = r.modUntil /\ (v.then = "key" => old.tried = r.tried)
  BY OutOfLoopFields DEF Sound, Shape
<1>2. new = [old EXCEPT !.at = "mark", !.key = None, !.verdict = v, !.since = now]
  BY DEF Judged
<1> HIDE DEF old, new
<1>3. new \in Requests /\ new.at = "mark" /\ new.verdict = v /\ new.chan = r.chan
      /\ new.keyUntil = r.keyUntil /\ new.modUntil = r.modUntil /\ new.tried = old.tried
  BY <1>1, <1>2 DEF Requests, Stages, Fit
<1>4. Sound(new)
  BY <1>1, <1>3 DEF Sound, Shape, Fit
<1> QED BY <1>4 DEF new

LEMMA AfterWriteIsSound ==
  ASSUME now \in Nat, NEW r, Sound(r),
         r.at \in {"mark", "promote", "clearChannel", "clearKey", "clearModel"}
  PROVE  Sound(AfterWrite(r))
<1>1. r \in Requests /\ r.chan \in Channels
  BY DEF Sound, Shape
<1>2. CASE r.at = "mark" /\ r.verdict.then = "channel"
  <2>1. AfterWrite(r) = Between(r, "visit")
    BY <1>2 DEF AfterWrite
  <2> QED BY <2>1, BetweenIsSound
<1>3. CASE r.at = "mark" /\ r.verdict.then # "channel"
  <2> DEFINE v == [NoVerdict EXCEPT !.then = r.verdict.then]
             new == [r EXCEPT !.at = "readKeys", !.since = now, !.verdict = v]
  <2>1. Within(0)
    BY PastIsWithin
  <2>2. r.verdict \in Verdicts
    BY <1>1 DEF Requests
  <2>3. v \in Verdicts /\ v.until = 0 /\ v.then = r.verdict.then
    BY <2>2 DEF NoVerdict, Verdicts
  <2>4. AfterWrite(r) = new
    BY <1>3 DEF AfterWrite
  <2> HIDE DEF v
  <2>5. new \in Requests /\ new.at = "readKeys" /\ new.verdict = v /\ new.chan = r.chan
        /\ new.keyUntil = r.keyUntil /\ new.modUntil = r.modUntil /\ new.tried = r.tried
    BY <1>1, <2>3 DEF Requests, Stages
  <2> HIDE DEF new
  <2>6. Sound(new)
    BY <1>1, <1>3, <2>1, <2>3, <2>5 DEF Sound, Shape
  <2> QED BY <2>4, <2>6
<1>4. CASE r.at = "promote"
  BY <1>4, BetweenIsSound DEF AfterWrite
<1>5. ASSUME NEW next \in {"clearKey", "clearModel"}, r.at \in {"clearChannel", "clearKey"}
      PROVE  Sound([r EXCEPT !.at = next])
  <2> DEFINE new == [r EXCEPT !.at = next]
  <2>1. new \in Requests /\ new.at = next /\ new.verdict = r.verdict /\ new.chan = r.chan
        /\ new.key = r.key /\ new.keyUntil = r.keyUntil /\ new.modUntil = r.modUntil
    BY <1>1 DEF Requests, Stages
  <2> HIDE DEF new
  <2>2. Sound(new)
    BY <1>5, <2>1 DEF Sound, Shape
  <2> QED BY <2>2 DEF new
<1>6. CASE r.at = "clearChannel"
  BY <1>5, <1>6 DEF AfterWrite
<1>7. CASE r.at = "clearKey"
  BY <1>5, <1>7 DEF AfterWrite
<1>8. CASE r.at = "clearModel"
  BY <1>8, EndedIsSound DEF AfterWrite
<1> QED BY <1>2, <1>3, <1>4, <1>6, <1>7, <1>8

-----------------------------------------------------------------------------
(* What a step does *)

Reasons == {"exhausted", "failure", "crossed"}

\* A record that a request may write.
Fine(x, record) ==
  /\ record \in Records /\ Within(record.until)
  /\ OnlyBackoff /\ x[2] # Whole =>
       record.dur <= MaxCooldown /\ (record = Clear \/ record.dur >= cool[x].dur)

Recorded(x, record) == Fine(x, record) /\ cool' = [cool EXCEPT ![x] = record]

HistoriesOK ==
  reason \in [Channels -> Reasons] /\ crossed \in SUBSET Clients /\ owed \in SUBSET Clients

\* The step of a request: it moves on, and may write one record.
RequestStep(i) ==
  /\ now' = now
  /\ \E r : Sound(r) /\ Becomes(i, r)
  /\ cool' = cool \/ \E x \in Things, record \in Records : Recorded(x, record)
  /\ faults' \in 0..MaxFaults /\ HistoriesOK'

\* The parts of the invariant that the steps of a request start from.
LEMMA Known ==
  ASSUME IInv, NEW i \in Clients
  PROVE  /\ now \in Nat /\ req[i] \in Requests /\ Sound(req[i])
         /\ faults \in 0..MaxFaults /\ HistoriesOK
         /\ cool \in [Things -> Records]
BY DEF IInv, TypeOK, Records, HistoriesOK, Reasons

\* A step uses a reading of the clock that is not in the future.
LEMMA ReadingIsPast ==
  ASSUME IInv, NEW i \in Clients, NEW t \in Readings(i)
  PROVE  t \in Nat /\ t <= now
<1>1. now \in Nat /\ req[i].since \in Nat
  BY Known DEF Requests
<1> QED BY <1>1 DEF Readings

\* A step that touches no cooldown record.
Quiet == UNCHANGED <<now, cool, faults, reason, crossed>> /\ owed' \in SUBSET Clients

LEMMA QuietSteps ==
  ASSUME IInv, NEW i \in Clients
  PROVE  /\ OnlyRequest => Quiet
         /\ Settles(i) => Quiet
         /\ (\E m \in Models : Ask(i, m)) => Quiet
BY Known DEF OnlyRequest, Settles, Ask, Quiet, HistoriesOK

\* It is a step of the request if the request stays sound.
LEMMA QuietIsStep ==
  ASSUME IInv, NEW i \in Clients, NEW r, Sound(r), Becomes(i, r), Quiet
  PROVE  RequestStep(i)
BY Known DEF RequestStep, Quiet, HistoriesOK

LEMMA AskStep ==
  ASSUME IInv, NEW i \in Clients, NEW m \in Models, Ask(i, m)
  PROVE  RequestStep(i)
<1> DEFINE q == req[i]
           r == [q EXCEPT !.at = "visit", !.model = m]
<1>1. q \in Requests /\ Sound(q) /\ now \in Nat /\ Quiet
  BY Known, QuietSteps
<1> HIDE DEF q
<1>2. r \in Requests /\ r.at = "visit" /\ r.verdict = q.verdict /\ r.fallback \in BOOLEAN
      /\ r.keyUntil = q.keyUntil /\ r.modUntil = q.modUntil
  BY <1>1 DEF Requests, Stages
<1> USE DEF q
<1> HIDE DEF r
<1>3. Sound(r)
  BY <1>1, <1>2 DEF Sound, Shape
<1>4. ASSUME NEW left \in SUBSET Channels, NEW fallback \in BOOLEAN
      PROVE  Sound([r EXCEPT !.left = left, !.fallback = fallback])
  <2> DEFINE new == [r EXCEPT !.left = left, !.fallback = fallback]
  <2>1. new \in Requests /\ new.at = "visit" /\ new.verdict = r.verdict
        /\ new.keyUntil = r.keyUntil /\ new.modUntil = r.modUntil
    BY <1>2 DEF Requests, Stages
  <2> HIDE DEF new
  <2>2. Sound(new)
    BY <1>3, <2>1 DEF Sound, Shape
  <2> QED BY <2>2 DEF new
<1>5. CASE Candidates(m) # {}
  <2> DEFINE new == [r EXCEPT !.left = Candidates(m)]
  <2>1. Candidates(m) \in SUBSET Channels
    BY DEF Candidates
  <2>2. new = [r EXCEPT !.left = Candidates(m), !.fallback = r.fallback]
    BY <1>2 DEF Requests
  <2>3. Sound(new)
    BY <1>2, <1>4, <2>1, <2>2
  <2>4. Becomes(i, new)
    BY <1>5 DEF Ask, r
  <2> QED BY <1>1, <2>3, <2>4, QuietIsStep
<1>6. CASE Candidates(m) = {} /\ FallbackEnabled
  <2>1. PICK c \in Channels : Becomes(i, [r EXCEPT !.left = {c}, !.fallback = TRUE])
    BY <1>6 DEF Ask, r
  <2>2. Sound([r EXCEPT !.left = {c}, !.fallback = TRUE])
    BY <1>4
  <2> QED BY <1>1, <2>1, <2>2, QuietIsStep
<1>7. CASE Candidates(m) = {} /\ ~FallbackEnabled
  <2>1. Becomes(i, Ended(r))
    BY <1>7 DEF Ask, r
  <2>2. Sound(Ended(r))
    BY <1>1, <1>3, EndedIsSound
  <2> QED BY <1>1, <2>1, <2>2, QuietIsStep
<1> QED BY <1>5, <1>6, <1>7, NamesAssumption

\* A channel that offers something has a key that is not cooling.
LEMMA VisitStep ==
  ASSUME IInv, NEW i \in Clients, NEW c \in Channels, Visit(i, c)
  PROVE  RequestStep(i)
<1> DEFINE r == [req[i] EXCEPT !.left = @ \ {c}]
           seen == [k \in Keys |-> StillCooling(<<c, k>>)]
           new == [r EXCEPT !.at = "select", !.chan = c, !.seen = seen]
           offers == Offers(c, r.model)
<1>1. req[i] \in Requests /\ Sound(req[i]) /\ now \in Nat /\ cool \in [Things -> Records]
      /\ req[i].at = "visit"
  BY Known DEF Visit, At
<1>2. r \in Requests /\ r.at = "visit" /\ r.verdict = req[i].verdict
      /\ r.keyUntil = req[i].keyUntil /\ r.modUntil = req[i].modUntil
  BY <1>1 DEF Requests
<1>3. Quiet /\ Becomes(i, IF offers \/ r.fallback THEN new ELSE r)
  BY QuietSteps DEF Visit
<1> HIDE DEF r
<1>4. Sound(r)
  BY <1>1, <1>2 DEF Sound, Shape
<1>5. \A k \in Keys : <<c, k>> \in Things
  BY DEF Things
<1>6. seen \in [Keys -> Nat]
  BY <1>1, <1>5 DEF StillCooling, Records
<1>7. ~AllKeysCooling(c) => \E k \in Keys : seen[k] <= now
  <2>1. ASSUME ~AllKeysCooling(c)
        PROVE  \E k \in Keys : seen[k] <= now
    <3>1. PICK k \in Keys : ~Cooling(<<c, k>>)
      BY <2>1 DEF AllKeysCooling, KeysOf
    <3>2. seen[k] = 0
      BY <3>1 DEF StillCooling
    <3> QED BY <1>1, <3>2
  <2> QED BY <2>1
<1> HIDE DEF seen
<1>8. new \in Requests /\ new.at = "select" /\ new.verdict = r.verdict /\ new.chan = c
      /\ new.seen = seen /\ new.fallback = r.fallback
      /\ new.keyUntil = r.keyUntil /\ new.modUntil = r.modUntil
  BY <1>2, <1>6 DEF Requests, Stages
<1> HIDE DEF new
<1>9. CASE offers \/ r.fallback
  <2>1. HasKey(new)
    BY <1>7, <1>8, <1>9 DEF HasKey, Offers
  <2>2. Sound(new)
    BY <1>4, <1>8, <2>1 DEF Sound, Shape
  <2> QED BY <1>3, <1>9, <2>2, QuietIsStep
<1>10. CASE ~(offers \/ r.fallback)
  BY <1>3, <1>4, <1>10, QuietIsStep
<1> QED BY <1>9, <1>10

LEMMA SelectKeyStep ==
  ASSUME IInv, NEW i \in Clients, NEW k \in Keys, SelectKey(i, k)
  PROVE  RequestStep(i)
<1> DEFINE r == req[i]
           new == [r EXCEPT !.at = "sent", !.key = k, !.tried = @ \cup {k}]
<1>1. r \in Requests /\ Sound(r) /\ r.at = "select"
  BY Known DEF SelectKey, At
<1>2. Quiet /\ Becomes(i, new)
  BY QuietSteps DEF SelectKey
<1> HIDE DEF r
<1>3. new \in Requests /\ new.at = "sent" /\ new.verdict = r.verdict /\ new.chan = r.chan
      /\ new.key = k /\ new.tried = r.tried \cup {k}
      /\ new.keyUntil = r.keyUntil /\ new.modUntil = r.modUntil
  BY <1>1 DEF Requests, Stages
<1> HIDE DEF new
<1>4. Sound(new)
  BY <1>1, <1>3 DEF Sound, Shape
<1> QED BY <1>2, <1>4, QuietIsStep

\* The steps after which the request is between channels or over.
LEMMA LeavingStep ==
  ASSUME IInv, NEW i \in Clients,
         KeysTried(i) \/ Answer(i) \/ ClientLeaves(i) \/ Busy(i) \/ Reject(i)
  PROVE  RequestStep(i)
<1>1. now \in Nat /\ Sound(req[i])
  BY Known
<1>2. Quiet
  BY QuietSteps DEF KeysTried, Answer, ClientLeaves, Busy, Reject
<1>3. Becomes(i, Between(req[i], "visit")) \/ Becomes(i, Ended(req[i]))
  BY DEF KeysTried, Answer, ClientLeaves, Busy, Reject
<1>4. Sound(Between(req[i], "visit")) /\ Sound(Ended(req[i]))
  BY <1>1, BetweenIsSound, EndedIsSound
<1> QED BY <1>2, <1>3, <1>4, QuietIsStep

LEMMA SucceedStep ==
  ASSUME IInv, NEW i \in Clients, Succeed(i)
  PROVE  RequestStep(i)
<1> DEFINE r == req[i]
           old == OutOfLoop(r)
           new == [old EXCEPT !.at = "clearChannel", !.left = {}, !.fallback = FALSE]
<1>1. r \in Requests /\ Sound(r) /\ r.at = "sent"
  BY Known DEF Succeed, At
<1>2. Quiet /\ Becomes(i, new)
  BY QuietSteps DEF Succeed
<1> HIDE DEF r
<1>3. old \in Requests /\ old.chan = r.chan /\ old.key = r.key /\ old.verdict = r.verdict
      /\ old.keyUntil = r.keyUntil /\ old.modUntil = r.modUntil
  BY <1>1, OutOfLoopFields
<1> HIDE DEF old
<1>4. new \in Requests /\ new.at = "clearChannel" /\ new.verdict = r.verdict
      /\ new.chan = r.chan /\ new.key = r.key
      /\ new.keyUntil = r.keyUntil /\ new.modUntil = r.modUntil
  BY <1>3 DEF Requests, Stages
<1> HIDE DEF new
<1>5. Sound(new)
  BY <1>1, <1>4 DEF Sound, Shape
<1> QED BY <1>2, <1>5, QuietIsStep

LEMMA FailStep ==
  ASSUME IInv, NEW i \in Clients, NEW f \in Failures, Fail(i, f)
  PROVE  RequestStep(i)
<1> DEFINE r == req[i]
           v == Verdict(r.chan, r.key, r.model, f)
<1>1. r \in Requests /\ Sound(r) /\ r.at = "sent" /\ now \in Nat
  BY Known DEF Fail, At
<1>2. r.chan \in Channels /\ r.key \in Keys /\ r.model \in Models /\ r.tried # {}
  BY <1>1 DEF Sound, Shape, Requests
<1>3. Fit(v)
  BY <1>1, <1>2, VerdictIsFit
<1>4. Quiet /\ Becomes(i, Judged(r, v))
  BY QuietSteps DEF Fail
<1> HIDE DEF r, v
<1>5. Sound(Judged(r, v))
  BY <1>1, <1>2, <1>3, JudgedIsSound
<1> QED BY <1>4, <1>5, QuietIsStep

LEMMA BreakOffStep ==
  ASSUME IInv, NEW i \in Clients, NEW f \in Failures, BreakOff(i, f)
  PROVE  RequestStep(i)
<1> DEFINE r == [req[i] EXCEPT !.left = {}, !.fallback = FALSE]
           v == Verdict(r.chan, r.key, r.model, f)
           w == [v EXCEPT !.then = IF @ = "key" THEN "model" ELSE @]
<1>1. req[i] \in Requests /\ Sound(req[i]) /\ req[i].at = "sent" /\ now \in Nat
  BY Known DEF BreakOff, At
<1>2. r \in Requests /\ r.at = "sent" /\ r.chan = req[i].chan /\ r.key = req[i].key
      /\ r.tried = req[i].tried /\ r.verdict = req[i].verdict
      /\ r.keyUntil = req[i].keyUntil /\ r.modUntil = req[i].modUntil
  BY <1>1 DEF Requests
<1>3. Quiet /\ Becomes(i, Judged(r, w))
  BY QuietSteps DEF BreakOff
<1> HIDE DEF r
<1>4. Sound(r)
  BY <1>1, <1>2 DEF Sound, Shape
<1>5. r.chan \in Channels /\ r.key \in Keys /\ r.model \in Models
  BY <1>2, <1>4 DEF Sound, Shape, Requests
<1>6. Fit(v)
  BY <1>1, <1>5, VerdictIsFit
<1> HIDE DEF v
<1>7. w \in Verdicts /\ w.on = v.on /\ w.until = v.until /\ w.then # "key"
  BY <1>6 DEF Fit, Verdicts
<1>8. Fit(w) /\ w.then # "key"
  BY <1>6, <1>7 DEF Fit
<1> HIDE DEF w
<1>9. Sound(Judged(r, w))
  BY <1>1, <1>4, <1>5, <1>8, JudgedIsSound
<1> QED BY <1>3, <1>9, QuietIsStep

\* The earliest end of some cooldowns is within the bound that all are within.
LEMMA EarliestIsWithin ==
  ASSUME IInv, NEW things \in SUBSET Things, things # {}
  PROVE  LET until == Earliest({cool[x].until : x \in things})
         IN  until \in Nat /\ Within(until)
<1> DEFINE times == {cool[x].until : x \in things}
<1>1. cool \in [Things -> Records] /\ \A x \in Things : Within(cool[x].until)
  BY DEF IInv, TypeOK, Records
<1>2. times \in SUBSET Nat /\ times # {} /\ \A t \in times : Within(t)
  BY <1>1 DEF Records
<1> HIDE DEF times
<1>3. Earliest(times) \in times
  BY <1>2, EarliestIsOne
<1>4. Earliest(times) \in Nat /\ Within(Earliest(times))
  BY <1>2, <1>3
<1> QED BY <1>4 DEF times

\* With the times it reads, a request that looks at its channel stays sound.
LEMMA LookIsSound ==
  ASSUME now \in Nat, NEW r, Sound(r), r.at \in {"readKeys", "readModels"},
         NEW since \in Nat, NEW k \in Nat, Within(k), NEW m \in Nat, Within(m)
  PROVE  LET new == [r EXCEPT !.at = "readModels", !.since = since,
                              !.keyUntil = k, !.modUntil = m]
         IN  Sound(new) /\ new.at = "readModels" /\ new.chan \in Channels
<1> DEFINE new == [r EXCEPT !.at = "readModels", !.since = since, !.keyUntil = k, !.modUntil = m]
<1>1. r \in Requests /\ r.chan \in Channels
  BY DEF Sound, Shape
<1>2. new \in Requests /\ new.at = "readModels" /\ new.verdict = r.verdict /\ new.chan = r.chan
      /\ new.tried = r.tried /\ new.keyUntil = k /\ new.modUntil = m
  BY <1>1 DEF Requests, Stages
<1> HIDE DEF new
<1>3. Sound(new)
  BY <1>1, <1>2 DEF Sound, Shape
<1>4. Sound(new) /\ new.at = "readModels" /\ new.chan \in Channels
  BY <1>1, <1>2, <1>3
<1> QED BY <1>4 DEF new

LEMMA DecideIsSound ==
  ASSUME now \in Nat, NEW r, Sound(r), r.at = "readModels", r.chan \in Channels
  PROVE  Sound(IF Exhausted(r) THEN Exhausting(r) ELSE Resumed(r))
BY ExhaustingIsSound, ResumedIsSound

LEMMA KeysAndModels ==
  ASSUME NEW c \in Channels
  PROVE  /\ KeysOf(c) \in SUBSET Things /\ KeysOf(c) # {}
         /\ ModelsOf(c) \in SUBSET Things /\ ModelsOf(c) # {}
<1>1. PICK k \in Keys, m \in Models : TRUE
  BY NamesAssumption
<1>2. <<c, k>> \in KeysOf(c) /\ <<c, m>> \in ModelsOf(c)
  BY <1>1 DEF KeysOf, ModelsOf
<1> QED BY <1>2 DEF KeysOf, ModelsOf, Things

LEMMA ReadKeysStep ==
  ASSUME IInv, NEW i \in Clients, NEW t \in Readings(i), ReadKeys(i, t)
  PROVE  RequestStep(i)
<1> DEFINE r == req[i]
           keys == KeysOf(r.chan)
           first == Earliest({cool[x].until : x \in keys})
           until == IF \A x \in keys : CoolingAt(x, t) THEN first ELSE 0
           new == [r EXCEPT !.at = "readModels", !.since = t, !.keyUntil = until]
           same == [r EXCEPT !.at = "readModels", !.since = t, !.keyUntil = until,
                             !.modUntil = r.modUntil]
<1>1. now \in Nat /\ r \in Requests /\ Sound(r) /\ r.at = "readKeys" /\ r.chan \in Channels
  BY Known DEF ReadKeys, At, Sound, Shape
<1>2. first \in Nat /\ Within(first)
  BY <1>1, KeysAndModels, EarliestIsWithin
<1>3. Quiet /\ Becomes(i, new) /\ t \in Nat
  BY QuietSteps, ReadingIsPast DEF ReadKeys
<1>4. r.modUntil \in Nat /\ Within(r.modUntil)
  BY <1>1 DEF Sound, Requests
<1> HIDE DEF r, first
<1>5. until \in Nat /\ Within(until)
  BY <1>1, <1>2, PastIsWithin
<1> HIDE DEF until
<1>6. Sound(same)
  BY <1>1, <1>3, <1>4, <1>5, LookIsSound
<1>7. new = same
  BY <1>1 DEF Requests
<1> QED BY <1>3, <1>6, <1>7, QuietIsStep

LEMMA ReadModelsStep ==
  ASSUME IInv, NEW i \in Clients, NEW t \in Readings(i), ReadModels(i, t)
  PROVE  RequestStep(i)
<1> DEFINE r == req[i]
           models == ModelsOf(r.chan)
           cooled == \A x \in models : CoolingAt(x, t)
           first == Earliest({cool[x].until : x \in models})
           until == IF cooled THEN first ELSE 0
           new == [r EXCEPT !.modUntil = until]
           same == [r EXCEPT !.at = "readModels", !.since = r.since, !.keyUntil = r.keyUntil,
                             !.modUntil = until]
<1>1. now \in Nat /\ r \in Requests /\ Sound(r) /\ r.at = "readModels" /\ r.chan \in Channels
  BY Known DEF ReadModels, At, Sound, Shape
<1>2. first \in Nat /\ Within(first)
  BY <1>1, KeysAndModels, EarliestIsWithin
<1>3. Quiet /\ Becomes(i, IF Exhausted(new) THEN Exhausting(new) ELSE Resumed(new))
  BY QuietSteps DEF ReadModels
<1>4. r.keyUntil \in Nat /\ Within(r.keyUntil) /\ r.since \in Nat
  BY <1>1 DEF Sound, Requests
<1> HIDE DEF r, first, cooled
<1>5. until \in Nat /\ Within(until)
  BY <1>1, <1>2, PastIsWithin
<1> HIDE DEF until
<1>6. Sound(same) /\ same.at = "readModels" /\ same.chan \in Channels
  BY <1>1, <1>4, <1>5, LookIsSound
<1>7. new = same
  BY <1>1 DEF Requests
<1> HIDE DEF new, same
<1>8. Sound(IF Exhausted(new) THEN Exhausting(new) ELSE Resumed(new))
  BY <1>1, <1>6, <1>7, DecideIsSound
<1> QED BY <1>3, <1>8, QuietIsStep

LEMMA WriteFailsStep ==
  ASSUME IInv, NEW i \in Clients, WriteFails(i)
  PROVE  RequestStep(i)
<1>1. Sound(AfterWrite(req[i]))
  BY Known, AfterWriteIsSound DEF WriteFails
<1>2. faults' \in 0..MaxFaults
  BY Known, TimesAssumption DEF WriteFails
<1>3. HistoriesOK'
  BY Known DEF WriteFails, HistoriesOK, Reasons, Doubtful
<1> QED BY <1>1, <1>2, <1>3 DEF WriteFails, RequestStep

LEMMA ReadFailsStep ==
  ASSUME IInv, NEW i \in Clients, NEW t \in Readings(i), ReadFails(i, t)
  PROVE  RequestStep(i)
<1> DEFINE r == req[i]
           new == [r EXCEPT !.at = "readModels", !.since = t]
           same == [r EXCEPT !.at = "readModels", !.since = t, !.keyUntil = r.keyUntil,
                             !.modUntil = r.modUntil]
<1>1. now \in Nat /\ r \in Requests /\ Sound(r)
      /\ r.keyUntil \in Nat /\ r.modUntil \in Nat /\ Within(r.keyUntil) /\ Within(r.modUntil)
      /\ t \in Nat
  BY Known, ReadingIsPast DEF Sound, Requests
<1>2. faults' \in 0..MaxFaults /\ UNCHANGED <<now, cool, reason, crossed, owed>>
  BY Known, TimesAssumption DEF ReadFails
<1>3. \E s : Sound(s) /\ Becomes(i, s)
  <2>1. CASE r.at = "readKeys" /\ Becomes(i, new)
    <3>1. Sound(same)
      BY <1>1, <2>1, LookIsSound
    <3>2. new = same
      BY <1>1 DEF Requests
    <3> QED BY <2>1, <3>1, <3>2
  <2>2. CASE r.at = "readModels"
             /\ Becomes(i, IF Exhausted(r) THEN Exhausting(r) ELSE Resumed(r))
    <3>1. r.chan \in Channels
      BY <1>1, <2>2 DEF Sound, Shape
    <3>2. Sound(IF Exhausted(r) THEN Exhausting(r) ELSE Resumed(r))
      BY <1>1, <2>2, <3>1, DecideIsSound
    <3> QED BY <2>2, <3>2
  <2> QED BY <2>1, <2>2 DEF ReadFails, At
<1> QED BY <1>2, <1>3, Known DEF RequestStep, HistoriesOK

-----------------------------------------------------------------------------
(* Writes of cooldown records *)

LEMMA WrittenIsStep ==
  ASSUME IInv, NEW i \in Clients, NEW x \in Things, NEW record, Fine(x, record),
         Written(i, x, record),
         req[i].at \in {"mark", "promote", "clearChannel", "clearKey", "clearModel"},
         reason' \in [Channels -> Reasons], crossed' \in SUBSET Clients
  PROVE  RequestStep(i)
<1>1. Sound(AfterWrite(req[i]))
  BY Known, AfterWriteIsSound
<1>2. Becomes(i, AfterWrite(req[i])) /\ now' = now /\ faults' = faults
      /\ cool' = [cool EXCEPT ![x] = record]
  BY DEF Written
<1>3. record \in Records /\ Recorded(x, record)
  BY <1>2 DEF Fine, Recorded
<1>4. HistoriesOK'
  BY Known DEF Written, HistoriesOK
<1> QED BY <1>1, <1>2, <1>3, <1>4, Known DEF RequestStep

LEMMA MarkStep ==
  ASSUME IInv, NEW i \in Clients, NEW initial \in Initials, NEW t \in Readings(i),
         Mark(i, initial, t)
  PROVE  RequestStep(i)
<1> DEFINE v == req[i].verdict
           x == v.on
           new == IF v.until > 0 THEN SetTo(v.until, t) ELSE Bumped(cool[x], initial, t)
<1>1. now \in Nat /\ req[i].at = "mark" /\ x \in Things /\ v.until \in Nat /\ Within(v.until)
      /\ (Waits = {} => v.until = 0) /\ cool[x] \in Records
  BY Known DEF Mark, At, Sound, Shape, Requests, Verdicts
<1>2. Written(i, x, new) /\ t \in Nat /\ t <= now
  BY ReadingIsPast DEF Mark
<1>3. reason' \in [Channels -> Reasons] /\ crossed' \in SUBSET Clients
  BY Known DEF Mark, HistoriesOK, Reasons, Doubtful, Crosses
<1>4. OnlyBackoff /\ x[2] # Whole => cool[x].dur <= MaxCooldown
  BY <1>1 DEF IInv, DurationsLimited
<1> HIDE DEF v, x
<1>5. Fine(x, new)
  <2>1. CASE v.until > 0
    <3>1. new = SetTo(v.until, t) /\ ~OnlyBackoff
      BY <1>1, <2>1 DEF OnlyBackoff
    <3> HIDE DEF new
    <3> QED BY <1>1, <1>2, <3>1, SetRecord DEF Fine
  <2>2. CASE ~(v.until > 0)
    <3>1. new = Bumped(cool[x], initial, t)
      BY <2>2
    <3> HIDE DEF new
    <3>2. new \in Records /\ Within(new.until)
          /\ (OnlyBackoff => new.dur <= MaxCooldown)
          /\ (OnlyBackoff /\ x[2] # Whole => new.dur >= cool[x].dur)
      BY <1>1, <1>2, <1>4, <3>1, BumpedRecord
    <3> QED BY <3>2 DEF Fine
  <2> QED BY <2>1, <2>2
<1> HIDE DEF new
<1> QED BY <1>1, <1>2, <1>3, <1>5, WrittenIsStep

LEMMA PromoteStep ==
  ASSUME IInv, NEW i \in Clients, NEW t \in Readings(i), Promote(i, t)
  PROVE  RequestStep(i)
<1> DEFINE r == req[i]
           x == Channel(r.chan)
           until == Later(r.keyUntil, r.modUntil)
<1>1. r.at = "promote" /\ r.chan \in Channels /\ r.keyUntil \in Nat
      /\ r.modUntil \in Nat /\ Within(r.keyUntil) /\ Within(r.modUntil) /\ t \in Nat
  BY Known, ReadingIsPast DEF Promote, At, Sound, Shape, Requests
<1>2. Written(i, x, SetTo(until, t))
  BY DEF Promote
<1>3. reason' \in [Channels -> Reasons] /\ crossed' \in SUBSET Clients
  BY Known DEF Promote, HistoriesOK, Reasons
<1>4. x \in Things /\ x[2] = Whole
  BY <1>1 DEF Channel, Things
<1> HIDE DEF r, x
<1>5. until \in Nat /\ Within(until)
  BY <1>1 DEF Later
<1> HIDE DEF until
<1>6. Fine(x, SetTo(until, t))
  BY <1>1, <1>4, <1>5, SetRecord DEF Fine
<1> USE DEF r, x, until
<1> QED BY <1>1, <1>2, <1>3, <1>4, <1>6, WrittenIsStep

LEMMA ClearStep ==
  ASSUME IInv, NEW i \in Clients, ClearNext(i)
  PROVE  RequestStep(i)
<1> DEFINE r == req[i]
           x == Cleared(r)
<1>1. now \in Nat /\ r.at \in {"clearChannel", "clearKey", "clearModel"}
      /\ r.chan \in Channels /\ r.key \in Keys /\ r.model \in Models
  BY Known DEF ClearNext, Sound, Shape, Requests
<1>2. Written(i, x, Clear)
  BY DEF ClearNext
<1>3. reason' \in [Channels -> Reasons] /\ crossed' \in SUBSET Clients
  BY Known DEF ClearNext, HistoriesOK, Reasons, Crosses
<1> HIDE DEF r
<1>4. x \in {Channel(r.chan), <<r.chan, r.key>>, <<r.chan, r.model>>}
  BY <1>1 DEF Cleared
<1>5. x \in Things
  BY <1>1, <1>4 DEF Channel, Things
<1> HIDE DEF x
<1>6. Fine(x, Clear)
  BY <1>1, PastIsWithin, TimesAssumption DEF Fine, Clear, Records
<1> USE DEF r
<1> QED BY <1>1, <1>2, <1>3, <1>5, <1>6, WrittenIsStep

-----------------------------------------------------------------------------
(* The invariant *)

LEMMA Steps ==
  ASSUME IInv, Next
  PROVE  \/ \E i \in Clients : RequestStep(i)
         \/ Tick
<1>1. CASE Tick
  BY <1>1
<1>2. ASSUME NEW i \in Clients, \E m \in Models : Ask(i, m)
      PROVE  RequestStep(i)
  BY <1>2, AskStep
<1>3. ASSUME NEW i \in Clients, Proceed(i)
      PROVE  RequestStep(i)
  <2>1. CASE \E c \in Channels : Visit(i, c)
    BY <2>1, VisitStep
  <2>2. CASE Answer(i) \/ KeysTried(i)
    BY <2>2, LeavingStep
  <2>3. CASE \E k \in Keys : SelectKey(i, k)
    BY <2>3, SelectKeyStep
  <2>4. ASSUME NEW t \in Readings(i), NEW n \in Initials, Mark(i, n, t)
        PROVE  RequestStep(i)
    BY <2>4, MarkStep
  <2>5. ASSUME NEW t \in Readings(i), ReadKeys(i, t) \/ ReadModels(i, t) \/ Promote(i, t)
        PROVE  RequestStep(i)
    BY <2>5, ReadKeysStep, ReadModelsStep, PromoteStep
  <2>6. CASE ClearNext(i)
    BY <2>6, ClearStep
  <2> QED BY <1>3, <2>1, <2>2, <2>3, <2>4, <2>5, <2>6 DEF Proceed
<1>4. ASSUME NEW i \in Clients, Respond(i)
      PROVE  RequestStep(i)
  <2>1. CASE Busy(i) \/ Reject(i)
    BY <2>1, LeavingStep
  <2>2. CASE Succeed(i)
    BY <2>2, SucceedStep
  <2>3. ASSUME NEW f \in Failures, Fail(i, f) \/ BreakOff(i, f)
        PROVE  RequestStep(i)
    BY <2>3, FailStep, BreakOffStep
  <2> QED BY <1>4, <2>1, <2>2, <2>3 DEF Respond
<1>5. ASSUME NEW i \in Clients,
             ClientLeaves(i) \/ WriteFails(i) \/ (\E t \in Readings(i) : ReadFails(i, t))
      PROVE  RequestStep(i)
  BY <1>5, LeavingStep, WriteFailsStep, ReadFailsStep
<1> QED BY <1>1, <1>2, <1>3, <1>4, <1>5 DEF Next

\* The clock moves on and the requests stay sound.
LEMMA SoundIsStable ==
  ASSUME now \in Nat, now' \in Nat, now <= now', NEW i \in Clients,
         req \in [Clients -> Requests], Sound(req[i]), req'[i] = req[i]
  PROVE  Sound(req[i])'
<1> DEFINE r == req[i]
<1>1. r \in Requests /\ Shape(r) /\ r.verdict.until \in Nat /\ r.keyUntil \in Nat
      /\ r.modUntil \in Nat /\ r.seen \in [Keys -> Nat]
  BY DEF Sound, Requests, Verdicts
<1>2. Shape(r)'
  BY <1>1 DEF Shape
<1>3. \A t \in Nat : Within(t) => Within(t)'
  BY WithinIsStable
<1>4. Within(r.verdict.until)' /\ Within(r.keyUntil)' /\ Within(r.modUntil)'
  <2>1. ASSUME NEW t \in {r.verdict.until, r.keyUntil, r.modUntil}
        PROVE  \E w \in Waits \cup Initials \cup {MaxCooldown} : t <= now' + w
    <3>1. t \in Nat /\ Within(t)
      BY <1>1 DEF Sound
    <3> QED BY <1>3, <3>1 DEF Within
  <2> QED BY <2>1 DEF Within
<1>5. HasKey(r) => HasKey(r)'
  BY <1>1 DEF HasKey
<1>6. r.at = "select" /\ r.tried = {} => HasKey(r)
  BY DEF Sound
<1>7. r' = r
  OBVIOUS
<1> QED BY <1>2, <1>4, <1>5, <1>6, <1>7 DEF Sound

\* Records that the step leaves alone stay as good as they are.
LEMMA RecordIsStable ==
  ASSUME IInv, now' \in Nat, now <= now', NEW x \in Things, cool'[x] = cool[x]
  PROVE  /\ Within(cool[x].until)'
         /\ OnlyBackoff /\ x[2] # Whole => (cool[x].dur <= MaxCooldown)'
<1>1. cool[x].until \in Nat /\ now \in Nat /\ Within(cool[x].until)
      /\ (OnlyBackoff /\ x[2] # Whole => cool[x].dur <= MaxCooldown)
  BY DEF IInv, TypeOK, DurationsLimited
<1>2. \A t \in Nat : Within(t) => Within(t)'
  BY <1>1, WithinIsStable
<1>3. \E w \in Waits \cup Initials \cup {MaxCooldown} : cool[x].until <= now' + w
  BY <1>1, <1>2 DEF Within
<1>4. Within(cool[x].until)'
  BY <1>3 DEF Within
<1> QED BY <1>1, <1>4

LEMMA InvInit == Init => IInv
<1> SUFFICES ASSUME Init
             PROVE  IInv
  OBVIOUS
<1>1. now = 1 /\ faults = 0 /\ cool = [x \in Things |-> Clear]
      /\ HistoriesOK
  BY DEF Init, HistoriesOK, Reasons
<1>2. \A i \in Clients : /\ req[i] \in Requests /\ req[i].at = "ended"
                         /\ req[i].verdict.until = 0 /\ req[i].keyUntil = 0
                         /\ req[i].modUntil = 0
  BY NamesAssumption DEF Init, Requests, Stages, Verdicts, NoVerdict
<1>3. Within(0)
  BY <1>1, PastIsWithin
<1>4. \A i \in Clients : Sound(req[i])
  BY <1>2, <1>3 DEF Sound, Shape
<1>5. TypeOK
  <2>1. req \in [Clients -> Requests]
    BY <1>2 DEF Init
  <2> QED BY <1>1, <2>1, TimesAssumption DEF TypeOK, Clear, HistoriesOK, Reasons
<1>6. \A x \in Things : Within(cool[x].until)
  BY <1>1, <1>3 DEF Clear
<1>7. DurationsLimited
  BY <1>1, TimesAssumption DEF DurationsLimited, Clear
<1> QED BY <1>4, <1>5, <1>6, <1>7 DEF IInv

\* The invariant is made of facts about single requests and single records.
LEMMA InvParts ==
  ASSUME TypeOK', \A i \in Clients : Sound(req[i])',
         \A x \in Things :
            /\ Within(cool[x].until)'
            /\ OnlyBackoff /\ x[2] # Whole => (cool[x].dur <= MaxCooldown)'
  PROVE  IInv'
BY DEF IInv, DurationsLimited

LEMMA RequestStepKeepsInv ==
  ASSUME IInv, NEW i \in Clients, RequestStep(i)
  PROVE  IInv'
<1>1. now \in Nat /\ now' = now /\ now' \in Nat /\ now <= now'
  BY Known DEF RequestStep
<1>2. PICK r : Sound(r) /\ req' = [req EXCEPT ![i] = r]
  BY DEF RequestStep, Becomes
<1>3. req \in [Clients -> Requests] /\ \A j \in Clients : Sound(req[j])
  BY DEF IInv, TypeOK
<1>4. Sound(r) /\ r \in Requests /\ req'[i] = r
  BY <1>2, <1>3 DEF Sound, Shape
<1>5. \A j \in Clients : Sound(req[j])'
  <2> SUFFICES ASSUME NEW j \in Clients
               PROVE  Sound(req[j])'
    OBVIOUS
  <2>1. CASE j = i
    BY <1>1, <1>4, <2>1 DEF Sound, Shape, Within, HasKey
  <2>2. CASE j # i
    <3>1. req'[j] = req[j]
      BY <1>2, <1>3, <2>2
    <3> QED BY <1>1, <1>3, <3>1, SoundIsStable
  <2> QED BY <2>1, <2>2
<1>6. cool \in [Things -> Records]
  BY Known
<1>7. CASE cool' = cool
  <2>1. TypeOK'
    BY <1>1, <1>2, <1>3, <1>4, <1>6, <1>7 DEF RequestStep, TypeOK, Records, HistoriesOK, Reasons
  <2>2. \A x \in Things :
           /\ Within(cool[x].until)'
           /\ OnlyBackoff /\ x[2] # Whole => (cool[x].dur <= MaxCooldown)'
    BY <1>1, <1>7, RecordIsStable
  <2> QED BY <1>5, <2>1, <2>2, InvParts
<1>8. CASE \E y \in Things, record \in Records : Recorded(y, record)
  <2>1. PICK y \in Things, record \in Records :
          Fine(y, record) /\ cool' = [cool EXCEPT ![y] = record]
    BY <1>8 DEF Recorded
  <2>2. TypeOK'
    <3>1. cool' \in [Things -> Records]
      BY <1>6, <2>1
    <3> QED BY <1>1, <1>2, <1>3, <1>4, <3>1 DEF RequestStep, TypeOK, Records, HistoriesOK, Reasons
  <2>3. ASSUME NEW x \in Things
        PROVE  /\ Within(cool[x].until)'
               /\ OnlyBackoff /\ x[2] # Whole => (cool[x].dur <= MaxCooldown)'
    <3>1. CASE x = y
      <4>1. cool'[x] = record
        BY <1>6, <2>1, <3>1
      <4> QED BY <1>1, <2>1, <3>1, <4>1 DEF Fine, Within
    <3>2. CASE x # y
      <4>1. cool'[x] = cool[x]
        BY <1>6, <2>1, <3>2
      <4> QED BY <1>1, <4>1, RecordIsStable
    <3> QED BY <3>1, <3>2
  <2> QED BY <1>5, <2>2, <2>3, InvParts
<1> QED BY <1>7, <1>8 DEF RequestStep

LEMMA InvStep == IInv /\ [Next]_vars => IInv'
<1> SUFFICES ASSUME IInv, [Next]_vars
             PROVE  IInv'
  OBVIOUS
<1>1. ASSUME NEW i \in Clients, RequestStep(i)
      PROVE  IInv'
  BY <1>1, RequestStepKeepsInv
<1>2. ASSUME now' \in Nat, now <= now',
             UNCHANGED <<cool, faults, req, reason, crossed, owed>>
      PROVE  IInv'
  <2>1. now \in Nat /\ req \in [Clients -> Requests] /\ \A i \in Clients : Sound(req[i])
    BY DEF IInv, TypeOK
  <2>2. TypeOK'
    BY <1>2 DEF IInv, TypeOK
  <2>3. \A i \in Clients : Sound(req[i])'
    BY <1>2, <2>1, SoundIsStable
  <2>4. \A x \in Things :
           /\ Within(cool[x].until)'
           /\ OnlyBackoff /\ x[2] # Whole => (cool[x].dur <= MaxCooldown)'
    BY <1>2, RecordIsStable
  <2> QED BY <2>2, <2>3, <2>4, InvParts
<1>3. now \in Nat
  BY DEF IInv, TypeOK
<1>4. CASE Tick
  BY <1>2, <1>3, <1>4 DEF Tick
<1>5. CASE UNCHANGED vars
  BY <1>2, <1>3, <1>5 DEF vars
<1> QED BY <1>1, <1>4, <1>5, Steps

LEMMA InvAlways == Spec => []IInv
BY InvInit, InvStep, PTL DEF Spec

-----------------------------------------------------------------------------
(* Theorems *)

\* The state is well formed in every behaviour.
THEOREM TypeCorrect == Spec => []TypeOK
<1>1. IInv => TypeOK
  BY DEF IInv
<1> QED BY <1>1, InvAlways, PTL

\* However many requests fail on a channel, one after the other or together,
\* nothing is out of use for longer than the limit of the back-off, a first
\* cooldown or the time an upstream has stated.
THEOREM CooldownsAreBounded == Spec => []WaitIsBounded
<1>1. IInv => WaitIsBounded
  BY DEF IInv, WaitIsBounded, Within
<1> QED BY <1>1, InvAlways, PTL

\* What a request saw on its entry to a channel is enough to find a key.
LEMMA FreshIsOffered ==
  ASSUME IInv, NEW i \in Clients, req[i].at = "select", req[i].tried = {}
  PROVE  Offered(req[i]) # {}
<1> DEFINE r == req[i]
           ends == {r.seen[k] : k \in Keys}
           ready == {k \in Keys : r.seen[k] <= now}
           first == {k \in Keys : \A l \in Keys : r.seen[k] <= r.seen[l]}
<1>1. r \in Requests /\ HasKey(r)
  BY Known DEF Sound
<1>2. r.seen \in [Keys -> Nat] /\ Keys \ r.tried = Keys
  BY <1>1 DEF Requests
<1>3. Offered(r) = IF ready = {} /\ r.fallback THEN first ELSE ready
  BY <1>2 DEF Offered
<1>4. first # {}
  <2>1. ends \in SUBSET Nat /\ ends # {}
    BY <1>2, NamesAssumption
  <2> HIDE DEF ends
  <2>2. Earliest(ends) \in ends
    BY <2>1, EarliestIsOne
  <2> USE DEF ends
  <2>3. PICK k \in Keys : r.seen[k] = Earliest(ends)
    BY <2>2
  <2>4. \A u \in ends : Earliest(ends) <= u
    BY <2>1, EarliestIsOne
  <2> QED BY <2>3, <2>4
<1>5. ready # {} \/ r.fallback
  BY <1>1 DEF HasKey
<1> HIDE DEF r
<1> QED BY <1>3, <1>4, <1>5 DEF r

\* A request that enters the key loop of a channel finds a key to try there,
\* whatever the others have done to the keys since the check at the entry.
THEOREM VisitsTryKeys == Spec => []VisitTriesKey
<1>1. IInv => VisitTriesKey
  BY FreshIsOffered DEF VisitTriesKey, At
<1> QED BY <1>1, InvAlways, PTL

\* Where no upstream states a recovery time and no first cooldown is above the
\* limit, a failure never brings a key or a model back early, whoever else
\* has failed on it before: only a success does, or a failure that read the
\* clock before the last one and is written after it, and then by no more than
\* lies between the two readings.
THEOREM FailuresOnlyLengthen ==
  ASSUME OnlyBackoff
  PROVE  Spec => FailuresNeverShorten
<1> DEFINE Lengthens(old, new) ==
             \/ new = Clear \/ new.until >= old.until
             \/ /\ ReadingOf(new) < ReadingOf(old)
                /\ old.until - new.until <= ReadingOf(old) - ReadingOf(new)
           Kept == \A c \in Channels, n \in Keys \cup Models :
             Lengthens(cool[<<c, n>>], cool'[<<c, n>>])
<1>1. ASSUME IInv, [Next]_vars
      PROVE  Kept
  <2>1. cool \in [Things -> Records]
    BY <1>1 DEF IInv, TypeOK, Records
  <2> SUFFICES ASSUME NEW c \in Channels, NEW n \in Keys \cup Models
               PROVE  Lengthens(cool[<<c, n>>], cool'[<<c, n>>])
    OBVIOUS
  <2> DEFINE x == <<c, n>>
  <2>2. x \in Things /\ x[2] # Whole
    BY NamesAssumption DEF Things
  <2>3. cool[x] \in Records
    BY <2>1, <2>2
  <2>4. \A old \in Records : Lengthens(old, old)
    BY DEF Records
  <2>5. \A old, new \in Records : new.dur >= old.dur => Lengthens(old, new)
    BY DEF Records, ReadingOf
  <2> HIDE DEF Lengthens
  <2>6. CASE cool' = cool
    BY <2>3, <2>4, <2>6
  <2>7. ASSUME NEW y \in Things, NEW record \in Records,
               Fine(y, record), cool' = [cool EXCEPT ![y] = record]
        PROVE  Lengthens(cool[x], cool'[x])
    <3>1. CASE x = y
      <4>1. cool'[x] = record
        BY <2>1, <2>2, <2>7, <3>1
      <4>2. record = Clear \/ record.dur >= cool[x].dur
        BY <2>2, <2>7, <3>1 DEF Fine
      <4> QED BY <2>3, <2>5, <4>1, <4>2 DEF Lengthens
    <3>2. CASE x # y
      BY <2>1, <2>2, <2>3, <2>4, <2>7, <3>2
    <3> QED BY <3>1, <3>2
  <2>8. \/ cool' = cool
        \/ \E y \in Things, record \in Records :
              Fine(y, record) /\ cool' = [cool EXCEPT ![y] = record]
    BY <1>1, Steps DEF RequestStep, Recorded, Tick, vars
  <2> QED BY <2>6, <2>7, <2>8
<1>2. IInv /\ [Next]_vars => [Kept]_vars
  BY <1>1
<1> QED BY <1>2, InvAlways, PTL DEF Spec, FailuresNeverShorten

-----------------------------------------------------------------------------
(* Who still has to look at a channel *)

\* The stages in which a request has no business with cooldown records.
Idle == {"ended", "visit", "select", "sent"}

\* A failure is of the channel visited or of a part of it, and only one of the
\* channel goes on without looking.
Blames(r) ==
  \/ r.verdict.on = Channel(r.chan)
  \/ r.verdict.on \in KeysOf(r.chan) \cup ModelsOf(r.chan) /\ r.verdict.then # "channel"

Judging(r) ==
  /\ r.at = "mark" => Blames(r)
  /\ r.at = "promote" => r.keyUntil > 0 \/ r.modUntil > 0

\* The request will cool channel c for its keys, or is about to clear one.
NoticesKeys(i, c) ==
  /\ req[i].chan = c
  /\ \/ req[i].at \in {"readKeys", "promote", "clearKey"}
     \/ req[i].at = "readModels" /\ req[i].keyUntil > 0

\* The same for its models.
NoticesModels(i, c) ==
  /\ req[i].chan = c
  /\ req[i].at \in {"readKeys", "readModels", "promote", "clearKey", "clearModel"}

Noticed(c) ==
  faults = 0 /\ cool[Channel(c)].until = 0 =>
    /\ AllKeysCooling(c) => \E i \in Clients : NoticesKeys(i, c)
    /\ AllModelsCooling(c) => \E i \in Clients : NoticesModels(i, c)

NoticeInv ==
  /\ IInv /\ now > 0
  /\ \A i \in Clients : Judging(req[i])
  /\ \A c \in Channels : Noticed(c)

\* A step of a request that has nothing to do with cooldown records.
Moves(i) ==
  /\ UNCHANGED <<now, cool, faults, reason, crossed>>
  /\ req[i].at \in Idle
  /\ \E r : /\ Becomes(i, r) /\ r.at \in Idle \cup {"mark", "clearChannel"}
            /\ r.at = "mark" => Blames(r)
            /\ r.keyUntil \in {0, req[i].keyUntil} /\ r.modUntil \in {0, req[i].modUntil}

LEMMA BetweenFields ==
  ASSUME NEW r \in Requests, NEW at \in {"ended", "visit"}
  PROVE  /\ Between(r, at) \in Requests /\ Between(r, at).at = at
         /\ Between(r, at).chan = None /\ Between(r, at).tried = {}
         /\ Between(r, at).keyUntil = 0 /\ Between(r, at).modUntil = 0
<1>1. NoVerdict \in Verdicts
  BY DEF NoVerdict, Verdicts
<1> QED BY <1>1 DEF Between, Requests, Stages

LEMMA EndedFields ==
  ASSUME NEW r \in Requests
  PROVE  /\ Ended(r).at = "ended" /\ Ended(r).chan = None /\ Ended(r).tried = {}
         /\ Ended(r).keyUntil = 0 /\ Ended(r).modUntil = 0
<1> DEFINE old == Between(r, "ended")
<1>1. old \in Requests /\ old.at = "ended" /\ old.tried = {} /\ old.chan = None
      /\ old.keyUntil = 0 /\ old.modUntil = 0
  BY BetweenFields
<1>2. Ended(r) = [old EXCEPT !.left = {}, !.fallback = FALSE]
  BY DEF Ended
<1> HIDE DEF old
<1> QED BY <1>1, <1>2 DEF Requests

LEMMA JudgedFields ==
  ASSUME NEW r \in Requests, NEW v \in Verdicts
  PROVE  /\ Judged(r, v).at = "mark" /\ Judged(r, v).chan = r.chan
         /\ Judged(r, v).verdict = v
         /\ Judged(r, v).keyUntil = r.keyUntil /\ Judged(r, v).modUntil = r.modUntil
<1> DEFINE old == IF v.then = "key" THEN r ELSE OutOfLoop(r)
<1>1. old \in Requests /\ old.chan = r.chan
      /\ old.keyUntil = r.keyUntil /\ old.modUntil = r.modUntil
  BY OutOfLoopFields
<1>2. Judged(r, v) = [old EXCEPT !.at = "mark", !.key = None, !.verdict = v, !.since = now]
  BY DEF Judged
<1> HIDE DEF old
<1> QED BY <1>1, <1>2 DEF Requests

LEMMA VerdictBlames ==
  ASSUME NEW c \in Channels, NEW k \in Keys, NEW m \in Models, NEW f \in Failures,
         NEW then \in {"key", "model", "channel"},
         NEW r, r.chan = c,
         r.verdict.on = Verdict(c, k, m, f).on, r.verdict.then = then,
         then = "channel" <=> Verdict(c, k, m, f).then = "channel"
  PROVE  Blames(r)
<1> DEFINE v == Verdict(c, k, m, f)
<1>1. <<c, k>> \in KeysOf(c) /\ <<c, m>> \in ModelsOf(c)
  BY DEF KeysOf, ModelsOf
<1>2. f.scope \in {"key", "model", "channel"}
  BY DEF Failures
<1>3. v.then = IF FallsBack(c, f) THEN "key" ELSE f.scope
  BY DEF Verdict
<1>4. v.on = CASE f.scope = "key" \/ FallsBack(c, f) -> <<c, k>>
               [] f.scope = "model" /\ ~FallsBack(c, f) -> <<c, m>>
               [] OTHER -> Channel(c)
  BY DEF Verdict
<1>5. v.on = Channel(c) \/ (v.on \in {<<c, k>>, <<c, m>>} /\ v.then # "channel")
  BY <1>2, <1>3, <1>4
<1> QED BY <1>1, <1>5 DEF Blames

LEMMA FailureMoves ==
  ASSUME IInv, NEW i \in Clients, NEW f \in Failures, Fail(i, f) \/ BreakOff(i, f)
  PROVE  Moves(i)
<1> DEFINE r == req[i]
           s == [req[i] EXCEPT !.left = {}, !.fallback = FALSE]
           v == Verdict(r.chan, r.key, r.model, f)
           w == [v EXCEPT !.then = IF @ = "key" THEN "model" ELSE @]
<1>1. r \in Requests /\ Sound(r) /\ r.at = "sent" /\ now \in Nat
  BY Known DEF Fail, BreakOff, At
<1>2. r.chan \in Channels /\ r.key \in Keys /\ r.model \in Models
  BY <1>1 DEF Sound, Shape, Requests
<1>3. s \in Requests /\ s.chan = r.chan /\ s.key = r.key /\ s.model = r.model
      /\ s.keyUntil = r.keyUntil /\ s.modUntil = r.modUntil
  BY <1>1 DEF Requests
<1>4. v \in Verdicts
  BY <1>1, <1>2, VerdictIsFit DEF Fit
<1>5. w \in Verdicts /\ w.on = v.on /\ (w.then = "channel" <=> v.then = "channel")
  BY <1>4 DEF Verdicts
<1>6. UNCHANGED <<now, cool, faults, reason, crossed>>
  BY DEF Fail, BreakOff, Settles
<1>7. \/ Becomes(i, Judged(r, v))
      \/ Becomes(i, Judged(s, w))
  BY <1>3 DEF Fail, BreakOff
<1>8. v.then \in {"key", "model", "channel"} /\ w.then \in {"key", "model", "channel"}
  BY <1>4, <1>5 DEF Verdicts
<1> HIDE DEF s, w
<1>9. Judged(r, v).at = "mark" /\ Blames(Judged(r, v))
  BY <1>1, <1>2, <1>4, <1>8, JudgedFields, VerdictBlames
<1>10. Judged(s, w).at = "mark" /\ Blames(Judged(s, w))
  BY <1>2, <1>3, <1>5, <1>8, JudgedFields, VerdictBlames
<1>11. /\ Judged(r, v).keyUntil = r.keyUntil /\ Judged(r, v).modUntil = r.modUntil
       /\ Judged(s, w).keyUntil = r.keyUntil /\ Judged(s, w).modUntil = r.modUntil
  BY <1>1, <1>3, <1>4, <1>5, JudgedFields
<1> QED BY <1>1, <1>6, <1>7, <1>9, <1>10, <1>11 DEF Moves, Idle

\* The steps that leave the cooldown records to others.
LEMMA PlainMoves ==
  ASSUME IInv, NEW i \in Clients,
         \/ \E m \in Models : Ask(i, m)
         \/ (\E c \in Channels : Visit(i, c)) \/ Answer(i)
         \/ (\E k \in Keys : SelectKey(i, k)) \/ KeysTried(i)
         \/ Busy(i) \/ Reject(i) \/ Succeed(i) \/ ClientLeaves(i)
  PROVE  Moves(i)
<1> DEFINE r == req[i]
<1>1. r \in Requests
  BY Known
<1>2. UNCHANGED <<now, cool, faults, reason, crossed>>
  BY DEF Ask, Visit, Answer, SelectKey, KeysTried, Busy, Reject, Succeed, ClientLeaves,
         OnlyRequest, Settles
<1>3. r.at \in Idle
  BY DEF Ask, Visit, Answer, SelectKey, KeysTried, Busy, Reject, Succeed, ClientLeaves,
         At, Idle
<1>4. ASSUME NEW s, Becomes(i, s), s.at \in Idle \cup {"clearChannel"},
             s.keyUntil \in {0, r.keyUntil}, s.modUntil \in {0, r.modUntil}
      PROVE  Moves(i)
  BY <1>2, <1>3, <1>4 DEF Moves, Idle
<1>5. LET s == Between(r, "visit")
      IN  s.at = "visit" /\ s.keyUntil = 0 /\ s.modUntil = 0
  BY <1>1, BetweenFields
<1>6. Ended(r).at = "ended" /\ Ended(r).keyUntil = 0 /\ Ended(r).modUntil = 0
  BY <1>1, EndedFields
<1>7. CASE KeysTried(i) \/ Busy(i) \/ Answer(i) \/ Reject(i) \/ ClientLeaves(i)
  BY <1>4, <1>5, <1>6, <1>7 DEF KeysTried, Busy, Answer, Reject, ClientLeaves, Idle
<1>8. ASSUME NEW m \in Models, Ask(i, m)
      PROVE  Moves(i)
  <2> DEFINE s == [r EXCEPT !.at = "visit", !.model = m]
  <2>1. s \in Requests /\ s.at = "visit"
        /\ s.keyUntil = r.keyUntil /\ s.modUntil = r.modUntil
    BY <1>1 DEF Requests, Stages
  <2>2. \/ Becomes(i, [s EXCEPT !.left = Candidates(m)])
        \/ \E c \in Channels : Becomes(i, [s EXCEPT !.left = {c}, !.fallback = TRUE])
        \/ Becomes(i, Ended(s))
    BY <1>8 DEF Ask
  <2> HIDE DEF s
  <2>3. ASSUME NEW left, NEW fallback
        PROVE  LET t == [s EXCEPT !.left = left, !.fallback = fallback]
               IN  t.at = "visit" /\ t.keyUntil = s.keyUntil /\ t.modUntil = s.modUntil
    BY <2>1 DEF Requests
  <2>4. ASSUME NEW left
        PROVE  LET t == [s EXCEPT !.left = left]
               IN  t.at = "visit" /\ t.keyUntil = s.keyUntil /\ t.modUntil = s.modUntil
    BY <2>1 DEF Requests
  <2>5. Ended(s).at = "ended" /\ Ended(s).keyUntil = 0 /\ Ended(s).modUntil = 0
    BY <2>1, EndedFields
  <2>6. CASE Becomes(i, [s EXCEPT !.left = Candidates(m)])
    BY <1>4, <2>1, <2>4, <2>6 DEF Idle
  <2>7. ASSUME NEW c, Becomes(i, [s EXCEPT !.left = {c}, !.fallback = TRUE])
        PROVE  Moves(i)
    BY <1>4, <2>1, <2>3, <2>7 DEF Idle
  <2> QED BY <1>4, <2>2, <2>5, <2>6, <2>7 DEF Idle
<1>9. ASSUME NEW c \in Channels, Visit(i, c)
       PROVE  Moves(i)
  <2> DEFINE s == [r EXCEPT !.left = @ \ {c}]
             seen == [k \in Keys |-> StillCooling(<<c, k>>)]
             t == [s EXCEPT !.at = "select", !.chan = c, !.seen = seen]
  <2>1. Becomes(i, s) \/ Becomes(i, t)
    BY <1>9 DEF Visit
  <2>2. s \in Requests /\ s.at = r.at
        /\ s.keyUntil = r.keyUntil /\ s.modUntil = r.modUntil
    BY <1>1 DEF Requests
  <2> HIDE DEF s, seen
  <2>3. t.at = "select" /\ t.keyUntil = r.keyUntil /\ t.modUntil = r.modUntil
    BY <2>2 DEF Requests
  <2> QED BY <1>3, <1>4, <2>1, <2>2, <2>3 DEF Idle
<1>10. ASSUME NEW k \in Keys, SelectKey(i, k)
       PROVE  Moves(i)
  <2> DEFINE s == [r EXCEPT !.at = "sent", !.key = k, !.tried = @ \cup {k}]
  <2>1. Becomes(i, s)
    BY <1>10 DEF SelectKey
  <2>2. s.at = "sent" /\ s.keyUntil = r.keyUntil /\ s.modUntil = r.modUntil
    BY <1>1 DEF Requests
  <2> QED BY <1>4, <2>1, <2>2 DEF Idle
<1>11. CASE Succeed(i)
  <2> DEFINE old == OutOfLoop(r)
             s == [old EXCEPT !.at = "clearChannel", !.left = {}, !.fallback = FALSE]
  <2>1. Becomes(i, s)
    BY <1>11 DEF Succeed
  <2>2. old \in Requests /\ old.keyUntil = r.keyUntil /\ old.modUntil = r.modUntil
    BY <1>1, OutOfLoopFields
  <2> HIDE DEF old
  <2>3. s.at = "clearChannel" /\ s.keyUntil = r.keyUntil /\ s.modUntil = r.modUntil
    BY <2>2 DEF Requests
  <2> QED BY <1>4, <2>1, <2>3
<1> QED BY <1>7, <1>8, <1>9, <1>10, <1>11

LEMMA AfterMark ==
  ASSUME NEW r \in Requests, r.at = "mark"
  PROVE  /\ r.verdict.then = "channel" => AfterWrite(r).at = "visit"
         /\ r.verdict.then # "channel" => AfterWrite(r).at = "readKeys" /\ AfterWrite(r).chan = r.chan
         /\ r.verdict.then = "channel" => AfterWrite(r).tried = {}
<1>1. CASE r.verdict.then = "channel"
  <2>1. AfterWrite(r) = Between(r, "visit")
    BY <1>1 DEF AfterWrite
  <2> QED BY <1>1, <2>1, BetweenFields
<1>2. CASE r.verdict.then # "channel"
  <2> DEFINE v == [NoVerdict EXCEPT !.then = r.verdict.then]
  <2>1. AfterWrite(r) = [r EXCEPT !.at = "readKeys", !.since = now, !.verdict = v]
    BY <1>2 DEF AfterWrite
  <2> HIDE DEF v
  <2> QED BY <1>2, <2>1 DEF Requests
<1> QED BY <1>1, <1>2

LEMMA AfterClear ==
  ASSUME NEW r \in Requests
  PROVE  /\ r.at = "clearChannel" => AfterWrite(r) = [r EXCEPT !.at = "clearKey"]
         /\ r.at = "clearKey" => AfterWrite(r) = [r EXCEPT !.at = "clearModel"]
         /\ r.at = "clearModel" => AfterWrite(r) = Ended(r)
         /\ r.at = "promote" => AfterWrite(r) = Between(r, "visit")
         /\ [r EXCEPT !.at = "clearKey"].at = "clearKey"
         /\ [r EXCEPT !.at = "clearKey"].chan = r.chan
         /\ [r EXCEPT !.at = "clearModel"].at = "clearModel"
         /\ [r EXCEPT !.at = "clearModel"].chan = r.chan
BY DEF AfterWrite, Requests

\* A promoted channel is left for another one, a cleared record for the next or the end.
LEMMA AfterLastWrite ==
  ASSUME NEW r \in Requests
  PROVE  /\ r.at = "promote" => AfterWrite(r).at = "visit"
         /\ r.at = "clearModel" => AfterWrite(r).at = "ended"
<1>1. CASE r.at = "promote"
  <2>1. AfterWrite(r) = Between(r, "visit")
    BY <1>1, AfterClear
  <2>2. Between(r, "visit").at = "visit"
    BY BetweenFields
  <2> QED BY <1>1, <2>1, <2>2
<1>2. CASE r.at = "clearModel"
  <2>1. AfterWrite(r) = Ended(r)
    BY <1>2, AfterClear
  <2>2. Ended(r).at = "ended"
    BY EndedFields
  <2> QED BY <1>2, <2>1, <2>2
<1> QED BY <1>1, <1>2

LEMMA ExhaustingFields ==
  ASSUME NEW r \in Requests
  PROVE  /\ Exhausting(r).at = "promote" /\ Exhausting(r).chan = r.chan
         /\ Exhausting(r).keyUntil = r.keyUntil /\ Exhausting(r).modUntil = r.modUntil
<1> DEFINE old == OutOfLoop(r)
<1>1. old \in Requests /\ old.chan = r.chan
      /\ old.keyUntil = r.keyUntil /\ old.modUntil = r.modUntil
  BY OutOfLoopFields
<1>2. Exhausting(r) = [old EXCEPT !.at = "promote", !.verdict = NoVerdict]
  BY DEF Exhausting
<1> HIDE DEF old
<1> QED BY <1>1, <1>2 DEF Requests

LEMMA ResumedFields ==
  ASSUME NEW r \in Requests
  PROVE  /\ Resumed(r).at \in {"select", "visit"}
         /\ Resumed(r).at = "visit" => Resumed(r).tried = {}
         /\ Resumed(r).keyUntil = 0 /\ Resumed(r).modUntil = 0
<1>1. CASE r.verdict.then = "key"
  <2> DEFINE s == [r EXCEPT !.at = "select", !.verdict = NoVerdict, !.since = 0,
                            !.keyUntil = 0, !.modUntil = 0]
  <2>1. Resumed(r) = s
    BY <1>1 DEF Resumed
  <2>2. s.at = "select" /\ s.keyUntil = 0 /\ s.modUntil = 0
    BY DEF Requests
  <2> QED BY <2>1, <2>2
<1>2. CASE r.verdict.then # "key"
  <2>1. Resumed(r) = Between(r, "visit")
    BY <1>2 DEF Resumed
  <2> QED BY <2>1, BetweenFields
<1> QED BY <1>1, <1>2

\* What is left of Next besides the steps above.
LEMMA StepKinds ==
  ASSUME IInv, Next
  PROVE  \/ Tick
         \/ \E i \in Clients :
              \/ Moves(i) \/ ClearNext(i) \/ WriteFails(i)
              \/ \E t \in Readings(i) : \/ \E n \in Initials : Mark(i, n, t)
                                       \/ ReadKeys(i, t) \/ ReadModels(i, t) \/ Promote(i, t)
                                       \/ ReadFails(i, t)
<1>1. ASSUME NEW i \in Clients, Respond(i)
      PROVE  Moves(i)
  BY <1>1, PlainMoves, FailureMoves DEF Respond
<1>2. ASSUME NEW i \in Clients, Proceed(i)
      PROVE  \/ Moves(i) \/ ClearNext(i)
             \/ \E t \in Readings(i) : \/ \E n \in Initials : Mark(i, n, t)
                                      \/ ReadKeys(i, t) \/ ReadModels(i, t) \/ Promote(i, t)
  BY <1>2, PlainMoves DEF Proceed
<1>3. ASSUME NEW i \in Clients, (\E m \in Models : Ask(i, m)) \/ ClientLeaves(i)
      PROVE  Moves(i)
  BY <1>3, PlainMoves
<1> QED BY <1>1, <1>2, <1>3 DEF Next

\* Whether requests and channels keep it depends on the one that moves.
LEMMA JudgingKept ==
  ASSUME IInv, NEW i \in Clients, NEW r, Becomes(i, r), now' = now,
         \A j \in Clients : Judging(req[j]), Judging(r)
  PROVE  \A j \in Clients : Judging(req[j])'
<1> SUFFICES ASSUME NEW j \in Clients
             PROVE  Judging(req[j])'
  OBVIOUS
<1>1. req \in [Clients -> Requests]
  BY DEF IInv, TypeOK
<1>2. req'[j] = req[j] \/ req'[j] = r
  BY <1>1 DEF Becomes
<1>3. Judging(req[j])
  OBVIOUS
<1> QED BY <1>2, <1>3 DEF Judging, Blames

LEMMA NoticeKept ==
  ASSUME IInv, NEW i \in Clients, NEW c \in Channels, NEW r, Becomes(i, r), Noticed(c),
         faults' = faults,
         cool[Channel(c)].until = 0 \/ cool'[Channel(c)].until # 0
           \/ (NoticesKeys(i, c)' /\ NoticesModels(i, c)'),
         AllKeysCooling(c)' => AllKeysCooling(c) \/ NoticesKeys(i, c)',
         AllModelsCooling(c)' => AllModelsCooling(c) \/ NoticesModels(i, c)',
         NoticesKeys(i, c) /\ AllKeysCooling(c)' => NoticesKeys(i, c)',
         NoticesModels(i, c) /\ AllModelsCooling(c)' => NoticesModels(i, c)'
  PROVE  Noticed(c)'
<1>1. req \in [Clients -> Requests]
  BY DEF IInv, TypeOK
<1>2. \A j \in Clients : j # i => req'[j] = req[j]
  BY <1>1 DEF Becomes
<1>3. ASSUME NEW j \in Clients, NoticesKeys(j, c), AllKeysCooling(c)'
      PROVE  \E k \in Clients : NoticesKeys(k, c)'
  BY <1>2, <1>3 DEF NoticesKeys
<1>4. ASSUME NEW j \in Clients, NoticesModels(j, c), AllModelsCooling(c)'
      PROVE  \E k \in Clients : NoticesModels(k, c)'
  BY <1>2, <1>4 DEF NoticesModels
<1>5. CASE cool[Channel(c)].until = 0 /\ faults = 0
  <2>1. AllKeysCooling(c) => \E j \in Clients : NoticesKeys(j, c)
    BY <1>5 DEF Noticed
  <2>2. AllModelsCooling(c) => \E j \in Clients : NoticesModels(j, c)
    BY <1>5 DEF Noticed
  <2>3. AllKeysCooling(c)' => \E j \in Clients : NoticesKeys(j, c)'
    BY <1>3, <2>1
  <2>4. AllModelsCooling(c)' => \E j \in Clients : NoticesModels(j, c)'
    BY <1>4, <2>2
  <2> QED BY <2>3, <2>4 DEF Noticed
<1>6. CASE faults' # 0 \/ cool'[Channel(c)].until # 0
  BY <1>6 DEF Noticed
<1>7. CASE NoticesKeys(i, c)' /\ NoticesModels(i, c)'
  BY <1>7 DEF Noticed
<1> QED BY <1>5, <1>6, <1>7

\* Records of other channels, and those a step leaves alone, keep cooling.
LEMMA SameRecords ==
  ASSUME NEW c \in Channels, now' = now, \A x \in KeysOf(c) : cool'[x] = cool[x]
  PROVE  AllKeysCooling(c)' <=> AllKeysCooling(c)
BY DEF AllKeysCooling, Cooling, CoolingAt, KeysOf

LEMMA SameModels ==
  ASSUME NEW c \in Channels, now' = now, \A x \in ModelsOf(c) : cool'[x] = cool[x]
  PROVE  AllModelsCooling(c)' <=> AllModelsCooling(c)
BY DEF AllModelsCooling, Cooling, CoolingAt, ModelsOf

\* Records of different channels and of different kinds are different.
LEMMA OwnRecords ==
  ASSUME NEW c \in Channels, NEW d \in Channels,
         NEW x \in KeysOf(d) \cup ModelsOf(d) \cup {Channel(d)}
  PROVE  /\ c # d => x \notin KeysOf(c) \cup ModelsOf(c) \cup {Channel(c)}
         /\ x \in KeysOf(d) => x \notin ModelsOf(d) \cup {Channel(d)}
         /\ x \in ModelsOf(d) => x # Channel(d)
         /\ x \in Things
<1>1. Keys \cap Models = {} /\ Whole \notin Keys \cup Models
  BY NamesAssumption
<1>2. x[1] = d /\ x[2] \in Keys \cup Models \cup {Whole} /\ x \in Things
  BY DEF KeysOf, ModelsOf, Channel, Things
<1>3. /\ x \in KeysOf(d) => x[2] \in Keys
      /\ x \in ModelsOf(d) => x[2] \in Models
      /\ x = Channel(d) => x[2] = Whole
  BY DEF KeysOf, ModelsOf, Channel
<1>4. \A y \in KeysOf(c) \cup ModelsOf(c) \cup {Channel(c)} : y[1] = c
  BY DEF KeysOf, ModelsOf, Channel
<1> QED BY <1>1, <1>2, <1>3, <1>4

\* The parts of the invariant that the steps below start from.
LEMMA NoticeKnown ==
  ASSUME NoticeInv, NEW i \in Clients
  PROVE  /\ IInv /\ now \in Nat /\ now > 0 /\ cool \in [Things -> Records]
         /\ req[i] \in Requests /\ Sound(req[i]) /\ Judging(req[i])
         /\ \A c \in Channels : Noticed(c) /\ Channel(c) \in Things
BY Known, OwnRecords DEF NoticeInv

LEMMA MovesNotices ==
  ASSUME NoticeInv, NEW i \in Clients, Moves(i)
  PROVE  (\A j \in Clients : Judging(req[j])') /\ \A c \in Channels : Noticed(c)'
<1>1. PICK r : /\ Becomes(i, r) /\ r.at \in Idle \cup {"mark", "clearChannel"}
               /\ r.at = "mark" => Blames(r)
  BY DEF Moves
<1>2. Judging(r)
  BY <1>1 DEF Judging, Idle
<1>3. \A j \in Clients : Judging(req[j])'
  BY <1>1, <1>2, JudgingKept, NoticeKnown DEF Moves, NoticeInv
<1>4. ASSUME NEW c \in Channels
      PROVE  Noticed(c)'
  <2>1. ~NoticesKeys(i, c) /\ ~NoticesModels(i, c)
    BY DEF Moves, Idle, NoticesKeys, NoticesModels
  <2>2. (AllKeysCooling(c)' <=> AllKeysCooling(c)) /\ (AllModelsCooling(c)' <=> AllModelsCooling(c))
    BY SameRecords, SameModels DEF Moves
  <2>3. faults' = faults /\ (cool[Channel(c)].until = 0 \/ cool'[Channel(c)].until # 0)
    BY DEF Moves
  <2> QED BY <1>1, <2>1, <2>2, <2>3, NoticeKnown, NoticeKept
<1> QED BY <1>3, <1>4

\* A failure is written, and the request goes on to look at the channel.
LEMMA MarkNotices ==
  ASSUME NoticeInv, NEW i \in Clients, NEW initial \in Initials, NEW t \in Readings(i),
         Mark(i, initial, t)
  PROVE  (\A j \in Clients : Judging(req[j])') /\ \A c \in Channels : Noticed(c)'
<1> DEFINE r == req[i]
           x == r.verdict.on
           new == IF r.verdict.until > 0 THEN SetTo(r.verdict.until, t)
                  ELSE Bumped(cool[x], initial, t)
           s == AfterWrite(r)
<1>1. IInv /\ now \in Nat /\ now > 0 /\ cool \in [Things -> Records] /\ r \in Requests
      /\ Sound(r) /\ r.at = "mark" /\ Blames(r)
  BY NoticeKnown DEF Mark, At, Judging
<1>2. r.chan \in Channels /\ x \in Things /\ r.verdict.until \in Nat /\ t \in Nat /\ t <= now
  BY <1>1, ReadingIsPast DEF Sound, Shape, Requests, Verdicts
<1>3. cool' = [cool EXCEPT ![x] = new] /\ Becomes(i, s) /\ now' = now /\ faults' = faults
  BY DEF Mark, Written
<1>4. new.until > 0
  <2>1. CASE r.verdict.until > 0
    BY <2>1, <1>1, <1>2, SetRecord
  <2>2. CASE ~(r.verdict.until > 0)
    <3>1. cool[x] \in Records
      BY <1>1, <1>2
    <3>2. Bumped(cool[x], initial, t).until > 0
      BY <1>1, <1>2, <3>1, BumpedRecord
    <3> QED BY <2>2, <3>2
  <2> QED BY <2>1, <2>2
<1>5. \/ r.verdict.then = "channel" /\ s.at = "visit"
      \/ r.verdict.then # "channel" /\ s.at = "readKeys" /\ s.chan = r.chan
  BY <1>1, AfterMark
<1>6. \A y \in Things : y # x => cool'[y] = cool[y]
  BY <1>1, <1>3
<1>7. cool'[x] = new
  BY <1>1, <1>2, <1>3
<1>8. req'[i] = s
  BY <1>1, <1>3 DEF Becomes, IInv, TypeOK
<1>9. r.at = "mark" /\ req[i] = r
  BY <1>1
<1> HIDE DEF new, s
<1>10. Judging(s)
  BY <1>5 DEF Judging
<1>11. \A j \in Clients : Judging(req[j])'
  BY <1>1, <1>3, <1>10, JudgingKept DEF NoticeInv
<1>12. ASSUME NEW c \in Channels
       PROVE  Noticed(c)'
  <2>1. ~NoticesKeys(i, c) /\ ~NoticesModels(i, c)
    BY <1>9 DEF NoticesKeys, NoticesModels
  <2>2. Noticed(c)
    BY NoticeKnown
  <2>3. KeysOf(c) \in SUBSET Things /\ ModelsOf(c) \in SUBSET Things /\ Channel(c) \in Things
    BY KeysAndModels, NoticeKnown
  <2>4. CASE r.chan # c
    <3>1. x \notin KeysOf(c) \cup ModelsOf(c) \cup {Channel(c)}
      BY <1>1, <1>2, <2>4, OwnRecords DEF Blames
    <3>2. (AllKeysCooling(c)' <=> AllKeysCooling(c)) /\ (AllModelsCooling(c)' <=> AllModelsCooling(c))
      BY <1>3, <1>6, <2>3, <3>1, SameRecords, SameModels
    <3>3. cool'[Channel(c)] = cool[Channel(c)]
      BY <1>6, <2>3, <3>1
    <3> QED BY <1>1, <1>3, <2>1, <2>2, <3>2, <3>3, NoticeKept
  <2>5. CASE r.chan = c /\ x = Channel(c)
    <3>1. cool'[Channel(c)].until # 0
      BY <1>4, <1>7, <2>5
    <3> QED BY <3>1 DEF Noticed
  <2>6. CASE r.chan = c /\ x # Channel(c)
    <3>1. r.verdict.then # "channel"
      BY <1>1, <2>6 DEF Blames
    <3>2. NoticesKeys(i, c)' /\ NoticesModels(i, c)'
      BY <1>5, <1>8, <2>6, <3>1 DEF NoticesKeys, NoticesModels
    <3> QED BY <3>2 DEF Noticed
  <2> QED BY <2>4, <2>5, <2>6
<1> QED BY <1>11, <1>12

LEMMA ReadKeysNotices ==
  ASSUME NoticeInv, NEW i \in Clients, NEW t \in Readings(i), ReadKeys(i, t)
  PROVE  (\A j \in Clients : Judging(req[j])') /\ \A c \in Channels : Noticed(c)'
<1> DEFINE r == req[i]
           keys == KeysOf(r.chan)
           first == Earliest({cool[x].until : x \in keys})
           until == IF \A x \in keys : CoolingAt(x, t) THEN first ELSE 0
           s == [r EXCEPT !.at = "readModels", !.since = t, !.keyUntil = until]
<1>1. IInv /\ now \in Nat /\ cool \in [Things -> Records] /\ r \in Requests
      /\ r.at = "readKeys" /\ r.chan \in Channels /\ t \in Nat /\ t <= now
  BY NoticeKnown, ReadingIsPast DEF ReadKeys, At, Sound, Shape
<1>2. Becomes(i, s) /\ UNCHANGED <<now, cool, faults>>
  BY DEF ReadKeys, OnlyRequest
<1>3. s.at = "readModels" /\ s.keyUntil = until /\ s.chan = r.chan
  BY <1>1 DEF Requests
<1>4. AllKeysCooling(r.chan) => until > 0
  <2> SUFFICES ASSUME AllKeysCooling(r.chan)
               PROVE  until > 0
    OBVIOUS
  <2> DEFINE times == {cool[x].until : x \in keys}
  <2>1. until = first
    <3>1. \A x \in keys : cool[x].until \in Nat /\ cool[x].until > now
      BY <1>1, KeysAndModels DEF AllKeysCooling, Cooling, CoolingAt, Records
    <3>2. \A u \in Nat : u > now => u > t
      BY <1>1
    <3>3. \A x \in keys : CoolingAt(x, t)
      BY <3>1, <3>2 DEF CoolingAt
    <3> QED BY <3>3
  <2>2. times \in SUBSET Nat /\ times # {} /\ \A u \in times : u > now
    BY <1>1, KeysAndModels DEF AllKeysCooling, Cooling, CoolingAt, Records
  <2> HIDE DEF times
  <2>3. Earliest(times) \in times
    BY <2>2, EarliestIsOne
  <2>4. Earliest(times) > 0
    <3>1. \A u \in Nat : u > now => u > 0
      BY <1>1
    <3> QED BY <2>2, <2>3, <3>1
  <2> QED BY <2>1, <2>4 DEF times
<1>5. req'[i] = s
  BY <1>1, <1>2 DEF Becomes, IInv, TypeOK
<1>6. req[i] = r
  OBVIOUS
<1> HIDE DEF until, s
<1>7. Judging(s)
  BY <1>1, <1>3 DEF Judging
<1>8. \A j \in Clients : Judging(req[j])'
  BY <1>1, <1>2, <1>7, JudgingKept DEF NoticeInv
<1>9. ASSUME NEW c \in Channels
      PROVE  Noticed(c)'
  <2>1. (AllKeysCooling(c)' <=> AllKeysCooling(c)) /\ (AllModelsCooling(c)' <=> AllModelsCooling(c))
    BY <1>2, SameRecords, SameModels
  <2>2. Noticed(c) /\ faults' = faults
        /\ (cool[Channel(c)].until = 0 \/ cool'[Channel(c)].until # 0)
    BY <1>2, NoticeKnown
  <2>3. NoticesKeys(i, c) /\ AllKeysCooling(c)' => NoticesKeys(i, c)'
    BY <1>3, <1>4, <1>5, <1>6, <2>1 DEF NoticesKeys
  <2>4. NoticesModels(i, c) => NoticesModels(i, c)'
    BY <1>3, <1>5, <1>6 DEF NoticesModels
  <2> QED BY <1>1, <1>2, <2>1, <2>2, <2>3, <2>4, NoticeKept
<1> QED BY <1>8, <1>9

LEMMA ReadModelsNotices ==
  ASSUME NoticeInv, NEW i \in Clients, NEW t \in Readings(i), ReadModels(i, t)
  PROVE  (\A j \in Clients : Judging(req[j])') /\ \A c \in Channels : Noticed(c)'
<1> DEFINE r == req[i]
           models == ModelsOf(r.chan)
           cooled == \A x \in models : CoolingAt(x, t)
           first == Earliest({cool[x].until : x \in models})
           until == IF cooled THEN first ELSE 0
           q == [r EXCEPT !.modUntil = until]
           s == IF Exhausted(q) THEN Exhausting(q) ELSE Resumed(q)
<1>1. IInv /\ now \in Nat /\ cool \in [Things -> Records] /\ r \in Requests
      /\ r.at = "readModels" /\ r.chan \in Channels /\ t \in Nat /\ t <= now
  BY NoticeKnown, ReadingIsPast DEF ReadModels, At, Sound, Shape
<1>2. Becomes(i, s) /\ UNCHANGED <<now, cool, faults>>
  BY DEF ReadModels, OnlyRequest
<1>3. first \in Nat
  BY <1>1, KeysAndModels, EarliestIsWithin
<1>4. AllModelsCooling(r.chan) => until > 0
  <2> SUFFICES ASSUME AllModelsCooling(r.chan)
               PROVE  until > 0
    OBVIOUS
  <2> DEFINE times == {cool[x].until : x \in models}
  <2>1. times \in SUBSET Nat /\ times # {} /\ \A u \in times : u > now
    BY <1>1, KeysAndModels DEF AllModelsCooling, Cooling, CoolingAt, Records
  <2>2. \A x \in models : CoolingAt(x, t)
    <3>1. \A x \in models : cool[x].until \in times
      OBVIOUS
    <3>2. \A u \in Nat : u > now => u > t
      BY <1>1
    <3> HIDE DEF times
    <3> QED BY <2>1, <3>1, <3>2 DEF CoolingAt
  <2>3. until = first
    BY <2>2
  <2> HIDE DEF times
  <2>4. Earliest(times) \in times
    BY <2>1, EarliestIsOne
  <2>5. Earliest(times) > 0
    <3>1. \A u \in Nat : u > now => u > 0
      BY <1>1
    <3> QED BY <2>1, <2>4, <3>1
  <2> QED BY <2>3, <2>5 DEF times
<1>5. req'[i] = s /\ req[i] = r
  BY <1>1, <1>2 DEF Becomes, IInv, TypeOK
<1>6. until \in Nat
  BY <1>3
<1> HIDE DEF until
<1>7. q \in Requests /\ q.chan = r.chan /\ q.keyUntil = r.keyUntil /\ q.modUntil = until
  BY <1>1, <1>6 DEF Requests
<1> HIDE DEF q
<1>8. Exhausted(q) => /\ s.at = "promote" /\ s.chan = r.chan
                      /\ s.keyUntil = r.keyUntil /\ s.modUntil = until
  BY <1>7, ExhaustingFields
<1>9. ~Exhausted(q) => s.at \in {"select", "visit"}
  BY <1>7, ResumedFields
<1>10. Exhausted(q) <=> r.keyUntil > 0 \/ until > 0
  BY <1>7 DEF Exhausted
<1> HIDE DEF s
<1>11. Judging(s)
  BY <1>8, <1>9, <1>10 DEF Judging
<1>12. \A j \in Clients : Judging(req[j])'
  BY <1>1, <1>2, <1>11, JudgingKept DEF NoticeInv
<1>13. ASSUME NEW c \in Channels
       PROVE  Noticed(c)'
  <2>1. (AllKeysCooling(c)' <=> AllKeysCooling(c)) /\ (AllModelsCooling(c)' <=> AllModelsCooling(c))
    BY <1>2, SameRecords, SameModels
  <2>2. Noticed(c) /\ faults' = faults
        /\ (cool[Channel(c)].until = 0 \/ cool'[Channel(c)].until # 0)
    BY <1>2, NoticeKnown
  <2>3. NoticesKeys(i, c) => NoticesKeys(i, c)'
    BY <1>1, <1>5, <1>8, <1>10 DEF NoticesKeys
  <2>4. NoticesModels(i, c) /\ AllModelsCooling(c)' => NoticesModels(i, c)'
    BY <1>4, <1>5, <1>8, <1>10, <2>1 DEF NoticesModels
  <2> QED BY <1>1, <1>2, <2>1, <2>2, <2>3, <2>4, NoticeKept
<1> QED BY <1>12, <1>13

LEMMA PromoteNotices ==
  ASSUME NoticeInv, NEW i \in Clients, NEW t \in Readings(i), Promote(i, t)
  PROVE  (\A j \in Clients : Judging(req[j])') /\ \A c \in Channels : Noticed(c)'
<1> DEFINE r == req[i]
           until == Later(r.keyUntil, r.modUntil)
           s == AfterWrite(r)
           x == Channel(r.chan)
<1>1. IInv /\ cool \in [Things -> Records] /\ r \in Requests /\ r.at = "promote"
      /\ r.chan \in Channels /\ (r.keyUntil > 0 \/ r.modUntil > 0) /\ now \in Nat
      /\ t \in Nat
  BY NoticeKnown, ReadingIsPast DEF Promote, At, Sound, Shape, Judging
<1>2. Becomes(i, s) /\ cool' = [cool EXCEPT ![x] = SetTo(until, t)] /\ UNCHANGED <<now, faults>>
  BY DEF Promote, Written
<1>3. until \in Nat /\ until > 0
  BY <1>1 DEF Later, Requests
<1>4. SetTo(until, t).until = until
  BY <1>1, <1>3, SetRecord
<1>5. s.at = "visit"
  BY <1>1, AfterLastWrite
<1>6. req[i].chan = r.chan /\ x \in Things
  BY <1>1, OwnRecords
<1> HIDE DEF until, s
<1>7. Judging(s)
  BY <1>5 DEF Judging
<1>8. \A j \in Clients : Judging(req[j])'
  BY <1>1, <1>2, <1>7, JudgingKept DEF NoticeInv
<1>9. ASSUME NEW c \in Channels
      PROVE  Noticed(c)'
  <2>1. CASE r.chan = c
    <3>1. cool'[Channel(c)].until # 0
      BY <1>1, <1>2, <1>3, <1>4, <1>6, <2>1
    <3> QED BY <3>1 DEF Noticed
  <2>2. CASE r.chan # c
    <3>1. KeysOf(c) \in SUBSET Things /\ ModelsOf(c) \in SUBSET Things /\ Channel(c) \in Things
      BY KeysAndModels, NoticeKnown
    <3>2. x \notin KeysOf(c) \cup ModelsOf(c) \cup {Channel(c)}
      BY <1>1, <2>2, OwnRecords
    <3>3. \A y \in KeysOf(c) \cup ModelsOf(c) \cup {Channel(c)} : cool'[y] = cool[y]
      BY <1>1, <1>2, <3>1, <3>2
    <3>4. (AllKeysCooling(c)' <=> AllKeysCooling(c)) /\ (AllModelsCooling(c)' <=> AllModelsCooling(c))
      BY <1>2, <3>3, SameRecords, SameModels
    <3>5. cool'[Channel(c)] = cool[Channel(c)]
      BY <3>3
    <3>6. ~NoticesKeys(i, c) /\ ~NoticesModels(i, c)
      BY <1>6, <2>2 DEF NoticesKeys, NoticesModels
    <3>7. Noticed(c)
      BY NoticeKnown
    <3> QED BY <1>1, <1>2, <3>4, <3>5, <3>6, <3>7, NoticeKept
  <2> QED BY <2>1, <2>2
<1> QED BY <1>8, <1>9

\* A request that clears its channel goes on to clear a key and a model of it.
LEMMA ClearNotices ==
  ASSUME NoticeInv, NEW i \in Clients, ClearNext(i)
  PROVE  (\A j \in Clients : Judging(req[j])') /\ \A c \in Channels : Noticed(c)'
<1> DEFINE r == req[i]
           s == AfterWrite(r)
<1>1. IInv /\ cool \in [Things -> Records] /\ r \in Requests /\ now \in Nat
      /\ r.at \in {"clearChannel", "clearKey", "clearModel"}
      /\ r.chan \in Channels /\ r.key \in Keys /\ r.model \in Models
  BY NoticeKnown DEF ClearNext, Sound, Shape, Requests
<1> PICK x : x = Cleared(r)
  OBVIOUS
<1>2. Becomes(i, s) /\ cool' = [cool EXCEPT ![x] = Clear] /\ UNCHANGED <<now, faults>>
  BY DEF ClearNext, Written
<1>3. \/ r.at = "clearChannel" /\ x = Channel(r.chan) /\ s.at = "clearKey" /\ s.chan = r.chan
      \/ r.at = "clearKey" /\ x = <<r.chan, r.key>> /\ s.at = "clearModel" /\ s.chan = r.chan
      \/ r.at = "clearModel" /\ x = <<r.chan, r.model>> /\ s.at = "ended"
  <2>1. CASE r.at = "clearChannel"
    BY <1>1, <2>1, AfterClear DEF Cleared
  <2>2. CASE r.at = "clearKey"
    BY <1>1, <2>2, AfterClear DEF Cleared
  <2>3. CASE r.at = "clearModel"
    <3>1. s = Ended(r) /\ x = <<r.chan, r.model>>
      BY <1>1, <2>3, AfterClear DEF Cleared
    <3> QED BY <1>1, <2>3, <3>1, EndedFields
  <2> QED BY <1>1, <2>1, <2>2, <2>3
<1>4. x \in KeysOf(r.chan) \cup ModelsOf(r.chan) \cup {Channel(r.chan)}
  BY <1>1, <1>3 DEF KeysOf, ModelsOf
<1>5. x \in Things
  BY <1>1, <1>4, OwnRecords
<1>6. req'[i] = s /\ req[i] = r
  BY <1>1, <1>2 DEF Becomes, IInv, TypeOK
<1>7. \A y \in Things : y # x => cool'[y] = cool[y]
  BY <1>1, <1>2
<1>8. cool'[x] = Clear
  BY <1>1, <1>2, <1>5
<1>9. <<r.chan, r.key>> \in KeysOf(r.chan) /\ <<r.chan, r.model>> \in ModelsOf(r.chan)
  BY <1>1 DEF KeysOf, ModelsOf
<1> HIDE DEF s
<1>10. Judging(s)
  BY <1>3 DEF Judging
<1>11. \A j \in Clients : Judging(req[j])'
  BY <1>1, <1>2, <1>10, JudgingKept DEF NoticeInv
<1>12. ASSUME NEW c \in Channels
       PROVE  Noticed(c)'
  <2>1. KeysOf(c) \in SUBSET Things /\ ModelsOf(c) \in SUBSET Things /\ Channel(c) \in Things
    BY KeysAndModels, NoticeKnown
  <2>2. Noticed(c) /\ faults' = faults
    BY <1>2, NoticeKnown
  <2>3. ~Cooling(x)'
    BY <1>1, <1>2, <1>8 DEF Cooling, CoolingAt, Clear
  <2>4. CASE r.chan # c
    <3>1. x \notin KeysOf(c) \cup ModelsOf(c) \cup {Channel(c)}
      BY <1>1, <1>4, <2>4, OwnRecords
    <3>2. (AllKeysCooling(c)' <=> AllKeysCooling(c)) /\ (AllModelsCooling(c)' <=> AllModelsCooling(c))
      BY <1>2, <1>7, <2>1, <3>1, SameRecords, SameModels
    <3>3. cool'[Channel(c)] = cool[Channel(c)]
      BY <1>7, <2>1, <3>1
    <3>4. ~NoticesKeys(i, c) /\ ~NoticesModels(i, c)
      BY <1>6, <2>4 DEF NoticesKeys, NoticesModels
    <3> QED BY <1>1, <1>2, <2>2, <3>2, <3>3, <3>4, NoticeKept
  <2>5. CASE r.chan = c /\ r.at = "clearChannel"
    <3>1. NoticesKeys(i, c)' /\ NoticesModels(i, c)'
      BY <1>3, <1>6, <2>5 DEF NoticesKeys, NoticesModels
    <3> QED BY <3>1 DEF Noticed
  <2>6. CASE r.chan = c /\ r.at = "clearKey"
    <3>1. NoticesModels(i, c)'
      BY <1>3, <1>6, <2>6 DEF NoticesModels
    <3>2. x \in KeysOf(c)
      BY <1>3, <1>9, <2>6
    <3>3. ~AllKeysCooling(c)'
      BY <2>3, <3>2 DEF AllKeysCooling, KeysOf
    <3> QED BY <3>1, <3>3 DEF Noticed
  <2>7. CASE r.chan = c /\ r.at = "clearModel"
    <3>1. x \in ModelsOf(c)
      BY <1>3, <1>9, <2>7
    <3>2. ~AllModelsCooling(c)'
      BY <2>3, <3>1 DEF AllModelsCooling, Cooling, ModelsOf
    <3>3. x \notin KeysOf(c) /\ x # Channel(c)
      BY <3>1, OwnRecords
    <3>4. (AllKeysCooling(c)' <=> AllKeysCooling(c)) /\ cool'[Channel(c)] = cool[Channel(c)]
      BY <1>2, <1>7, <2>1, <3>3, SameRecords
    <3>5. ~NoticesKeys(i, c)
      BY <1>6, <2>7 DEF NoticesKeys
    <3> QED BY <1>1, <1>2, <2>2, <3>2, <3>4, <3>5, NoticeKept
  <2> QED BY <1>1, <2>4, <2>5, <2>6, <2>7
<1> QED BY <1>11, <1>12

\* Once the store has failed a request may have moved on without noticing.
LEMMA FaultNotices ==
  ASSUME NoticeInv, NEW i \in Clients,
         WriteFails(i) \/ \E t \in Readings(i) : ReadFails(i, t)
  PROVE  (\A j \in Clients : Judging(req[j])') /\ \A c \in Channels : Noticed(c)'
<1> DEFINE r == req[i]
<1>1. IInv /\ r \in Requests /\ now \in Nat /\ faults \in Nat /\ Judging(r)
  BY NoticeKnown DEF IInv, TypeOK
<1>2. faults' # 0 /\ now' = now
  <2>1. faults' = faults + 1 /\ now' = now
    <3>1. CASE WriteFails(i)
      BY <3>1 DEF WriteFails
    <3>2. ASSUME NEW t, ReadFails(i, t)
          PROVE  faults' = faults + 1 /\ now' = now
      BY <3>2 DEF ReadFails
    <3> QED BY <3>1, <3>2
  <2> QED BY <1>1, <2>1
<1>3. \E s : Becomes(i, s) /\ Judging(s)
  <2>1. CASE WriteFails(i)
    <3>1. Becomes(i, AfterWrite(r))
      BY <2>1 DEF WriteFails
    <3>2. AfterWrite(r).at \in {"visit", "readKeys", "clearKey", "clearModel", "ended"}
      <4>1. CASE r.at = "mark"
        BY <1>1, <4>1, AfterMark
      <4>2. CASE r.at \in {"clearChannel", "clearKey"}
        BY <1>1, <4>2, AfterClear
      <4>3. CASE r.at = "promote"
        BY <1>1, <4>3, AfterLastWrite
      <4>4. CASE r.at = "clearModel"
        BY <1>1, <4>4, AfterLastWrite
      <4> QED BY <2>1, <4>1, <4>2, <4>3, <4>4 DEF WriteFails
    <3> QED BY <3>1, <3>2 DEF Judging
  <2>2. ASSUME NEW t, Becomes(i, [r EXCEPT !.at = "readModels", !.since = t])
        PROVE  \E s : Becomes(i, s) /\ Judging(s)
    <3> DEFINE s == [r EXCEPT !.at = "readModels", !.since = t]
    <3>1. s.at = "readModels"
      BY <1>1 DEF Requests
    <3> HIDE DEF s
    <3>2. Judging(s)
      BY <1>1, <3>1 DEF Judging
    <3> QED BY <2>2, <3>2 DEF s
  <2>3. CASE Becomes(i, IF Exhausted(r) THEN Exhausting(r) ELSE Resumed(r))
    <3>1. Exhausted(r) => Judging(Exhausting(r))
      BY <1>1, ExhaustingFields DEF Judging, Exhausted
    <3>2. Judging(Resumed(r))
      BY <1>1, ResumedFields DEF Judging
    <3> QED BY <2>3, <3>1, <3>2
  <2> QED BY <2>1, <2>2, <2>3 DEF ReadFails, At
<1>4. \A j \in Clients : Judging(req[j])'
  BY <1>1, <1>2, <1>3, JudgingKept DEF NoticeInv
<1>5. \A c \in Channels : Noticed(c)'
  BY <1>2 DEF Noticed
<1> QED BY <1>4, <1>5

\* With time cooldowns end; nothing is added to what is to be noticed.
LEMMA TimeNotices ==
  ASSUME NoticeInv, now' \in Nat, now <= now', UNCHANGED <<cool, faults, req>>
  PROVE  (\A j \in Clients : Judging(req[j])') /\ \A c \in Channels : Noticed(c)'
<1>1. now \in Nat /\ cool \in [Things -> Records] /\ req \in [Clients -> Requests]
  BY DEF NoticeInv, IInv, TypeOK, Records
<1>2. ASSUME NEW j \in Clients
      PROVE  Judging(req[j])'
  <2>1. req[j].since \in Nat /\ Judging(req[j]) /\ req'[j] = req[j]
    BY <1>1 DEF NoticeInv, Requests
  <2> QED BY <1>1, <2>1 DEF Judging, Blames
<1>3. ASSUME NEW c \in Channels
      PROVE  Noticed(c)'
  <2>1. ASSUME NEW x \in Things, Cooling(x)'
        PROVE  Cooling(x)
    <3>1. cool[x].until \in Nat
      BY <1>1 DEF Records
    <3> QED BY <1>1, <2>1, <3>1 DEF Cooling, CoolingAt
  <2>2. KeysOf(c) \in SUBSET Things /\ ModelsOf(c) \in SUBSET Things
    BY KeysAndModels
  <2>3. AllKeysCooling(c)' => AllKeysCooling(c)
    BY <2>1, <2>2 DEF AllKeysCooling, KeysOf
  <2>4. AllModelsCooling(c)' => AllModelsCooling(c)
    BY <2>1, <2>2 DEF AllModelsCooling, ModelsOf
  <2>5. \A j \in Clients : /\ NoticesKeys(j, c) => NoticesKeys(j, c)'
                           /\ NoticesModels(j, c) => NoticesModels(j, c)'
    BY DEF NoticesKeys, NoticesModels
  <2>6. Noticed(c)
    BY DEF NoticeInv
  <2> QED BY <2>3, <2>4, <2>5, <2>6 DEF Noticed
<1> QED BY <1>2, <1>3

LEMMA NoticeInit == Init => NoticeInv
<1> SUFFICES ASSUME Init
             PROVE  NoticeInv
  OBVIOUS
<1>1. IInv
  BY InvInit
<1>2. now = 1 /\ cool = [x \in Things |-> Clear] /\ \A i \in Clients : req[i].at = "ended"
  BY DEF Init
<1>3. \A i \in Clients : Judging(req[i])
  BY <1>2 DEF Judging
<1>4. ASSUME NEW c \in Channels
      PROVE  Noticed(c)
  <2>1. \A x \in Things : ~Cooling(x)
    BY <1>2 DEF Cooling, CoolingAt, Clear
  <2>2. PICK x \in KeysOf(c), y \in ModelsOf(c) : TRUE
    BY KeysAndModels
  <2>3. x \in Things /\ y \in Things
    BY KeysAndModels
  <2> QED BY <2>1, <2>2, <2>3 DEF Noticed, AllKeysCooling, AllModelsCooling
<1> QED BY <1>1, <1>2, <1>3, <1>4 DEF NoticeInv

LEMMA NoticeStep == NoticeInv /\ [Next]_vars => NoticeInv'
<1> SUFFICES ASSUME NoticeInv, [Next]_vars
             PROVE  NoticeInv'
  OBVIOUS
<1>1. IInv /\ IInv' /\ now \in Nat /\ now' \in Nat
  <2>1. IInv'
    BY InvStep DEF NoticeInv
  <2> QED BY <2>1 DEF NoticeInv, IInv, TypeOK
<1>2. now > 0
  BY DEF NoticeInv
<1>3. CASE now' >= now /\ UNCHANGED <<cool, faults, req>>
  <2>1. (\A j \in Clients : Judging(req[j])') /\ \A c \in Channels : Noticed(c)'
    BY <1>1, <1>3, TimeNotices
  <2> QED BY <1>1, <1>2, <1>3, <2>1 DEF NoticeInv
<1>4. ASSUME NEW i \in Clients,
             \/ Moves(i) \/ ClearNext(i) \/ WriteFails(i)
             \/ \E t \in Readings(i) : \/ \E n \in Initials : Mark(i, n, t)
                                      \/ ReadKeys(i, t) \/ ReadModels(i, t) \/ Promote(i, t)
                                      \/ ReadFails(i, t)
      PROVE  NoticeInv'
  <2>1. (\A j \in Clients : Judging(req[j])') /\ \A c \in Channels : Noticed(c)'
    BY <1>4, MovesNotices, MarkNotices, ReadKeysNotices, ReadModelsNotices, PromoteNotices,
       ClearNotices, FaultNotices
  <2>2. now' = now
    BY <1>4 DEF Moves, Mark, ReadKeys, ReadModels, Promote, ClearNext, WriteFails, ReadFails,
                Written, OnlyRequest
  <2> QED BY <1>1, <1>2, <2>1, <2>2 DEF NoticeInv
<1>5. CASE Tick
  BY <1>1, <1>3, <1>5 DEF Tick
<1>6. CASE UNCHANGED vars
  BY <1>1, <1>3, <1>6 DEF vars
<1> QED BY <1>1, <1>4, <1>5, <1>6, StepKinds

\* However many requests fail on a channel together, each of them looking only
\* once and possibly before the others have marked their key, the channel is
\* cooled when they are through (unless the store failed one of them).
THEOREM ExhaustionIsNoticed == Spec => []ExhaustionNoticed
<1>1. ASSUME NoticeInv, NEW c \in Channels,
             faults = 0, Settled(c), AllKeysCooling(c) \/ AllModelsCooling(c)
      PROVE  cool[Channel(c)].until > 0
  <2>1. \A i \in Clients : ~NoticesKeys(i, c) /\ ~NoticesModels(i, c)
    BY <1>1 DEF Settled, NoticesKeys, NoticesModels
  <2>2. cool[Channel(c)].until # 0
    BY <1>1, <2>1 DEF NoticeInv, Noticed
  <2>3. cool \in [Things -> Records] /\ Channel(c) \in Things
    BY <1>1, OwnRecords DEF NoticeInv, IInv, TypeOK, Records
  <2> QED BY <2>2, <2>3 DEF Records
<1>2. NoticeInv => ExhaustionNoticed
  BY <1>1 DEF ExhaustionNoticed
<1> QED BY <1>2, NoticeInit, NoticeStep, PTL DEF Spec

-----------------------------------------------------------------------------
(* What keeps a channel out of use *)

\* The ends of cooldowns that a request carries are those it has read last.
Timely(r) ==
  /\ r.at # "promote" => r.modUntil = 0
  /\ r.at \notin {"readModels", "promote"} => r.keyUntil = 0

\* They still hold: nothing it has read has come back early.
Backed(r) ==
  /\ r.keyUntil > 0 => \A x \in KeysOf(r.chan) : cool[x].until >= r.keyUntil
  /\ r.modUntil > 0 => \A x \in ModelsOf(r.chan) : cool[x].until >= r.modUntil

\* A channel cools for nothing that a request is about to clear.
Cleaned(c) == cool[Channel(c)].until = 0 \/ reason[c] # "exhausted"

ClearsLast(r) == r.at \in {"clearKey", "clearModel"} => Cleaned(r.chan)

Carries(i) ==
  /\ Timely(req[i])
  /\ i \in crossed \/ Backed(req[i])
  /\ ClearsLast(req[i])

\* A channel that is out of use because it was exhausted is no longer so than
\* all its keys or than all its models.
Justified(c) ==
  \/ Cleaned(c)
  \/ \A x \in KeysOf(c) : cool[x].until >= cool[Channel(c)].until
  \/ \A x \in ModelsOf(c) : cool[x].until >= cool[Channel(c)].until

CoolInv ==
  /\ IInv
  /\ \A i \in Clients : Carries(i)
  /\ \A c \in Channels : Justified(c)

LEMMA CoolKnown ==
  ASSUME CoolInv, NEW i \in Clients
  PROVE  /\ IInv /\ now \in Nat /\ cool \in [Things -> Records]
         /\ reason \in [Channels -> Reasons]
         /\ req[i] \in Requests /\ Sound(req[i])
         /\ Timely(req[i]) /\ (i \in crossed \/ Backed(req[i])) /\ ClearsLast(req[i])
         /\ \A c \in Channels : Justified(c)
         /\ \A x \in Things : cool[x].until \in Nat
BY Known DEF CoolInv, Records, Carries, HistoriesOK

\* What becomes of the others is told by the records and the histories.
LEMMA CarriesKept ==
  ASSUME IInv, NEW i \in Clients, NEW r, Becomes(i, r),
         Timely(r), i \in crossed' \/ Backed(r)', ClearsLast(r)',
         NEW j \in Clients, Carries(j),
         j # i => /\ j \in crossed \/ Backed(req[j]) => j \in crossed' \/ Backed(req[j])'
                  /\ ClearsLast(req[j]) => ClearsLast(req[j])'
  PROVE  Carries(j)'
<1>1. req \in [Clients -> Requests]
  BY DEF IInv, TypeOK
<1>2. CASE j = i
  <2>1. req'[j] = r
    BY <1>1, <1>2 DEF Becomes
  <2> QED BY <1>2, <2>1 DEF Carries, Timely, Backed, ClearsLast, Cleaned
<1>3. CASE j # i
  <2>1. req'[j] = req[j]
    BY <1>1, <1>3 DEF Becomes
  <2> QED BY <1>3, <2>1 DEF Carries, Timely
<1> QED BY <1>2, <1>3

\* Another request's clearing goes on from a channel that is as cleaned as before.
LEMMA ClearsKept ==
  ASSUME CoolInv, NEW j \in Clients, req'[j] = req[j],
         \A c \in Channels : Cleaned(c) => Cleaned(c)'
  PROVE  ClearsLast(req[j]) => ClearsLast(req[j])'
<1>1. req[j].at \in {"clearKey", "clearModel"} => req[j].chan \in Channels
  BY CoolKnown DEF Sound, Shape
<1> QED BY <1>1 DEF ClearsLast, Cleaned, Channel

\* The reasons that no cooldown of a channel is held to stay.
StaysExcused == \A c \in Channels : reason[c] # "exhausted" => reason'[c] # "exhausted"

\* A step that writes no record.
LEMMA UnwrittenCool ==
  ASSUME CoolInv, NEW i \in Clients, NEW r, Becomes(i, r), cool' = cool,
         StaysExcused, crossed \ {i} \subseteq crossed',
         Timely(r), i \in crossed' \/ Backed(r)', ClearsLast(r)'
  PROVE  (\A j \in Clients : Carries(j)') /\ \A c \in Channels : Justified(c)'
<1>1. \A c \in Channels : Cleaned(c) => Cleaned(c)'
  BY DEF Cleaned, StaysExcused, Channel
<1>2. ASSUME NEW c \in Channels
      PROVE  Justified(c)'
  <2>1. Justified(c)
    BY CoolKnown
  <2> QED BY <1>1, <2>1 DEF Justified, Channel, KeysOf, ModelsOf
<1>3. ASSUME NEW j \in Clients
      PROVE  Carries(j)'
  <2>1. IInv /\ Carries(j) /\ req \in [Clients -> Requests]
    BY DEF CoolInv, IInv, TypeOK
  <2>2. ASSUME j # i
        PROVE  /\ j \in crossed \/ Backed(req[j]) => j \in crossed' \/ Backed(req[j])'
               /\ ClearsLast(req[j]) => ClearsLast(req[j])'
    <3>1. req'[j] = req[j]
      BY <2>1, <2>2 DEF Becomes
    <3>2. ClearsLast(req[j]) => ClearsLast(req[j])'
      BY <1>1, <3>1, ClearsKept
    <3>3. Backed(req[j]) => Backed(req[j])'
      BY <3>1 DEF Backed, KeysOf, ModelsOf
    <3> QED BY <2>2, <3>2, <3>3
  <2> QED BY <2>1, <2>2, CarriesKept
<1> QED BY <1>2, <1>3

\* A request that goes on from a write or from nothing carries no times.
LEMMA EmptyHanded ==
  ASSUME NEW r, r.keyUntil = 0, r.modUntil = 0
  PROVE  Timely(r) /\ Backed(r)'
BY DEF Timely, Backed

LEMMA AfterWriteTimes ==
  ASSUME NEW r \in Requests, Timely(r),
         r.at \in {"mark", "promote", "clearChannel", "clearKey", "clearModel"}
  PROVE  /\ AfterWrite(r).keyUntil = 0 /\ AfterWrite(r).modUntil = 0
         /\ AfterWrite(r).at \in {"clearKey", "clearModel"} =>
              r.at \in {"clearChannel", "clearKey"} /\ AfterWrite(r).chan = r.chan
<1>1. CASE r.at = "mark" /\ r.verdict.then # "channel"
  <2> DEFINE v == [NoVerdict EXCEPT !.then = r.verdict.then]
             s == [r EXCEPT !.at = "readKeys", !.since = now, !.verdict = v]
  <2>1. AfterWrite(r) = s
    BY <1>1 DEF AfterWrite
  <2> HIDE DEF v
  <2>2. s.at = "readKeys" /\ s.keyUntil = r.keyUntil /\ s.modUntil = r.modUntil
    BY DEF Requests
  <2> QED BY <1>1, <2>1, <2>2 DEF Timely
<1>2. CASE (r.at = "mark" /\ r.verdict.then = "channel") \/ r.at = "promote"
  <2>1. AfterWrite(r) = Between(r, "visit")
    BY <1>2 DEF AfterWrite
  <2> QED BY <2>1, BetweenFields
<1>3. CASE r.at \in {"clearChannel", "clearKey"}
  <2>1. \A at : LET s == [r EXCEPT !.at = at]
                IN  s.keyUntil = r.keyUntil /\ s.modUntil = r.modUntil /\ s.chan = r.chan
    BY DEF Requests
  <2>2. r.keyUntil = 0 /\ r.modUntil = 0
    BY <1>3 DEF Timely
  <2>3. AfterWrite(r) = [r EXCEPT !.at = "clearKey"] \/ AfterWrite(r) = [r EXCEPT !.at = "clearModel"]
    BY <1>3, AfterClear
  <2> QED BY <1>3, <2>1, <2>2, <2>3
<1>4. CASE r.at = "clearModel"
  <2>1. AfterWrite(r) = Ended(r)
    BY <1>4, AfterClear
  <2> QED BY <2>1, EndedFields
<1> QED BY <1>1, <1>2, <1>3, <1>4

LEMMA MovesCool ==
  ASSUME CoolInv, NEW i \in Clients, Moves(i)
  PROVE  (\A j \in Clients : Carries(j)') /\ \A c \in Channels : Justified(c)'
<1>1. PICK r : /\ Becomes(i, r) /\ r.at \in Idle \cup {"mark", "clearChannel"}
               /\ r.keyUntil \in {0, req[i].keyUntil} /\ r.modUntil \in {0, req[i].modUntil}
  BY DEF Moves
<1>2. r.keyUntil = 0 /\ r.modUntil = 0
  BY <1>1, CoolKnown DEF Moves, Idle, Timely
<1>3. Timely(r) /\ Backed(r)'
  BY <1>2, EmptyHanded
<1>4. ClearsLast(r)'
  BY <1>1 DEF ClearsLast, Idle
<1>5. cool' = cool /\ StaysExcused /\ crossed \ {i} \subseteq crossed'
  BY DEF Moves, StaysExcused
<1> QED BY <1>1, <1>3, <1>4, <1>5, UnwrittenCool

\* The earliest end of the cooldowns of some things is no later than any.
LEMMA EarliestOfThings ==
  ASSUME cool \in [Things -> Records], NEW things \in SUBSET Things, things # {}
  PROVE  \A x \in things : cool[x].until >= Earliest({cool[y].until : y \in things})
<1> DEFINE times == {cool[y].until : y \in things}
<1>1. times \in SUBSET Nat /\ times # {}
  BY DEF Records
<1>2. \A x \in things : cool[x].until \in times
  OBVIOUS
<1> HIDE DEF times
<1>3. Earliest(times) \in times /\ \A u \in times : Earliest(times) <= u
  BY <1>1, EarliestIsOne
<1>4. \A u \in times : u >= Earliest(times)
  BY <1>1, <1>3
<1>5. \A x \in things : cool[x].until >= Earliest(times)
  BY <1>2, <1>4
<1> QED BY <1>5 DEF times

LEMMA ReadKeysCool ==
  ASSUME CoolInv, NEW i \in Clients, NEW t \in Readings(i), ReadKeys(i, t)
  PROVE  (\A j \in Clients : Carries(j)') /\ \A c \in Channels : Justified(c)'
<1> PICK r : r = req[i]
  OBVIOUS
<1> DEFINE keys == KeysOf(r.chan)
           first == Earliest({cool[x].until : x \in keys})
<1> PICK until : until = IF \A x \in keys : CoolingAt(x, t) THEN first ELSE 0
  OBVIOUS
<1>1. IInv /\ cool \in [Things -> Records] /\ r \in Requests /\ r.chan \in Channels
      /\ r.at = "readKeys" /\ Timely(r)
  BY CoolKnown DEF ReadKeys, At, Sound, Shape
<1> PICK s : s = [r EXCEPT !.at = "readModels", !.since = t, !.keyUntil = until]
  OBVIOUS
<1>2. Becomes(i, s) /\ UNCHANGED <<cool, reason, crossed>>
  BY DEF ReadKeys, OnlyRequest
<1>3. s.at = "readModels" /\ s.keyUntil = until /\ s.chan = r.chan /\ s.modUntil = 0
  BY <1>1 DEF Requests, Timely
<1>4. until > 0 => \A x \in keys : cool[x].until >= until
  <2>1. \A x \in keys : cool[x].until >= first
    BY <1>1, KeysAndModels, EarliestOfThings
  <2>2. until = first \/ until = 0
    OBVIOUS
  <2> HIDE DEF first, keys
  <2> QED BY <2>1, <2>2
<1>5. Backed(s)'
  BY <1>2, <1>3, <1>4 DEF Backed, KeysOf, ModelsOf
<1>6. Timely(s) /\ ClearsLast(s)'
  BY <1>3 DEF Timely, ClearsLast
<1>7. StaysExcused
  BY <1>2 DEF StaysExcused
<1> QED BY <1>2, <1>5, <1>6, <1>7, UnwrittenCool

\* Whether to cool the channel is decided by what is carried.
LEMMA DecisionCool ==
  ASSUME CoolInv, NEW i \in Clients, NEW q \in Requests, q.chan \in Channels,
         Becomes(i, IF Exhausted(q) THEN Exhausting(q) ELSE Resumed(q)),
         UNCHANGED <<cool, reason, crossed>>, i \in crossed \/ Backed(q)
  PROVE  (\A j \in Clients : Carries(j)') /\ \A c \in Channels : Justified(c)'
<1> PICK s : s = IF Exhausted(q) THEN Exhausting(q) ELSE Resumed(q)
  OBVIOUS
<1>1. Becomes(i, s)
  OBVIOUS
<1>2. \/ s.at \in {"select", "visit"} /\ s.keyUntil = 0 /\ s.modUntil = 0
      \/ s.at = "promote" /\ s.chan = q.chan /\ s.keyUntil = q.keyUntil /\ s.modUntil = q.modUntil
  BY ExhaustingFields, ResumedFields
<1>3. Timely(s) /\ ClearsLast(s)'
  BY <1>2 DEF Timely, ClearsLast
<1>4. i \in crossed' \/ Backed(s)'
  BY <1>2 DEF Backed, KeysOf, ModelsOf
<1>5. StaysExcused
  BY DEF StaysExcused
<1> QED BY <1>1, <1>3, <1>4, <1>5, UnwrittenCool

LEMMA ReadModelsCool ==
  ASSUME CoolInv, NEW i \in Clients, NEW t \in Readings(i), ReadModels(i, t)
  PROVE  (\A j \in Clients : Carries(j)') /\ \A c \in Channels : Justified(c)'
<1> PICK r : r = req[i]
  OBVIOUS
<1> DEFINE models == ModelsOf(r.chan)
           first == Earliest({cool[x].until : x \in models})
<1> PICK until : until = IF \A x \in models : CoolingAt(x, t) THEN first ELSE 0
  OBVIOUS
<1>1. IInv /\ cool \in [Things -> Records] /\ r \in Requests /\ r.chan \in Channels
      /\ r.at = "readModels" /\ (i \in crossed \/ Backed(r))
  BY CoolKnown DEF ReadModels, At, Sound, Shape
<1>2. first \in Nat
  BY <1>1, KeysAndModels, EarliestIsWithin
<1> PICK q : q = [r EXCEPT !.modUntil = until]
  OBVIOUS
<1>3. Becomes(i, IF Exhausted(q) THEN Exhausting(q) ELSE Resumed(q))
      /\ UNCHANGED <<cool, reason, crossed>>
  BY DEF ReadModels, OnlyRequest
<1>4. until \in Nat /\ (until = first \/ until = 0)
  BY <1>2
<1>5. q \in Requests /\ q.chan = r.chan /\ q.keyUntil = r.keyUntil /\ q.modUntil = until
  BY <1>1, <1>4 DEF Requests
<1>6. until > 0 => \A x \in models : cool[x].until >= until
  <2>1. \A x \in models : cool[x].until >= first
    BY <1>1, KeysAndModels, EarliestOfThings
  <2> HIDE DEF first, models
  <2> QED BY <1>4, <2>1
<1>7. i \in crossed \/ Backed(q)
  BY <1>1, <1>5, <1>6 DEF Backed
<1> QED BY <1>1, <1>3, <1>5, <1>7, DecisionCool

\* A key or a model of channel c is written.
LEMMA PartCool ==
  ASSUME CoolInv, IInv', NEW i \in Clients, NEW r, Becomes(i, r),
         NEW c \in Channels, NEW x \in KeysOf(c) \cup ModelsOf(c), NEW record \in Records,
         cool' = [cool EXCEPT ![x] = record],
         StaysExcused, crossed \ {i} \subseteq crossed',
         record.until < cool[x].until => Cleaned(c)' /\ Crosses(c) \ {i} \subseteq crossed',
         r.keyUntil = 0, r.modUntil = 0, ClearsLast(r)'
  PROVE  (\A j \in Clients : Carries(j)') /\ \A d \in Channels : Justified(d)'
<1>1. /\ IInv /\ cool \in [Things -> Records] /\ cool' \in [Things -> Records]
      /\ req \in [Clients -> Requests]
      /\ \A y \in Things : cool[y].until \in Nat /\ cool'[y].until \in Nat
  BY DEF CoolInv, IInv, TypeOK, Records
<1>2. x \in Things /\ x[2] # Whole /\ x[1] = c
  BY NamesAssumption DEF KeysOf, ModelsOf, Things
<1>3. cool'[x] = record /\ \A y \in Things : y # x => cool'[y] = cool[y]
  BY <1>1, <1>2
<1>4. \A d \in Channels : cool'[Channel(d)] = cool[Channel(d)]
  <2> SUFFICES ASSUME NEW d \in Channels
               PROVE  cool'[Channel(d)] = cool[Channel(d)]
    OBVIOUS
  <2>1. Channel(d) \in Things /\ Channel(d) # x
    BY <1>2, OwnRecords DEF Channel
  <2> QED BY <1>3, <2>1
<1>5. \A d \in Channels : Cleaned(d) => Cleaned(d)'
  BY <1>4 DEF Cleaned, StaysExcused, Channel
<1>6. ASSUME NEW y \in Things, y[1] = c => ~(record.until < cool[x].until)
      PROVE  cool'[y].until >= cool[y].until
  <2>1. CASE y = x
    BY <1>1, <1>2, <1>3, <1>6, <2>1
  <2>2. CASE y # x
    BY <1>1, <1>3, <1>6, <2>2
  <2> QED BY <2>1, <2>2
<1>7. ASSUME NEW d \in Channels
      PROVE  Justified(d)'
  <2>1. CASE d = c /\ record.until < cool[x].until
    BY <2>1 DEF Justified, Cleaned
  <2>2. CASE ~(d = c /\ record.until < cool[x].until)
    <3>1. KeysOf(d) \in SUBSET Things /\ ModelsOf(d) \in SUBSET Things /\ Channel(d) \in Things
      BY KeysAndModels, OwnRecords
    <3>2. \A y \in KeysOf(d) \cup ModelsOf(d) : y \in Things /\ y[1] = d
      BY <3>1 DEF KeysOf, ModelsOf
    <3>3. \A y \in KeysOf(d) \cup ModelsOf(d) : cool'[y].until >= cool[y].until
      BY <1>6, <2>2, <3>2
    <3> PICK until : until = cool[Channel(d)].until
      OBVIOUS
    <3>4. until \in Nat /\ cool'[Channel(d)].until = until
      BY <1>1, <1>4, <3>1
    <3>5. ASSUME NEW y \in KeysOf(d) \cup ModelsOf(d), cool[y].until >= until
          PROVE  cool'[y].until >= until
      <4>1. cool[y].until \in Nat /\ cool'[y].until \in Nat /\ cool'[y].until >= cool[y].until
        BY <1>1, <3>2, <3>3
      <4> QED BY <3>4, <3>5, <4>1
    <3>6. Justified(d)
      BY CoolKnown
    <3>7. \/ Cleaned(d)
          \/ \A y \in KeysOf(d) : cool[y].until >= until
          \/ \A y \in ModelsOf(d) : cool[y].until >= until
      BY <3>6 DEF Justified
    <3>8. \/ Cleaned(d)'
          \/ \A y \in KeysOf(d) : cool'[y].until >= until
          \/ \A y \in ModelsOf(d) : cool'[y].until >= until
      BY <1>5, <3>5, <3>7
    <3> QED BY <3>4, <3>8 DEF Justified, KeysOf, ModelsOf, Channel
  <2> QED BY <2>1, <2>2
<1>8. ASSUME NEW j \in Clients, j # i, j \in crossed \/ Backed(req[j])
      PROVE  j \in crossed' \/ Backed(req[j])'
  <2> PICK q : q = req[j]
    OBVIOUS
  <2>1. req'[j] = q /\ q \in Requests /\ Sound(q) /\ Timely(q)
    BY <1>1, <1>8, CoolKnown DEF Becomes
  <2>2. CASE j \in crossed
    BY <1>8, <2>2
  <2>3. CASE q.keyUntil = 0 /\ q.modUntil = 0
    BY <2>1, <2>3 DEF Backed
  <2>4. CASE q.chan = c /\ record.until < cool[x].until
             /\ (q.keyUntil > 0 \/ q.modUntil > 0)
    <3>1. j \in Crosses(c)
      BY <2>4 DEF Crosses, Exhausted
    <3> QED BY <1>8, <2>4, <3>1
  <2>5. CASE ~(q.chan = c /\ record.until < cool[x].until) /\ Backed(q)
             /\ (q.keyUntil > 0 \/ q.modUntil > 0)
    <3>1. q.chan \in Channels /\ q.keyUntil \in Nat /\ q.modUntil \in Nat
      BY <2>1, <2>5 DEF Timely, Sound, Shape, Requests
    <3>2. KeysOf(q.chan) \in SUBSET Things /\ ModelsOf(q.chan) \in SUBSET Things
      BY <3>1, KeysAndModels
    <3>3. \A y \in KeysOf(q.chan) \cup ModelsOf(q.chan) : y \in Things /\ y[1] = q.chan
      BY <3>2 DEF KeysOf, ModelsOf
    <3>4. \A y \in KeysOf(q.chan) \cup ModelsOf(q.chan) : cool'[y].until >= cool[y].until
      BY <1>6, <2>5, <3>3
    <3>5. ASSUME NEW t \in Nat, NEW y \in KeysOf(q.chan) \cup ModelsOf(q.chan), cool[y].until >= t
          PROVE  cool'[y].until >= t
      <4>1. cool[y].until \in Nat /\ cool'[y].until \in Nat /\ cool'[y].until >= cool[y].until
        BY <1>1, <3>3, <3>4
      <4> QED BY <3>5, <4>1
    <3>6. q.keyUntil > 0 => \A y \in KeysOf(q.chan) : cool'[y].until >= q.keyUntil
      BY <2>5, <3>1, <3>5 DEF Backed
    <3>7. q.modUntil > 0 => \A y \in ModelsOf(q.chan) : cool'[y].until >= q.modUntil
      BY <2>5, <3>1, <3>5 DEF Backed
    <3> QED BY <2>1, <3>6, <3>7 DEF Backed, KeysOf, ModelsOf
  <2>6. q.keyUntil \in Nat /\ q.modUntil \in Nat
    BY <2>1 DEF Requests
  <2>7. (q.keyUntil = 0 /\ q.modUntil = 0) \/ (q.keyUntil > 0 \/ q.modUntil > 0)
    BY <2>6
  <2> QED BY <1>8, <2>2, <2>3, <2>4, <2>5, <2>7
<1>9. ASSUME NEW j \in Clients
      PROVE  Carries(j)'
  <2>1. Timely(r) /\ Backed(r)' /\ Carries(j)
    BY EmptyHanded DEF CoolInv
  <2>2. ASSUME j # i
        PROVE  ClearsLast(req[j]) => ClearsLast(req[j])'
    <3>1. req'[j] = req[j]
      BY <1>1, <2>2 DEF Becomes
    <3> QED BY <1>5, <3>1, ClearsKept
  <2> QED BY <1>1, <1>8, <2>1, <2>2, CarriesKept
<1> QED BY <1>7, <1>9

\* The cooldown of channel c as a whole is written.
LEMMA WholeCool ==
  ASSUME CoolInv, IInv', NEW i \in Clients, NEW r, Becomes(i, r),
         NEW c \in Channels, NEW record \in Records,
         cool' = [cool EXCEPT ![Channel(c)] = record],
         \A d \in Channels : d # c => reason'[d] = reason[d],
         crossed \ {i} \subseteq crossed', Justified(c)',
         BeingCleared(c) => Cleaned(c)',
         r.keyUntil = 0, r.modUntil = 0, ClearsLast(r)'
  PROVE  (\A j \in Clients : Carries(j)') /\ \A d \in Channels : Justified(d)'
<1>1. IInv /\ cool \in [Things -> Records] /\ req \in [Clients -> Requests]
  BY DEF CoolInv, IInv, TypeOK, Records
<1>2. \A y \in Things : y # Channel(c) => cool'[y] = cool[y]
  BY <1>1
<1>3. ASSUME NEW d \in Channels
      PROVE  \A y \in KeysOf(d) \cup ModelsOf(d) : cool'[y] = cool[y]
  <2>1. \A y \in KeysOf(d) \cup ModelsOf(d) : y \in Things /\ y # Channel(c)
    BY NamesAssumption DEF KeysOf, ModelsOf, Channel, Things
  <2> QED BY <1>2, <2>1
<1>4. ASSUME NEW d \in Channels, d # c
      PROVE  cool'[Channel(d)] = cool[Channel(d)] /\ reason'[d] = reason[d]
  <2>1. Channel(d) \in Things /\ Channel(d) # Channel(c)
    BY <1>4, OwnRecords DEF Channel
  <2> QED BY <1>2, <1>4, <2>1
<1>5. ASSUME NEW d \in Channels
      PROVE  Justified(d)'
  <2>1. CASE d = c
    BY <2>1
  <2>2. CASE d # c
    <3>1. Justified(d)
      BY CoolKnown
    <3> QED BY <1>3, <1>4, <2>2, <3>1 DEF Justified, Cleaned, KeysOf, ModelsOf, Channel
  <2> QED BY <2>1, <2>2
<1>6. ASSUME NEW j \in Clients, j # i
      PROVE  /\ Backed(req[j]) => Backed(req[j])'
             /\ ClearsLast(req[j]) => ClearsLast(req[j])'
  <2> PICK q : q = req[j]
    OBVIOUS
  <2>1. req'[j] = q /\ q \in Requests /\ Sound(q) /\ Timely(q)
    BY <1>1, <1>6, CoolKnown DEF Becomes
  <2>2. CASE q.chan \in Channels
    <3>1. Backed(q) => Backed(q)'
      BY <1>3, <2>2 DEF Backed, KeysOf, ModelsOf
    <3>2. ClearsLast(q) => ClearsLast(q)'
      <4>1. CASE q.chan = c
        BY <1>6, <4>1 DEF ClearsLast, BeingCleared
      <4>2. CASE q.chan # c
        BY <1>4, <2>2, <4>2 DEF ClearsLast, Cleaned, Channel
      <4> QED BY <4>1, <4>2
    <3> QED BY <2>1, <3>1, <3>2 DEF Backed, ClearsLast, Cleaned, KeysOf, ModelsOf, Channel
  <2>3. CASE q.chan \notin Channels
    <3>1. q.at \in {"ended", "visit"}
      BY <2>1, <2>3 DEF Sound, Shape
    <3>2. q.keyUntil = 0 /\ q.modUntil = 0
      BY <2>1, <3>1 DEF Timely
    <3> QED BY <2>1, <3>1, <3>2 DEF Backed, ClearsLast
  <2> QED BY <2>2, <2>3
<1>7. ASSUME NEW j \in Clients
      PROVE  Carries(j)'
  <2>1. Timely(r) /\ Backed(r)' /\ Carries(j)
    BY EmptyHanded DEF CoolInv
  <2> QED BY <1>1, <1>6, <2>1, CarriesKept
<1> QED BY <1>5, <1>7

\* A failure of the channel itself is its own reason; one of a key or a model that
\* comes back early leaves no channel that is held to be exhausted by it.
LEMMA MarkCool ==
  ASSUME CoolInv, IInv', NEW i \in Clients, NEW initial \in Initials, NEW t \in Readings(i),
         Mark(i, initial, t), Blames(req[i])
  PROVE  (\A j \in Clients : Carries(j)') /\ \A c \in Channels : Justified(c)'
<1> PICK r : r = req[i]
  OBVIOUS
<1> PICK x : x = r.verdict.on
  OBVIOUS
<1> PICK new : new = IF r.verdict.until > 0 THEN SetTo(r.verdict.until, t)
                     ELSE Bumped(cool[x], initial, t)
  OBVIOUS
<1> PICK s : s = AfterWrite(r)
  OBVIOUS
<1>1. IInv /\ now \in Nat /\ cool \in [Things -> Records] /\ r \in Requests /\ Sound(r)
      /\ r.at = "mark" /\ reason \in [Channels -> Reasons] /\ Timely(r) /\ t \in Nat /\ t <= now
  BY CoolKnown, ReadingIsPast DEF Mark, At
<1>2. x \in Things /\ r.chan \in Channels /\ r.verdict.until \in Nat /\ cool[x] \in Records
  BY <1>1 DEF Sound, Shape, Requests, Verdicts
<1>3. new \in Records
  BY <1>1, <1>2, BumpedRecord, SetRecord
<1>4. s.keyUntil = 0 /\ s.modUntil = 0 /\ s.at \notin {"clearKey", "clearModel"}
  BY <1>1, AfterWriteTimes
<1>5. /\ Becomes(i, s) /\ cool' = [cool EXCEPT ![x] = new]
      /\ crossed' = IF Lowers(x, new) THEN crossed \cup Crosses(x[1]) ELSE crossed
      /\ reason' = [reason EXCEPT ![x[1]] = IF x = Channel(x[1]) THEN "failure"
                                           ELSE IF Lowers(x, new) THEN Doubtful(@) ELSE @]
  BY DEF Mark, Written
<1>6. x[1] = r.chan
  BY <1>1, <1>2 DEF Blames, Channel, KeysOf, ModelsOf
<1>7. crossed \ {i} \subseteq crossed' /\ ClearsLast(s)'
  BY <1>4, <1>5 DEF ClearsLast
<1> PICK c \in Channels : c = r.chan
  BY <1>2
<1>8. CASE x = Channel(c)
  <2>1. reason'[c] = "failure" /\ \A d \in Channels : d # c => reason'[d] = reason[d]
    BY <1>1, <1>5, <1>6, <1>8
  <2>2. Cleaned(c)' /\ Justified(c)'
    BY <2>1 DEF Cleaned, Justified
  <2> QED BY <1>3, <1>4, <1>5, <1>7, <1>8, <2>1, <2>2, WholeCool
<1>9. CASE x # Channel(c)
  <2>1. x \in KeysOf(c) \cup ModelsOf(c) /\ x[2] # Whole
    BY <1>1, <1>9, NamesAssumption DEF Blames, KeysOf, ModelsOf
  <2>2. Lowers(x, new) <=> new.until < cool[x].until
    BY <2>1 DEF Lowers
  <2>3. reason' = [reason EXCEPT ![c] = IF Lowers(x, new) THEN Doubtful(@) ELSE @]
    BY <1>5, <1>6, <1>9
  <2>4. StaysExcused
    BY <1>1, <2>3 DEF StaysExcused, Doubtful
  <2>5. new.until < cool[x].until => Cleaned(c)' /\ Crosses(c) \ {i} \subseteq crossed'
    BY <1>1, <1>5, <1>6, <2>2, <2>3 DEF Cleaned, Doubtful
  <2> QED BY <1>3, <1>4, <1>5, <1>7, <2>1, <2>4, <2>5, PartCool
<1> QED BY <1>8, <1>9

\* What a request has read still holds when it cools the channel by it, or the
\* cooldown is not said to rest on it.
LEMMA PromoteCool ==
  ASSUME CoolInv, IInv', NEW i \in Clients, NEW t \in Readings(i), Promote(i, t)
  PROVE  (\A j \in Clients : Carries(j)') /\ \A c \in Channels : Justified(c)'
<1> PICK r : r = req[i]
  OBVIOUS
<1> PICK until : until = Later(r.keyUntil, r.modUntil)
  OBVIOUS
<1> PICK s : s = AfterWrite(r)
  OBVIOUS
<1>1. IInv /\ cool \in [Things -> Records] /\ r \in Requests /\ r.at = "promote" /\ now \in Nat
      /\ r.chan \in Channels /\ Timely(r) /\ (i \in crossed \/ Backed(r))
      /\ reason \in [Channels -> Reasons] /\ t \in Nat
  BY CoolKnown, ReadingIsPast DEF Promote, At, Sound, Shape
<1> PICK c \in Channels : c = r.chan
  BY <1>1
<1>2. /\ Becomes(i, s) /\ cool' = [cool EXCEPT ![Channel(c)] = SetTo(until, t)]
      /\ crossed' = crossed \ {i}
      /\ reason' = [reason EXCEPT ![c] =
                      IF i \in crossed \/ BeingCleared(c) THEN "crossed" ELSE "exhausted"]
  BY DEF Promote, Written
<1>3. r.keyUntil \in Nat /\ r.modUntil \in Nat
  BY <1>1 DEF Requests
<1>4. until \in Nat /\ (until = r.keyUntil \/ until = r.modUntil)
  BY <1>3 DEF Later
<1>5. SetTo(until, t) \in Records /\ SetTo(until, t).until = until
  BY <1>1, <1>4, SetRecord
<1>6. s.keyUntil = 0 /\ s.modUntil = 0 /\ ClearsLast(s)'
  BY <1>1, AfterWriteTimes DEF ClearsLast
<1>7. Channel(c) \in Things
  BY OwnRecords
<1>8. cool'[Channel(c)].until = until /\ \A y \in Things : y # Channel(c) => cool'[y] = cool[y]
  BY <1>1, <1>2, <1>5, <1>7
<1>9. \A y \in KeysOf(c) \cup ModelsOf(c) : cool'[y] = cool[y]
  <2>1. \A y \in KeysOf(c) \cup ModelsOf(c) : y \in Things /\ y # Channel(c)
    BY NamesAssumption DEF KeysOf, ModelsOf, Channel, Things
  <2> QED BY <1>8, <2>1
<1>10. reason'[c] = (IF i \in crossed \/ BeingCleared(c) THEN "crossed" ELSE "exhausted")
       /\ \A d \in Channels : d # c => reason'[d] = reason[d]
  BY <1>1, <1>2
<1>11. BeingCleared(c) => Cleaned(c)'
  BY <1>10 DEF Cleaned
<1>12. Justified(c)'
  <2>1. CASE i \in crossed \/ until = 0
    BY <1>8, <1>10, <2>1 DEF Justified, Cleaned, Channel
  <2>2. CASE Backed(r) /\ until > 0 /\ until = r.keyUntil
    <3>1. \A y \in KeysOf(c) : cool'[y].until >= cool'[Channel(c)].until
      BY <1>8, <1>9, <2>2 DEF Backed
    <3> QED BY <3>1 DEF Justified, KeysOf, Channel
  <2>3. CASE Backed(r) /\ until > 0 /\ until = r.modUntil
    <3>1. \A y \in ModelsOf(c) : cool'[y].until >= cool'[Channel(c)].until
      BY <1>8, <1>9, <2>3 DEF Backed
    <3> QED BY <3>1 DEF Justified, ModelsOf, Channel
  <2>4. until = 0 \/ until > 0
    BY <1>4
  <2> QED BY <1>1, <1>4, <2>1, <2>2, <2>3, <2>4
<1> QED BY <1>2, <1>5, <1>6, <1>10, <1>11, <1>12, WholeCool

LEMMA ClearCool ==
  ASSUME CoolInv, IInv', NEW i \in Clients, ClearNext(i)
  PROVE  (\A j \in Clients : Carries(j)') /\ \A c \in Channels : Justified(c)'
<1> PICK r : r = req[i]
  OBVIOUS
<1> PICK x : x = Cleared(r)
  OBVIOUS
<1> PICK s : s = AfterWrite(r)
  OBVIOUS
<1>1. IInv /\ cool \in [Things -> Records] /\ r \in Requests
      /\ r.at \in {"clearChannel", "clearKey", "clearModel"} /\ Timely(r) /\ ClearsLast(r)
      /\ r.chan \in Channels /\ r.key \in Keys /\ r.model \in Models
      /\ reason \in [Channels -> Reasons]
  BY CoolKnown DEF ClearNext, Sound, Shape, Requests
<1> PICK c \in Channels : c = r.chan
  BY <1>1
<1>2. /\ Becomes(i, s) /\ cool' = [cool EXCEPT ![x] = Clear]
      /\ crossed' = IF Lowers(x, Clear) THEN crossed \cup Crosses(c) ELSE crossed
      /\ reason' = [reason EXCEPT ![c] = IF x = Channel(c) THEN "exhausted" ELSE @]
  BY DEF ClearNext, Written
<1>3. Clear \in Records /\ Clear.until = 0
  BY DEF Clear, Records
<1>4. s.keyUntil = 0 /\ s.modUntil = 0
      /\ (s.at \in {"clearKey", "clearModel"} => s.chan = c)
  BY <1>1, AfterWriteTimes
<1>5. crossed \ {i} \subseteq crossed'
  BY <1>2
<1>6. CASE r.at = "clearChannel"
  <2>1. x = Channel(c) /\ Channel(c) \in Things
    BY <1>6, OwnRecords DEF Cleared
  <2>2. cool'[Channel(c)].until = 0
    BY <1>1, <1>2, <1>3, <2>1
  <2>3. Cleaned(c)' /\ Justified(c)'
    BY <2>2 DEF Cleaned, Justified, Channel
  <2>4. \A d \in Channels : d # c => reason'[d] = reason[d]
    BY <1>1, <1>2
  <2>5. ClearsLast(s)'
    BY <1>4, <2>3 DEF ClearsLast
  <2> QED BY <1>2, <1>3, <1>4, <1>5, <2>1, <2>3, <2>4, <2>5, WholeCool
<1>7. CASE r.at \in {"clearKey", "clearModel"}
  <2>1. x \in KeysOf(c) \cup ModelsOf(c)
    BY <1>1, <1>7 DEF Cleared, KeysOf, ModelsOf
  <2>2. x \in Things /\ x[2] # Whole /\ x # Channel(c)
    BY <2>1, NamesAssumption DEF KeysOf, ModelsOf, Things, Channel
  <2>3. reason' = reason
    BY <1>1, <1>2, <2>2
  <2>4. Cleaned(c)'
    <3>1. Cleaned(c)
      BY <1>1, <1>7 DEF ClearsLast
    <3>2. cool'[Channel(c)] = cool[Channel(c)]
      BY <1>1, <1>2, <2>2, OwnRecords
    <3> QED BY <2>3, <3>1, <3>2 DEF Cleaned, Channel
  <2>5. StaysExcused
    BY <2>3 DEF StaysExcused
  <2>6. Clear.until < cool[x].until => Cleaned(c)' /\ Crosses(c) \ {i} \subseteq crossed'
    BY <1>2, <2>2, <2>4 DEF Lowers
  <2>7. ClearsLast(s)'
    BY <1>4, <2>4 DEF ClearsLast
  <2> QED BY <1>2, <1>3, <1>4, <1>5, <2>1, <2>5, <2>6, <2>7, PartCool
<1> QED BY <1>1, <1>6, <1>7

\* A channel that the store refused to clear is not held to be cleared.
LEMMA FaultCool ==
  ASSUME CoolInv, NEW i \in Clients,
         WriteFails(i) \/ \E t \in Readings(i) : ReadFails(i, t)
  PROVE  (\A j \in Clients : Carries(j)') /\ \A c \in Channels : Justified(c)'
<1> PICK r : r = req[i]
  OBVIOUS
<1>1. IInv /\ r \in Requests /\ Sound(r) /\ Timely(r) /\ ClearsLast(r)
      /\ (i \in crossed \/ Backed(r)) /\ reason \in [Channels -> Reasons]
  BY CoolKnown
<1>2. CASE WriteFails(i)
  <2> PICK s : s = AfterWrite(r)
    OBVIOUS
  <2>1. /\ r.at \in {"mark", "promote", "clearChannel", "clearKey", "clearModel"}
        /\ Becomes(i, s) /\ cool' = cool /\ crossed' = crossed \ {i}
        /\ reason' = [reason EXCEPT ![r.chan] =
                        IF r.at = "clearChannel" THEN Doubtful(@) ELSE @]
    BY <1>2 DEF WriteFails, At
  <2>2. r.chan \in Channels
    BY <1>1, <2>1 DEF Sound, Shape
  <2>3. StaysExcused
    BY <1>1, <2>1 DEF StaysExcused, Doubtful
  <2>4. s.keyUntil = 0 /\ s.modUntil = 0
        /\ (s.at \in {"clearKey", "clearModel"} =>
              r.at \in {"clearChannel", "clearKey"} /\ s.chan = r.chan)
    BY <1>1, <2>1, AfterWriteTimes
  <2>5. Timely(s) /\ Backed(s)'
    BY <2>4, EmptyHanded
  <2>6. ClearsLast(s)'
    <3>1. CASE r.at = "clearChannel"
      <4>1. reason'[r.chan] # "exhausted"
        BY <1>1, <2>1, <2>2, <3>1 DEF Doubtful
      <4> QED BY <2>4, <3>1, <4>1 DEF ClearsLast, Cleaned
    <3>2. CASE r.at = "clearKey"
      <4>1. Cleaned(r.chan)
        BY <1>1, <3>2 DEF ClearsLast
      <4>2. Cleaned(r.chan)'
        BY <2>1, <2>2, <2>3, <4>1 DEF Cleaned, StaysExcused, Channel
      <4> QED BY <2>4, <4>2 DEF ClearsLast
    <3> QED BY <2>4, <3>1, <3>2 DEF ClearsLast
  <2> QED BY <2>1, <2>3, <2>5, <2>6, UnwrittenCool
<1>3. ASSUME NEW t \in Readings(i), ReadFails(i, t)
      PROVE  (\A j \in Clients : Carries(j)') /\ \A c \in Channels : Justified(c)'
  <2>1. UNCHANGED <<cool, reason, crossed>>
    BY <1>3 DEF ReadFails
  <2>2. CASE r.at = "readKeys" /\ Becomes(i, [r EXCEPT !.at = "readModels", !.since = t])
    <3> PICK s : s = [r EXCEPT !.at = "readModels", !.since = t]
      OBVIOUS
    <3>1. Becomes(i, s) /\ s.at = "readModels" /\ s.keyUntil = 0 /\ s.modUntil = 0
      BY <1>1, <2>2 DEF Requests, Timely
    <3>2. Timely(s) /\ Backed(s)' /\ ClearsLast(s)'
      BY <3>1, EmptyHanded DEF ClearsLast
    <3>3. StaysExcused
      BY <2>1 DEF StaysExcused
    <3> QED BY <2>1, <3>1, <3>2, <3>3, UnwrittenCool
  <2>3. CASE r.at = "readModels"
             /\ Becomes(i, IF Exhausted(r) THEN Exhausting(r) ELSE Resumed(r))
    <3>1. r.chan \in Channels
      BY <1>1, <2>3 DEF Sound, Shape
    <3> QED BY <1>1, <2>1, <2>3, <3>1, DecisionCool
  <2> QED BY <1>3, <2>2, <2>3 DEF ReadFails, At
<1> QED BY <1>2, <1>3

LEMMA CoolInit == Init => CoolInv
<1> SUFFICES ASSUME Init
             PROVE  CoolInv
  OBVIOUS
<1>1. IInv
  BY InvInit
<1>2. cool = [x \in Things |-> Clear]
      /\ \A i \in Clients : /\ req[i].at = "ended" /\ req[i].keyUntil = 0
                            /\ req[i].modUntil = 0
  BY DEF Init
<1>3. \A i \in Clients : Carries(i)
  BY <1>2 DEF Carries, Timely, Backed, ClearsLast
<1>4. \A c \in Channels : Justified(c)
  <2> SUFFICES ASSUME NEW c \in Channels
               PROVE  cool[Channel(c)].until = 0
    BY DEF Justified, Cleaned
  <2>1. Channel(c) \in Things
    BY OwnRecords
  <2> QED BY <1>2, <2>1 DEF Clear
<1> QED BY <1>1, <1>3, <1>4 DEF CoolInv

\* That a failure blames its own channel is part of the invariant above.
LEMMA CoolStep == NoticeInv /\ CoolInv /\ [Next]_vars => CoolInv'
<1> SUFFICES ASSUME NoticeInv, CoolInv, [Next]_vars
             PROVE  CoolInv'
  OBVIOUS
<1>1. IInv /\ IInv'
  <2>1. IInv'
    BY InvStep DEF CoolInv
  <2> QED BY <2>1 DEF CoolInv
<1>2. CASE UNCHANGED <<cool, req, reason, crossed>>
  BY <1>1, <1>2 DEF CoolInv, Carries, Timely, Backed, ClearsLast, Cleaned, Justified,
                    KeysOf, ModelsOf, Channel
<1>3. ASSUME NEW i \in Clients,
             Moves(i) \/ ClearNext(i) \/ WriteFails(i) \/ \E t \in Readings(i) : ReadFails(i, t)
      PROVE  CoolInv'
  <2>1. (\A j \in Clients : Carries(j)') /\ \A c \in Channels : Justified(c)'
    BY <1>1, <1>3, MovesCool, ClearCool, FaultCool
  <2> QED BY <1>1, <2>1 DEF CoolInv
<1>4. ASSUME NEW i \in Clients, NEW t \in Readings(i),
             \/ \E n \in Initials : Mark(i, n, t)
             \/ ReadKeys(i, t) \/ ReadModels(i, t) \/ Promote(i, t)
      PROVE  CoolInv'
  <2>1. ASSUME NEW n \in Initials, Mark(i, n, t)
        PROVE  (\A j \in Clients : Carries(j)') /\ \A c \in Channels : Justified(c)'
    <3>1. Blames(req[i])
      BY <2>1 DEF NoticeInv, Judging, Mark, At
    <3> QED BY <1>1, <2>1, <3>1, MarkCool
  <2>2. (\A j \in Clients : Carries(j)') /\ \A c \in Channels : Justified(c)'
    BY <1>1, <1>4, <2>1, ReadKeysCool, ReadModelsCool, PromoteCool
  <2> QED BY <1>1, <2>2 DEF CoolInv
<1>5. CASE Tick
  BY <1>2, <1>5 DEF Tick
<1>6. CASE UNCHANGED vars
  BY <1>2, <1>6 DEF vars
<1> QED BY <1>1, <1>3, <1>4, <1>5, <1>6, StepKinds

\* However requests fail, succeed and cool a channel side by side, and whatever
\* the store refuses, a channel is out of use as a whole only because a failure
\* of its own says so, while all its keys or all its models are cooling, or
\* because of one of the crossings that the history tells.
THEOREM ChannelsCoolWhenExhausted == Spec => []ChannelCooledOnlyWhenExhausted
<1>1. ASSUME CoolInv, NEW c \in Channels, Cooling(Channel(c)), reason[c] = "exhausted"
      PROVE  AllKeysCooling(c) \/ AllModelsCooling(c)
  <2>1. KeysOf(c) \in SUBSET Things /\ ModelsOf(c) \in SUBSET Things /\ Channel(c) \in Things
    BY KeysAndModels, OwnRecords
  <2>2. \A x \in Things : cool[x].until \in Nat
    BY <1>1 DEF CoolInv, IInv, TypeOK
  <2>3. now \in Nat /\ cool[Channel(c)].until > now
    BY <1>1 DEF CoolInv, IInv, TypeOK, Cooling, CoolingAt
  <2>4. ASSUME NEW x \in Things, cool[x].until >= cool[Channel(c)].until
        PROVE  Cooling(x)
    BY <2>1, <2>2, <2>3, <2>4 DEF Cooling, CoolingAt
  <2>5. Justified(c) /\ cool[Channel(c)].until # 0
    BY <1>1, <2>1, <2>2, <2>3 DEF CoolInv
  <2> QED BY <1>1, <2>1, <2>4, <2>5 DEF Justified, Cleaned, AllKeysCooling, AllModelsCooling
<1>2. CoolInv => ChannelCooledOnlyWhenExhausted
  BY <1>1 DEF ChannelCooledOnlyWhenExhausted
<1> QED BY <1>2, CoolInit, CoolStep, NoticeInit, NoticeStep, PTL DEF Spec

-----------------------------------------------------------------------------
(* What the fallback is good for *)

\* A request on its way to an upstream: between two candidates, one of them
\* still takes it.
Goes(r) ==
  /\ r.at \in {"visit", "select", "sent"}
  /\ r.at = "select" => r.tried = {}
  /\ r.at = "visit" => r.left # {} /\ (r.fallback \/ \E c \in r.left : Offers(c, r.model))

\* A key loop begins with nothing tried.
Untried(r) == r.at \in {"ended", "visit"} => r.tried = {}

ServeInv ==
  /\ IInv
  /\ \A i \in Clients : Untried(req[i]) /\ (i \in owed => Goes(req[i]))

LEMMA ServeKnown ==
  ASSUME ServeInv, NEW i \in Clients
  PROVE  /\ IInv /\ now \in Nat /\ cool \in [Things -> Records]
         /\ req[i] \in Requests /\ Sound(req[i])
         /\ Untried(req[i]) /\ (i \in owed => Goes(req[i]))
BY Known DEF ServeInv

\* What others may choose from changes with the records only, and a request that
\* loses all of it that way is not owed anything more.
LEMMA ServeKept ==
  ASSUME ServeInv, IInv', NEW i \in Clients, NEW r, Becomes(i, r), Untried(r), i \in owed' => Goes(r)',
         \/ UNCHANGED <<now, cool>> /\ owed' \subseteq owed \cup {i}
         \/ owed' = owed \ (LeftOut' \ LeftOut)
  PROVE  ServeInv'
<1>1. req \in [Clients -> Requests]
  BY DEF ServeInv, IInv, TypeOK
<1>2. ASSUME NEW j \in Clients
      PROVE  Untried(req[j])' /\ (j \in owed' => Goes(req[j])')
  <2>1. CASE j = i
    <3>1. req'[j] = r
      BY <1>1, <2>1 DEF Becomes
    <3> QED BY <2>1, <3>1 DEF Untried, Goes, Offers, AllKeysCooling, Cooling, CoolingAt, KeysOf
  <2>2. CASE j # i
    <3> PICK q : q = req[j]
      OBVIOUS
    <3>1. req'[j] = q /\ Untried(q) /\ (j \in owed => Goes(q))
      BY <1>1, <2>2, ServeKnown DEF Becomes
    <3>2. ASSUME j \in owed'
          PROVE  Goes(q)'
      <4>1. j \in owed /\ Goes(q)
        BY <2>2, <3>1, <3>2
      <4>2. CASE UNCHANGED <<now, cool>>
        BY <4>1, <4>2 DEF Goes, Offers, AllKeysCooling, Cooling, CoolingAt, KeysOf
      <4>3. CASE owed' = owed \ (LeftOut' \ LeftOut)
        <5>1. CASE q.at # "visit"
          BY <4>1, <5>1 DEF Goes
        <5>2. CASE q.at = "visit"
          <6>1. q.left # {} /\ (q.fallback \/ \E c \in q.left : Offers(c, q.model))
            BY <4>1, <5>2 DEF Goes
          <6>2. j \notin LeftOut
            BY <6>1 DEF LeftOut
          <6>3. j \notin LeftOut'
            BY <3>2, <4>3, <6>2
          <6>4. q.fallback \/ \E c \in q.left : Offers(c, q.model)'
            BY <3>1, <5>2, <6>1, <6>3
               DEF LeftOut, At, Offers, AllKeysCooling, Cooling, CoolingAt, KeysOf
          <6> QED BY <5>2, <6>1, <6>4 DEF Goes
        <5> QED BY <5>1, <5>2
      <4> QED BY <4>2, <4>3
    <3> QED BY <3>1, <3>2
         DEF Untried, Goes, Offers, AllKeysCooling, Cooling, CoolingAt, KeysOf
  <2> QED BY <2>1, <2>2
<1> QED BY <1>2 DEF ServeInv

LEMMA AfterWriteUntried ==
  ASSUME NEW r \in Requests,
         r.at \in {"mark", "promote", "clearChannel", "clearKey", "clearModel"}
  PROVE  Untried(AfterWrite(r))
<1>1. CASE r.at = "mark"
  BY <1>1, AfterMark DEF Untried
<1>2. CASE r.at = "promote"
  <2>1. AfterWrite(r) = Between(r, "visit")
    BY <1>2, AfterClear
  <2> QED BY <2>1, BetweenFields DEF Untried
<1>3. CASE r.at \in {"clearChannel", "clearKey"}
  BY <1>3, AfterClear DEF Untried
<1>4. CASE r.at = "clearModel"
  <2>1. AfterWrite(r) = Ended(r)
    BY <1>4, AfterClear
  <2> QED BY <2>1, EndedFields DEF Untried
<1> QED BY <1>1, <1>2, <1>3, <1>4

\* A request that is settled is owed nothing.
LEMMA SettlingServes ==
  ASSUME ServeInv, IInv', NEW i \in Clients,
         \/ ClientLeaves(i) \/ Busy(i) \/ Reject(i) \/ Succeed(i)
         \/ \E f \in Failures : Fail(i, f) \/ BreakOff(i, f)
  PROVE  ServeInv'
<1> PICK r : r = req[i]
  OBVIOUS
<1>1. IInv /\ r \in Requests /\ Sound(r)
  BY ServeKnown
<1>2. owed' = owed \ {i} /\ UNCHANGED <<now, cool>>
  BY DEF ClientLeaves, Busy, Reject, Succeed, Fail, BreakOff, Settles
<1>3. Untried(Ended(r)) /\ Untried(Between(r, "visit"))
  BY <1>1, EndedFields, BetweenFields DEF Untried
<1>4. CASE ClientLeaves(i) \/ Reject(i) \/ Busy(i)
  <2>1. Becomes(i, Ended(r)) \/ Becomes(i, Between(r, "visit"))
    BY <1>4 DEF ClientLeaves, Busy, Reject
  <2> QED BY <1>2, <1>3, <2>1, ServeKept
<1>5. CASE Succeed(i)
  <2> PICK old : old = OutOfLoop(r)
    OBVIOUS
  <2> PICK s : s = [old EXCEPT !.at = "clearChannel", !.left = {}, !.fallback = FALSE]
    OBVIOUS
  <2>1. Becomes(i, s)
    BY <1>5 DEF Succeed
  <2>2. old \in Requests
    BY <1>1, OutOfLoopFields
  <2>3. s.at = "clearChannel"
    BY <2>2 DEF Requests
  <2> QED BY <1>2, <2>1, <2>3, ServeKept DEF Untried
<1>6. ASSUME NEW f \in Failures, Fail(i, f) \/ BreakOff(i, f)
      PROVE  ServeInv'
  <2> PICK q : q = [r EXCEPT !.left = {}, !.fallback = FALSE]
    OBVIOUS
  <2> PICK v : v = Verdict(r.chan, r.key, r.model, f)
    OBVIOUS
  <2> PICK w : w = [v EXCEPT !.then = IF @ = "key" THEN "model" ELSE @]
    OBVIOUS
  <2>1. r.chan \in Channels /\ r.key \in Keys /\ r.model \in Models /\ now \in Nat
    BY <1>1, <1>6, ServeKnown DEF Fail, BreakOff, At, Sound, Shape, Requests
  <2>2. q \in Requests /\ q.chan = r.chan /\ q.key = r.key /\ q.model = r.model
    BY <1>1 DEF Requests
  <2>3. v \in Verdicts
    BY <2>1, VerdictIsFit DEF Fit
  <2>4. w \in Verdicts
    BY <2>3 DEF Verdicts
  <2>5. Becomes(i, Judged(r, v)) \/ Becomes(i, Judged(q, w))
    BY <1>6, <2>2 DEF Fail, BreakOff
  <2>6. Untried(Judged(r, v)) /\ Untried(Judged(q, w))
    BY <1>1, <2>2, <2>3, <2>4, JudgedFields DEF Untried
  <2> QED BY <1>2, <2>5, <2>6, ServeKept
<1> QED BY <1>4, <1>5, <1>6

\* One that deals with cooldowns has been to an upstream.
LEMMA CoolingServes ==
  ASSUME ServeInv, IInv', NEW i \in Clients,
         \/ ClearNext(i) \/ WriteFails(i)
         \/ \E t \in Readings(i) : \/ \E n \in Initials : Mark(i, n, t)
                                  \/ ReadKeys(i, t) \/ ReadModels(i, t) \/ Promote(i, t)
                                  \/ ReadFails(i, t)
  PROVE  ServeInv'
<1> PICK r : r = req[i]
  OBVIOUS
<1>1. IInv /\ r \in Requests /\ Sound(r) /\ (i \in owed => Goes(r))
  BY ServeKnown
<1>2. r.at \notin {"ended", "visit", "select", "sent"}
  BY DEF ClearNext, WriteFails, Mark, ReadKeys, ReadModels, Promote, ReadFails, At
<1>3. i \notin owed
  BY <1>1, <1>2 DEF Goes
<1>4. ASSUME NEW t \in Readings(i),
             (\E n \in Initials : Mark(i, n, t)) \/ Promote(i, t)
      PROVE  /\ r.at \in {"mark", "promote"} /\ Becomes(i, AfterWrite(r))
             /\ owed' = owed \ (LeftOut' \ LeftOut)
  BY <1>4 DEF Mark, Promote, Written, At
<1>5. CASE ClearNext(i) \/ \E t \in Readings(i) :
             (\E n \in Initials : Mark(i, n, t)) \/ Promote(i, t)
  <2>1. /\ r.at \in {"mark", "promote", "clearChannel", "clearKey", "clearModel"}
        /\ Becomes(i, AfterWrite(r)) /\ owed' = owed \ (LeftOut' \ LeftOut)
    BY <1>4, <1>5 DEF ClearNext, Written
  <2>2. Untried(AfterWrite(r)) /\ i \notin owed'
    BY <1>1, <1>3, <2>1, AfterWriteUntried
  <2> QED BY <2>1, <2>2, ServeKept
<1>6. CASE WriteFails(i)
  <2>1. /\ r.at \in {"mark", "promote", "clearChannel", "clearKey", "clearModel"}
        /\ Becomes(i, AfterWrite(r)) /\ UNCHANGED <<now, cool, owed>>
    BY <1>6 DEF WriteFails
  <2>2. Untried(AfterWrite(r)) /\ i \notin owed'
    BY <1>1, <1>3, <2>1, AfterWriteUntried
  <2> QED BY <2>1, <2>2, ServeKept
<1>7. ASSUME NEW s, Becomes(i, s), Untried(s), UNCHANGED <<now, cool, owed>>
      PROVE  ServeInv'
  BY <1>3, <1>7, ServeKept
<1>8. \A q \in Requests : Untried(IF Exhausted(q) THEN Exhausting(q) ELSE Resumed(q))
  BY ExhaustingFields, ResumedFields DEF Untried
<1>9. ASSUME NEW t \in Readings(i), ReadKeys(i, t)
      PROVE  ServeInv'
  <2>1. PICK until : Becomes(i, [r EXCEPT !.at = "readModels", !.since = t, !.keyUntil = until])
    BY <1>9 DEF ReadKeys
  <2> PICK s : s = [r EXCEPT !.at = "readModels", !.since = t, !.keyUntil = until]
    OBVIOUS
  <2>2. s.at = "readModels"
    BY <1>1 DEF Requests
  <2> QED BY <1>7, <1>9, <2>1, <2>2 DEF Untried, ReadKeys, OnlyRequest
<1>10. ASSUME NEW t \in Readings(i), ReadModels(i, t)
       PROVE  ServeInv'
  <2> DEFINE first == Earliest({cool[x].until : x \in ModelsOf(r.chan)})
  <2> PICK until : until = IF \A x \in ModelsOf(r.chan) : CoolingAt(x, t) THEN first ELSE 0
    OBVIOUS
  <2> PICK q : q = [r EXCEPT !.modUntil = until]
    OBVIOUS
  <2>1. r.chan \in Channels
    BY <1>1, <1>10 DEF ReadModels, At, Sound, Shape
  <2>2. until \in Nat
    BY <1>1, <2>1, KeysAndModels, EarliestIsWithin
  <2>3. q \in Requests
    BY <1>1, <2>2 DEF Requests
  <2>4. Becomes(i, IF Exhausted(q) THEN Exhausting(q) ELSE Resumed(q))
        /\ UNCHANGED <<now, cool, owed>>
    BY <1>10 DEF ReadModels, OnlyRequest
  <2> QED BY <1>7, <1>8, <2>3, <2>4
<1>11. ASSUME NEW t \in Readings(i), ReadFails(i, t)
       PROVE  ServeInv'
  <2> PICK s : s = [r EXCEPT !.at = "readModels", !.since = t]
    OBVIOUS
  <2>1. s.at = "readModels"
    BY <1>1 DEF Requests
  <2>2. Becomes(i, s) \/ Becomes(i, IF Exhausted(r) THEN Exhausting(r) ELSE Resumed(r))
    BY <1>11 DEF ReadFails
  <2> QED BY <1>1, <1>7, <1>8, <1>11, <2>1, <2>2 DEF Untried, ReadFails
<1> QED BY <1>5, <1>6, <1>9, <1>10, <1>11

\* A request that begins has a channel that takes it, or the fallback.
LEMMA AskServes ==
  ASSUME FallbackEnabled, ServeInv, IInv', NEW i \in Clients, NEW m \in Models, Ask(i, m)
  PROVE  ServeInv'
<1> PICK q : q = req[i]
  OBVIOUS
<1> PICK r : r = [q EXCEPT !.at = "visit", !.model = m]
  OBVIOUS
<1>1. q \in Requests /\ Untried(q) /\ q.at = "ended"
  BY ServeKnown DEF Ask, At
<1>2. r \in Requests /\ r.at = "visit" /\ r.model = m /\ r.tried = {}
  BY <1>1 DEF Requests, Stages, Untried
<1>3. UNCHANGED <<now, cool>> /\ owed' = owed \cup {i}
  BY DEF Ask
<1>4. CASE Candidates(m) # {}
  <2> PICK s : s = [r EXCEPT !.left = Candidates(m)]
    OBVIOUS
  <2>1. Becomes(i, s)
    BY <1>4 DEF Ask
  <2>2. s.at = "visit" /\ s.left = Candidates(m) /\ s.model = m /\ s.tried = {}
    BY <1>2 DEF Requests
  <2>3. \A c \in s.left : Offers(c, m)
    BY <2>2 DEF Candidates, Usable, Offers
  <2>4. Goes(s)
    BY <1>4, <2>2, <2>3 DEF Goes
  <2>5. Goes(s)'
    BY <1>3, <2>4 DEF Goes, Offers, AllKeysCooling, Cooling, CoolingAt, KeysOf
  <2> QED BY <1>3, <2>1, <2>2, <2>5, ServeKept DEF Untried
<1>5. CASE Candidates(m) = {}
  <2>1. PICK c \in Channels : Becomes(i, [r EXCEPT !.left = {c}, !.fallback = TRUE])
    BY <1>5 DEF Ask
  <2> PICK s : s = [r EXCEPT !.left = {c}, !.fallback = TRUE]
    OBVIOUS
  <2>2. s.at = "visit" /\ s.left = {c} /\ s.fallback = TRUE /\ s.tried = {}
    BY <1>2 DEF Requests
  <2>3. Goes(s)'
    BY <2>2 DEF Goes
  <2> QED BY <1>3, <2>1, <2>2, <2>3, ServeKept DEF Untried
<1> QED BY <1>4, <1>5

LEMMA VisitServes ==
  ASSUME ServeInv, IInv', NEW i \in Clients, NEW c \in Channels, Visit(i, c)
  PROVE  ServeInv'
<1> PICK q : q = req[i]
  OBVIOUS
<1> PICK r : r = [q EXCEPT !.left = @ \ {c}]
  OBVIOUS
<1> PICK seen : seen = [k \in Keys |-> StillCooling(<<c, k>>)]
  OBVIOUS
<1> PICK s : s = [r EXCEPT !.at = "select", !.chan = c, !.seen = seen]
  OBVIOUS
<1>1. q \in Requests /\ Untried(q) /\ q.at = "visit" /\ c \in q.left /\ (i \in owed => Goes(q))
  BY ServeKnown DEF Visit, At
<1>2. r \in Requests /\ r.at = "visit" /\ r.tried = {} /\ r.left = q.left \ {c}
      /\ r.model = q.model /\ r.fallback = q.fallback
  BY <1>1 DEF Requests, Untried
<1>3. s.at = "select" /\ s.tried = {}
  BY <1>2 DEF Requests
<1>4. Becomes(i, IF Offers(c, r.model) \/ r.fallback THEN s ELSE r) /\ UNCHANGED <<now, cool, owed>>
  BY DEF Visit, OnlyRequest
<1>5. CASE Offers(c, r.model) \/ r.fallback
  <2>1. Becomes(i, s) /\ Untried(s) /\ Goes(s)'
    BY <1>3, <1>4, <1>5 DEF Untried, Goes
  <2> QED BY <1>4, <2>1, ServeKept
<1>6. CASE ~(Offers(c, r.model) \/ r.fallback)
  <2>1. Becomes(i, r) /\ Untried(r)
    BY <1>2, <1>4, <1>6 DEF Untried
  <2>2. i \in owed => Goes(r)
    BY <1>1, <1>2, <1>6 DEF Goes
  <2>3. i \in owed' => Goes(r)'
    BY <1>4, <2>2 DEF Goes, Offers, AllKeysCooling, Cooling, CoolingAt, KeysOf
  <2> QED BY <1>4, <2>1, <2>3, ServeKept
<1> QED BY <1>5, <1>6

LEMMA AnswerServes ==
  ASSUME ServeInv, IInv', NEW i \in Clients, Answer(i)
  PROVE  ServeInv'
<1>1. req[i] \in Requests /\ i \notin owed
  BY ServeKnown DEF Answer, At, Goes
<1>2. Becomes(i, Ended(req[i])) /\ UNCHANGED <<now, cool, owed>>
  BY DEF Answer, OnlyRequest
<1>3. Untried(Ended(req[i]))
  BY <1>1, EndedFields DEF Untried
<1> QED BY <1>1, <1>2, <1>3, ServeKept

LEMMA SelectServes ==
  ASSUME ServeInv, IInv', NEW i \in Clients, NEW k \in Keys, SelectKey(i, k)
  PROVE  ServeInv'
<1> PICK s : s = [req[i] EXCEPT !.at = "sent", !.key = k, !.tried = @ \cup {k}]
  OBVIOUS
<1>1. Becomes(i, s) /\ UNCHANGED <<now, cool, owed>>
  BY DEF SelectKey, OnlyRequest
<1>2. s.at = "sent"
  BY ServeKnown DEF Requests
<1>3. Untried(s) /\ Goes(s)'
  BY <1>2 DEF Untried, Goes
<1> QED BY <1>1, <1>3, ServeKept

\* A request that enters a channel with nothing tried finds a key to try.
LEMMA FreshHasKey ==
  ASSUME IInv, NEW i \in Clients, req[i].at = "select", req[i].tried = {}
  PROVE  ~(Cardinality(req[i].tried) >= KeyLimit(req[i].chan) \/ Offered(req[i]) = {})
<1>1. Offered(req[i]) # {}
  BY FreshIsOffered
<1>2. Cardinality(Keys) \in Nat /\ Cardinality(Keys) > 0
  BY NamesAssumption, FS_CardinalityType, FS_EmptySet
<1>3. KeyLimit(req[i].chan) > 0 /\ KeyLimit(req[i].chan) \in Nat
  BY <1>2, TimesAssumption DEF KeyLimit
<1>4. Cardinality({}) = 0
  BY FS_EmptySet
<1> QED BY <1>1, <1>3, <1>4

LEMMA KeysTriedServes ==
  ASSUME ServeInv, IInv', NEW i \in Clients, KeysTried(i)
  PROVE  ServeInv'
<1>1. IInv /\ req[i] \in Requests /\ req[i].at = "select" /\ (i \in owed => Goes(req[i]))
  BY ServeKnown DEF KeysTried, At
<1>2. req[i].tried # {}
  BY <1>1, FreshHasKey DEF KeysTried
<1>3. i \notin owed
  BY <1>1, <1>2 DEF Goes
<1>4. Becomes(i, Between(req[i], "visit")) /\ UNCHANGED <<now, cool, owed>>
  BY DEF KeysTried, OnlyRequest
<1>5. Untried(Between(req[i], "visit"))
  BY <1>1, BetweenFields DEF Untried
<1> QED BY <1>3, <1>4, <1>5, ServeKept

\* Time ends cooldowns only.
LEMMA TimeServes ==
  ASSUME ServeInv, IInv', now' \in Nat, now <= now', UNCHANGED <<cool, req, owed>>
  PROVE  ServeInv'
<1>1. now \in Nat /\ cool \in [Things -> Records] /\ req \in [Clients -> Requests]
  BY DEF ServeInv, IInv, TypeOK, Records
<1>2. \A x \in Things : ~Cooling(x) => ~Cooling(x)'
  <2>1. \A x \in Things : cool[x].until \in Nat
    BY <1>1 DEF Records
  <2> QED BY <1>1, <2>1 DEF Cooling, CoolingAt
<1>3. ASSUME NEW c \in Channels, NEW m \in Models, Offers(c, m)
      PROVE  Offers(c, m)'
  <2>1. KeysOf(c) \in SUBSET Things /\ <<c, m>> \in Things
    BY KeysAndModels DEF Things
  <2> QED BY <1>2, <1>3, <2>1 DEF Offers, AllKeysCooling, KeysOf
<1>4. ASSUME NEW j \in Clients
      PROVE  Untried(req[j])' /\ (j \in owed' => Goes(req[j])')
  <2> PICK r : r = req[j]
    OBVIOUS
  <2>1. Untried(r) /\ (j \in owed => Goes(r)) /\ r \in Requests /\ req'[j] = r
    BY ServeKnown
  <2>2. r.left \in SUBSET Channels /\ r.model \in Models
    BY <2>1 DEF Requests
  <2>3. \A c \in r.left : Offers(c, r.model) => Offers(c, r.model)'
    BY <1>3, <2>2
  <2>4. Goes(r) => Goes(r)'
    BY <2>3 DEF Goes
  <2> QED BY <2>1, <2>4 DEF Untried, Goes, Offers, AllKeysCooling, Cooling, CoolingAt, KeysOf
<1> QED BY <1>4 DEF ServeInv

LEMMA ServeInit == Init => ServeInv
<1> SUFFICES ASSUME Init
             PROVE  ServeInv
  OBVIOUS
<1>1. owed = {} /\ \A i \in Clients : req[i].tried = {}
  BY DEF Init
<1> QED BY <1>1, InvInit DEF ServeInv, Untried

LEMMA ServeStep ==
  ASSUME FallbackEnabled
  PROVE  ServeInv /\ [Next]_vars => ServeInv'
<1> SUFFICES ASSUME ServeInv, [Next]_vars
             PROVE  ServeInv'
  OBVIOUS
<1>1. IInv' /\ now \in Nat /\ now' \in Nat
  <2>1. IInv'
    BY InvStep DEF ServeInv
  <2> QED BY <2>1 DEF ServeInv, IInv, TypeOK
<1>2. ASSUME NEW i \in Clients, Proceed(i)
      PROVE  ServeInv'
  BY <1>1, <1>2, VisitServes, AnswerServes, SelectServes, KeysTriedServes, CoolingServes
     DEF Proceed
<1>3. ASSUME NEW i \in Clients, Respond(i) \/ ClientLeaves(i)
      PROVE  ServeInv'
  BY <1>1, <1>3, SettlingServes DEF Respond
<1>4. ASSUME NEW i \in Clients, WriteFails(i) \/ \E t \in Readings(i) : ReadFails(i, t)
      PROVE  ServeInv'
  BY <1>1, <1>4, CoolingServes
<1>5. ASSUME NEW i \in Clients, NEW m \in Models, Ask(i, m)
      PROVE  ServeInv'
  BY <1>1, <1>5, AskServes
<1>6. CASE Tick
  BY <1>1, <1>6, TimeServes DEF Tick
<1>7. CASE UNCHANGED vars
  BY <1>1, <1>7, TimeServes DEF vars
<1> QED BY <1>2, <1>3, <1>4, <1>5, <1>6, <1>7 DEF Next

\* With the fallback switched on no request, of any number side by side, is
\* answered before it has been sent to a channel, found it without a place for
\* it, or lost to other requests all that was left of its candidates.
THEOREM FallbackReachesAChannel == Spec => []FallbackServes
<1>1. CASE FallbackEnabled
  <2>1. ServeInv => FallbackServes
    BY DEF ServeInv, IInv, TypeOK, Goes, FallbackServes, At
  <2>2. ServeInv /\ [Next]_vars => ServeInv'
    BY <1>1, ServeStep
  <2> QED BY <2>1, <2>2, ServeInit, PTL DEF Spec
<1>2. CASE ~FallbackEnabled
  <2>1. FallbackServes
    BY <1>2 DEF FallbackServes
  <2> QED BY <2>1, PTL
<1> QED BY <1>1, <1>2


=============================================================================
