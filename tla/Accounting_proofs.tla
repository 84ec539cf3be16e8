--------------------------- MODULE Accounting_proofs ---------------------------
(***************************************************************************)
(* Proofs about Accounting, for any number of requests and any capacities. *)
(*                                                                         *)
(* A sum over places can only be argued about one request at a time:       *)
(* ChargeOf, LogOf and CostOf say of one request where its charge, its log *)
(* entry and its cost are, with equalities that the properties weaken.     *)
(* What the worker's steps do to the sums rests on the lemmas about Times  *)
(* of an appended and of a shortened sequence.  StopInv ties what is left  *)
(* in the queues to how far the shutdown has come, and DownInv says what   *)
(* a new process may rely on.                                              *)
(***************************************************************************)
EXTENDS Accounting, FiniteSetTheorems, TLAPS
-----------------------------------------------------------------------------
(* Counting in a queue *)

LEMMA TimesIsNat ==
  ASSUME NEW s \in Seq(Requests), NEW r
  PROVE  /\ IsFiniteSet({i \in DOMAIN s : s[i] = r}) /\ Times(r, s) \in Nat
         /\ Times(r, s) = 0 <=> r \notin Entries(s)
<1> DEFINE at_(q) == {i \in DOMAIN q : q[i] = r}
<1>1. DOMAIN s = 1..Len(s) /\ Len(s) \in Nat
  OBVIOUS
<1>2. IsFiniteSet(DOMAIN s)
  BY <1>1, FS_Interval
<1>3. IsFiniteSet(at_(s))
  BY <1>2, FS_Subset
<1>4. Times(r, s) = Cardinality(at_(s))
  BY DEF Times
<1>5. Times(r, s) \in Nat /\ (Times(r, s) = 0 <=> at_(s) = {})
  BY <1>3, <1>4, FS_CardinalityType, FS_EmptySet
<1>6. at_(s) = {} <=> r \notin Entries(s)
  BY DEF Entries
<1> QED BY <1>3, <1>5, <1>6

LEMMA TimesOfNone ==
  ASSUME NEW r
  PROVE  Times(r, << >>) = 0
<1>1. {i \in DOMAIN << >> : << >>[i] = r} = {}
  OBVIOUS
<1> QED BY <1>1, FS_EmptySet DEF Times

LEMMA TimesOfAppend ==
  ASSUME NEW s \in Seq(Requests), NEW x \in Requests, NEW r
  PROVE  Times(r, Append(s, x)) = Times(r, s) + One(x = r)
<1> DEFINE n == Len(s)
           old == {i \in DOMAIN s : s[i] = r}
           new == {i \in DOMAIN Append(s, x) : Append(s, x)[i] = r}
<1>1. n \in Nat /\ DOMAIN s = 1..n /\ DOMAIN Append(s, x) = 1..(n + 1)
      /\ Append(s, x)[n + 1] = x /\ \A i \in 1..n : Append(s, x)[i] = s[i]
  OBVIOUS
<1>2. IsFiniteSet(old) /\ Cardinality(old) \in Nat
  BY TimesIsNat, FS_CardinalityType
<1>3. CASE x = r
  <2>1. new = old \cup {n + 1} /\ n + 1 \notin old
    BY <1>1, <1>3
  <2>2. Cardinality(new) = Cardinality(old) + 1
    BY <1>2, <2>1, FS_AddElement
  <2> QED BY <1>3, <2>2 DEF Times, One
<1>4. CASE x # r
  <2>1. new = old
    BY <1>1, <1>4
  <2>2. Times(r, Append(s, x)) = Times(r, s)
    BY <2>1 DEF Times
  <2>3. One(x = r) = 0
    BY <1>4 DEF One
  <2>4. Times(r, s) \in Nat
    BY TimesIsNat
  <2> QED BY <2>2, <2>3, <2>4
<1> QED BY <1>3, <1>4

\* One more of the entry that is appended, and as many of the others.
LEMMA AppendCounts ==
  ASSUME NEW s \in Seq(Requests), NEW x \in Requests
  PROVE  /\ Times(x, Append(s, x)) = Times(x, s) + 1
         /\ \A r : r # x => Times(r, Append(s, x)) = Times(r, s)
<1>1. Times(x, Append(s, x)) = Times(x, s) + One(x = x)
  BY TimesOfAppend
<1>2. One(x = x) = 1
  BY DEF One
<1>3. ASSUME NEW r, r # x
      PROVE  Times(r, Append(s, x)) = Times(r, s)
  <2>1. Times(r, Append(s, x)) = Times(r, s) + One(x = r)
    BY TimesOfAppend
  <2>2. One(x = r) = 0
    BY <1>3 DEF One
  <2>3. Times(r, s) \in Nat
    BY TimesIsNat
  <2> QED BY <2>1, <2>2, <2>3
<1> QED BY <1>1, <1>2, <1>3

LEMMA TimesOfTail ==
  ASSUME NEW s \in Seq(Requests), s # << >>, NEW r
  PROVE  Times(r, s) = Times(r, Tail(s)) + One(Head(s) = r)
<1> DEFINE n == Len(s)
           t == Tail(s)
           old == {i \in DOMAIN s : s[i] = r}
           new == {i \in DOMAIN t : t[i] = r}
           moved == {i \in 2..n : s[i] = r}
           f == [i \in new |-> i + 1]
<1>1. n \in Nat \ {0} /\ DOMAIN s = 1..n /\ DOMAIN t = 1..(n - 1) /\ t \in Seq(Requests)
      /\ \A i \in 1..(n - 1) : t[i] = s[i + 1]
  OBVIOUS
<1>2. IsFiniteSet(new) /\ Cardinality(new) \in Nat
  BY <1>1, TimesIsNat, FS_CardinalityType
<1>3. f \in Bijection(new, moved)
  <2>1. f \in [new -> moved]
    BY <1>1
  <2>2. \A i, j \in new : f[i] = f[j] => i = j
    BY <1>1
  <2>3. \A k \in moved : \E i \in new : f[i] = k
    <3> SUFFICES ASSUME NEW k \in moved
                 PROVE  \E i \in new : f[i] = k
      OBVIOUS
    <3>1. k \in 2..n /\ s[k] = r
      OBVIOUS
    <3>2. k - 1 \in 1..(n - 1) /\ (k - 1) + 1 = k
      BY <1>1, <3>1
    <3>3. k - 1 \in new
      BY <1>1, <3>1, <3>2
    <3>4. f[k - 1] = k
      BY <3>2, <3>3
    <3> QED BY <3>3, <3>4
  <2> HIDE DEF f, new, moved
  <2> QED BY <2>1, <2>2, <2>3 DEF Bijection, Injection, IsInjective, Surjection
<1>4. IsFiniteSet(moved) /\ Cardinality(moved) = Cardinality(new)
  <2> HIDE DEF new, moved, f
  <2>1. new # {} \/ new = {}
    OBVIOUS
  <2> QED BY <1>2, <1>3, FS_Bijection DEF ExistsBijection
<1>5. Cardinality(old) = Cardinality(moved) + One(s[1] = r)
  <2>1. CASE s[1] = r
    <3>1. old = moved \cup {1} /\ 1 \notin moved
      BY <1>1, <2>1
    <3>2. Cardinality(old) = Cardinality(moved) + 1
      <4> HIDE DEF moved, old
      <4> QED BY <1>4, <3>1, FS_AddElement
    <3> QED BY <2>1, <3>2 DEF One
  <2>2. CASE s[1] # r
    <3>1. old = moved
      BY <1>1, <2>2
    <3>2. One(s[1] = r) = 0
      BY <2>2 DEF One
    <3>3. Cardinality(moved) \in Nat
      BY <1>2, <1>4
    <3> HIDE DEF moved, old
    <3> QED BY <3>1, <3>2, <3>3
  <2> QED BY <2>1, <2>2
<1>6. Head(s) = s[1]
  BY <1>1
<1> QED BY <1>4, <1>5, <1>6 DEF Times

LEMMA TailCounts ==
  ASSUME NEW s \in Seq(Requests), s # << >>
  PROVE  /\ Times(Head(s), s) = Times(Head(s), Tail(s)) + 1
         /\ \A r : r # Head(s) => Times(r, Tail(s)) = Times(r, s)
<1>1. Times(Head(s), s) = Times(Head(s), Tail(s)) + One(Head(s) = Head(s))
  BY TimesOfTail
<1>2. One(Head(s) = Head(s)) = 1
  BY DEF One
<1>3. ASSUME NEW r, r # Head(s)
      PROVE  Times(r, Tail(s)) = Times(r, s)
  <2>1. Times(r, s) = Times(r, Tail(s)) + One(Head(s) = r)
    BY TimesOfTail
  <2>2. One(Head(s) = r) = 0
    BY <1>3 DEF One
  <2>3. Times(r, Tail(s)) \in Nat
    <3>1. Tail(s) \in Seq(Requests)
      OBVIOUS
    <3> QED BY <3>1, TimesIsNat
  <2> QED BY <2>1, <2>2, <2>3
<1> QED BY <1>1, <1>2, <1>3

\* What one entry more, or one fewer, means for the entries of a queue.
LEMMA EntriesOfAppend ==
  ASSUME NEW s \in Seq(Requests), NEW x \in Requests
  PROVE  Entries(Append(s, x)) = Entries(s) \cup {x} /\ Append(s, x) \in Seq(Requests)
<1>1. Len(s) \in Nat /\ DOMAIN s = 1..Len(s) /\ DOMAIN Append(s, x) = 1..(Len(s) + 1)
      /\ Append(s, x)[Len(s) + 1] = x /\ \A i \in 1..Len(s) : Append(s, x)[i] = s[i]
  OBVIOUS
<1>2. Entries(Append(s, x)) \subseteq Entries(s) \cup {x}
  BY <1>1 DEF Entries
<1>3. Entries(s) \cup {x} \subseteq Entries(Append(s, x))
  <2>1. \A i \in DOMAIN s : i \in DOMAIN Append(s, x) /\ Append(s, x)[i] = s[i]
    BY <1>1
  <2>2. Len(s) + 1 \in DOMAIN Append(s, x)
    BY <1>1
  <2> QED BY <1>1, <2>1, <2>2 DEF Entries
<1> QED BY <1>2, <1>3

LEMMA EntriesOfTail ==
  ASSUME NEW s \in Seq(Requests), s # << >>
  PROVE  /\ Entries(Tail(s)) \subseteq Entries(s)
         /\ Head(s) \in Requests /\ Tail(s) \in Seq(Requests)
<1>1. Len(s) \in Nat \ {0} /\ DOMAIN s = 1..Len(s) /\ DOMAIN Tail(s) = 1..(Len(s) - 1)
      /\ \A i \in 1..(Len(s) - 1) : Tail(s)[i] = s[i + 1]
  OBVIOUS
<1>2. \A i \in DOMAIN Tail(s) : i + 1 \in DOMAIN s /\ Tail(s)[i] = s[i + 1]
  BY <1>1
<1> QED BY <1>2 DEF Entries

\* The two modules of queues use different words for the same set.
LEMMA ElementsAreEntries == \A s : Elements(s) = Entries(s)
BY DEF Elements, Entries

LEMMA NoEntries == Entries(<< >>) = {}
BY DEF Entries

-----------------------------------------------------------------------------
(* The invariant *)

\* A charge is in one place, and the handler of an ended process has left none
\* in the memory of the one that runs now.
ChargeOf(r) ==
  /\ booked[r] <= 1
  /\ at[r] = "over" => Times(r, tokenStatsCh) = 0 /\ inHand # r
  /\ at[r] # "over" =>
       One(HoldsCharge(r)) + Times(r, tokenStatsCh) + One(inHand = r)
         + One(r \in droppedCharges) + One(booked[r] = 1 \/ r \in failedCharges) = 1

\* The same of a log entry.
LogOf(r) ==
  IF at[r] = "over"
  THEN (r \notin doubtful => stored[r] <= 1) /\ Times(r, logChan) = 0 /\ Times(r, batch) = 0
  ELSE r \notin doubtful =>
         One(HoldsEntry(r)) + Times(r, logChan) + Times(r, batch) + stored[r]
           + One(r \in droppedLogs) + One(r \in failedLogs) + One(r \in skippedLogs) = 1

\* Every row there will be of a request is already in the channel's cost.
CostOf(r) ==
  Up /\ costLoaded /\ r \notin doubtful =>
    stored[r] + Times(r, logChan) + Times(r, batch) + One(at[r] = "logSend") <= costCache[r]

\* How far the shutdown has come says what may still be in the queues.
StopInv ==
  /\ clean => phase \in {"finishing", "closed"} /\ chargeWorker = "ended" /\ logWorker = "ended"
  /\ chargeWorker # "running" \/ logWorker # "running" => isShuttingDown
  /\ isShuttingDown => \A r \in Requests : at[r] \in {"logSend", "chargeSend"} => r \in racing
  /\ chargeWorker = "ended" => inHand = None /\ Entries(tokenStatsCh) \subseteq racing
  /\ logWorker \in {"last", "ended"} => Entries(logChan) \subseteq racing
  /\ logWorker = "ended" => batch = << >> /\ attempt = 0 /\ ~backoff

\* Between two processes there is nothing but the database.
DownInv ==
  phase = "down" =>
    /\ tokenStatsCh = << >> /\ inHand = None /\ logChan = << >> /\ batch = << >>
    /\ attempt = 0 /\ ~backoff
    /\ \A r \in Requests : at[r] \in {"idle", "over"}

\* A wait is followed by another attempt.
RetryInv == backoff => attempt \in 1..(MaxAttempts - 1)

AInv ==
  /\ TypeOK /\ RetryInv /\ StopInv /\ DownInv
  /\ \A r \in Requests : ChargeOf(r) /\ LogOf(r) /\ CostOf(r)

-----------------------------------------------------------------------------
(* Facts for the steps *)

LEMMA Types ==
  ASSUME TypeOK
  PROVE  /\ phase \in Phases /\ clean \in BOOLEAN /\ at \in [Requests -> Stages]
         /\ tokenStatsCh \in Seq(Requests) /\ chargeWorker \in ChargeWorkerModes
         /\ inHand \in Requests \cup {None} /\ booked \in [Requests -> Nat]
         /\ droppedCharges \in SUBSET Requests /\ failedCharges \in SUBSET Requests
         /\ logChan \in Seq(Requests) /\ batch \in Seq(Requests)
         /\ logWorker \in LogWorkerModes /\ attempt \in 0..MaxAttempts /\ backoff \in BOOLEAN
         /\ stored \in [Requests -> Nat]
         /\ doubtful \in SUBSET Requests /\ droppedLogs \in SUBSET Requests
         /\ failedLogs \in SUBSET Requests /\ skippedLogs \in SUBSET Requests
         /\ costCache \in [Requests -> Nat] /\ costLoaded \in BOOLEAN
         /\ racing \in SUBSET Requests
BY DEF TypeOK, lifeTypeOK, chargeTypeOK, logTypeOK

\* The numbers that the sums are made of.
LEMMA Amounts ==
  ASSUME TypeOK, NEW r \in Requests
  PROVE  /\ Times(r, tokenStatsCh) \in Nat /\ Times(r, logChan) \in Nat /\ Times(r, batch) \in Nat
         /\ booked[r] \in Nat /\ stored[r] \in Nat /\ costCache[r] \in Nat
         /\ at[r] \in Stages
BY Types, TimesIsNat

\* Who has not moved has what he had.
LEMMA HoldsStay ==
  ASSUME NEW r, at'[r] = at[r]
  PROVE  (HoldsCharge(r)' <=> HoldsCharge(r)) /\ (HoldsEntry(r)' <=> HoldsEntry(r))
BY DEF HoldsCharge, HoldsEntry

\* What a step does not touch stays counted as it was.
LEMMA ChargeStays ==
  ASSUME NEW r \in Requests, ChargeOf(r), UNCHANGED chargeVars,
         at'[r] = "over" <=> at[r] = "over", HoldsCharge(r)' <=> HoldsCharge(r)
  PROVE  ChargeOf(r)'
BY DEF ChargeOf, chargeVars, One

LEMMA LogStays ==
  ASSUME NEW r \in Requests, LogOf(r), UNCHANGED logVars,
         at'[r] = "over" <=> at[r] = "over", HoldsEntry(r)' <=> HoldsEntry(r)
  PROVE  LogOf(r)'
BY DEF LogOf, logVars, One

LEMMA CostStays ==
  ASSUME TypeOK, NEW r \in Requests, CostOf(r), UNCHANGED <<logVars, costCache, costLoaded>>,
         Up' => Up, at'[r] = "logSend" => at[r] = "logSend"
  PROVE  CostOf(r)'
BY Amounts DEF CostOf, logVars, One

\* A handler moves by itself.
LEMMA OneGoes ==
  ASSUME TypeOK, NEW r \in Requests, NEW s \in Stages, Goto(r, s)
  PROVE  at' \in [Requests -> Stages] /\ at'[r] = s /\ \A q \in Requests : q # r => at'[q] = at[q]
BY Types DEF Goto

\* The sums, without what the step has to do with.
Counted == \A r \in Requests : ChargeOf(r)' /\ LogOf(r)' /\ CostOf(r)'

-----------------------------------------------------------------------------
(* Handlers *)

LEMMA BeginCounts ==
  ASSUME AInv, NEW r \in Requests, Begin(r) \/ Answered(r),
         UNCHANGED <<chargeVars, logVars, costCache, costLoaded>>
  PROVE  Counted
<1>1. /\ \/ at[r] = "idle" /\ at'[r] = "running"
         \/ at[r] = "running" /\ at'[r] = First(r)
      /\ \A q \in Requests : q # r => at'[q] = at[q]
  BY OneGoes DEF Begin, Answered, First, AInv, Stages
<1>2. ASSUME NEW q \in Requests
      PROVE  /\ at'[q] = "over" <=> at[q] = "over"
             /\ HoldsCharge(q)' <=> HoldsCharge(q)
             /\ HoldsEntry(q)' <=> HoldsEntry(q)
             /\ at'[q] = "logSend" => at[q] = "logSend"
  <2>1. CASE q = r
    BY <1>1, <2>1 DEF HoldsCharge, HoldsEntry, Logging, Charging, First
  <2>2. CASE q # r
    BY <1>1, <2>2, HoldsStay
  <2> QED BY <2>1, <2>2
<1>3. Up' => Up
  BY DEF Begin, Answered, Up
<1> QED BY <1>2, <1>3, ChargeStays, LogStays, CostStays DEF AInv, Counted

\* An entry that the shutdown does not take is counted as skipped.
LEMMA CheckLogCounts ==
  ASSUME AInv, NEW r \in Requests, CheckLog(r), AddCost(r), UNCHANGED <<chargeVars, costLoaded>>
  PROVE  Counted
<1>1. TypeOK /\ at[r] = "log" /\ (\A q \in Requests : q # r => at'[q] = at[q])
      /\ UNCHANGED <<phase, logChan, logWorker, batch, attempt, backoff, stored, doubtful,
                     droppedLogs, failedLogs>>
      /\ \/ at'[r] = AfterLog(r) /\ skippedLogs' = skippedLogs \cup {r}
         \/ at'[r] = "logSend" /\ skippedLogs' = skippedLogs
  BY OneGoes DEF CheckLog, AInv, Stages, AfterLog
<1>2. costCache'[r] = costCache[r] + 1 /\ \A q \in Requests : q # r => costCache'[q] = costCache[q]
  BY <1>1, Types DEF AddCost
<1>3. ASSUME NEW q \in Requests
      PROVE  ChargeOf(q)' /\ LogOf(q)' /\ CostOf(q)'
  <2>1. ChargeOf(q) /\ LogOf(q) /\ CostOf(q)
    BY DEF AInv
  <2>2. CASE q # r
    <3>1. at'[q] = at[q] /\ (HoldsCharge(q)' <=> HoldsCharge(q)) /\ (HoldsEntry(q)' <=> HoldsEntry(q))
      BY <1>1, <2>2, HoldsStay
    <3>2. (q \in skippedLogs)' <=> q \in skippedLogs
      BY <1>1, <2>2
    <3>3. ChargeOf(q)'
      BY <2>1, <3>1, ChargeStays
    <3>4. LogOf(q)'
      BY <1>1, <2>1, <3>1, <3>2 DEF LogOf, One
    <3> QED BY <1>1, <1>2, <2>1, <2>2, <3>1, <3>3, <3>4 DEF CostOf, Up
  <2>3. CASE q = r
    <3>1. HoldsCharge(r)' <=> HoldsCharge(r)
      BY <1>1 DEF HoldsCharge, Logging, Charging, AfterLog
    <3>2. at[r] # "over" /\ at'[r] # "over" /\ HoldsEntry(r)
          /\ (HoldsEntry(r)' <=> at'[r] = "logSend") /\ at'[r] # "log"
      BY <1>1 DEF HoldsEntry, Logging, Charging, AfterLog
    <3>3. ChargeOf(q)'
      BY <2>1, <2>3, <3>1, <3>2, ChargeStays
    <3>4. LogOf(q)'
      <4>1. \/ ~HoldsEntry(r)' /\ skippedLogs' = skippedLogs \cup {r}
            \/ HoldsEntry(r)' /\ skippedLogs' = skippedLogs
        BY <1>1, <3>2 DEF AfterLog
      <4> QED BY <1>1, <2>1, <2>3, <3>2, <4>1, Amounts DEF LogOf, One
    <3>5. CostOf(q)'
      BY <1>1, <1>2, <2>1, <2>3, Amounts DEF CostOf, Up, One
    <3> QED BY <3>3, <3>4, <3>5
  <2> QED BY <2>2, <2>3
<1> QED BY <1>3 DEF Counted

LEMMA SendLogCounts ==
  ASSUME AInv, NEW r \in Requests, SendLog(r), UNCHANGED <<chargeVars, costCache, costLoaded>>
  PROVE  Counted
<1>1. TypeOK /\ at[r] = "logSend" /\ at'[r] = AfterLog(r)
      /\ (\A q \in Requests : q # r => at'[q] = at[q])
      /\ UNCHANGED <<phase, logWorker, batch, attempt, backoff, stored, doubtful,
                     failedLogs, skippedLogs>>
      /\ \/ logChan' = Append(logChan, r) /\ droppedLogs' = droppedLogs
         \/ logChan' = logChan /\ droppedLogs' = droppedLogs \cup {r}
  BY OneGoes DEF SendLog, AInv, Stages, AfterLog
<1>2. /\ Times(r, Append(logChan, r)) = Times(r, logChan) + 1
      /\ \A q : q # r => Times(q, Append(logChan, r)) = Times(q, logChan)
  BY <1>1, Types, AppendCounts
<1>3. /\ HoldsCharge(r)' <=> HoldsCharge(r)
      /\ HoldsEntry(r) /\ ~HoldsEntry(r)'
      /\ at'[r] # "over" /\ at'[r] # "logSend"
  BY <1>1 DEF HoldsCharge, HoldsEntry, Logging, Charging, AfterLog
<1>4. ASSUME NEW q \in Requests
      PROVE  ChargeOf(q)' /\ LogOf(q)' /\ CostOf(q)'
  <2>1. ChargeOf(q) /\ LogOf(q) /\ CostOf(q)
    BY DEF AInv
  <2>2. CASE q # r
    <3>1. Times(q, logChan') = Times(q, logChan)
      BY <1>1, <1>2, <2>2
    <3>2. q \in droppedLogs' <=> q \in droppedLogs
      BY <1>1, <2>2
    <3>3. at'[q] = at[q] /\ (HoldsCharge(q)' <=> HoldsCharge(q)) /\ (HoldsEntry(q)' <=> HoldsEntry(q))
      BY <1>1, <2>2, HoldsStay
    <3>4. ChargeOf(q)'
      BY <2>1, <3>3, ChargeStays
    <3> QED BY <1>1, <2>1, <3>1, <3>2, <3>3, <3>4 DEF LogOf, CostOf, Up, One
  <2>3. CASE q = r
    <3>1. ChargeOf(q)'
      BY <1>1, <1>3, <2>1, <2>3, ChargeStays
    <3>2. \/ Times(q, logChan') = Times(q, logChan) + 1 /\ droppedLogs' = droppedLogs
          \/ Times(q, logChan') = Times(q, logChan) /\ droppedLogs' = droppedLogs \cup {q}
      BY <1>1, <1>2, <2>3
    <3>3. LogOf(q)'
      <4> SUFFICES ASSUME q \notin doubtful
                   PROVE  LogOf(q)'
        BY <1>1, <1>3, <2>3 DEF LogOf
      <4>1. HoldsEntry(q) /\ ~HoldsEntry(q)'
        BY <1>1, <2>3 DEF HoldsEntry, Logging, Charging, AfterLog
      <4>2. Times(q, logChan) = 0 /\ Times(q, batch) = 0 /\ stored[q] = 0
            /\ q \notin droppedLogs /\ q \notin failedLogs /\ q \notin skippedLogs
        <5>1. 1 + Times(q, logChan) + Times(q, batch) + stored[q]
                + One(q \in droppedLogs) + One(q \in failedLogs) + One(q \in skippedLogs) = 1
          BY <1>1, <2>1, <2>3, <4>1 DEF LogOf, One
        <5>2. Times(q, logChan) \in Nat /\ Times(q, batch) \in Nat /\ stored[q] \in Nat
          BY <1>1, Amounts
        <5> QED BY <5>1, <5>2 DEF One
      <4>3. Times(q, batch') = 0 /\ stored'[q] = 0 /\ q \notin failedLogs' /\ q \notin skippedLogs'
        BY <1>1, <4>2
      <4>4. \/ Times(q, logChan') = 1 /\ q \notin droppedLogs'
            \/ Times(q, logChan') = 0 /\ q \in droppedLogs'
        BY <3>2, <4>2
      <4> QED BY <1>3, <2>3, <4>1, <4>3, <4>4 DEF LogOf, One
    <3>4. CostOf(q)'
      <4> SUFFICES ASSUME Up, costLoaded, q \notin doubtful
                   PROVE  stored[q] + Times(q, logChan') + Times(q, batch)
                            + One(at'[q] = "logSend") =< costCache[q]
        BY <1>1 DEF CostOf, Up
      <4>1. stored[q] + Times(q, logChan) + Times(q, batch) + One(at[q] = "logSend") =< costCache[q]
        BY <2>1 DEF CostOf
      <4>2. One(at[q] = "logSend") = 1 /\ One(at'[q] = "logSend") = 0
        BY <1>1, <1>3, <2>3 DEF One
      <4>3. stored[q] \in Nat /\ costCache[q] \in Nat
            /\ Times(q, logChan) \in Nat /\ Times(q, batch) \in Nat
        BY <1>1, Amounts
      <4>4. Times(q, logChan') = Times(q, logChan) + 1 \/ Times(q, logChan') = Times(q, logChan)
        BY <3>2
      <4> QED BY <4>1, <4>2, <4>3, <4>4
    <3> QED BY <3>1, <3>3, <3>4
  <2> QED BY <2>2, <2>3
<1> QED BY <1>4 DEF Counted

\* What applying the charge of a request may do to the ledger and the reports.
Applied(r) ==
  /\ booked'[r] = booked[r] + 1 \/ (booked'[r] = booked[r] /\ r \in failedCharges')
  /\ \A q \in Requests : q # r => booked'[q] = booked[q] /\ (q \in failedCharges' <=> q \in failedCharges)

LEMMA ApplyApplies ==
  ASSUME TypeOK, NEW r \in Requests, Apply(r)
  PROVE  Applied(r)
<1>1. booked \in [Requests -> Nat]
  BY Types
<1>2. /\ \/ booked' = [booked EXCEPT ![r] = @ + 1]
         \/ booked' = booked /\ failedCharges' = failedCharges \cup {r}
      /\ failedCharges' = failedCharges \/ failedCharges' = failedCharges \cup {r}
  BY DEF Apply, Book
<1> QED BY <1>1, <1>2 DEF Applied

\* A handler has exactly one charge until it gives it away.
LEMMA ChargeHandlerCounts ==
  ASSUME AInv, NEW r \in Requests, ChargeHandlerStep(r), UNCHANGED <<logVars, costCache, costLoaded>>
  PROVE  Counted
<1>1. TypeOK /\ phase' = phase
      /\ at[r] \in Charging
      /\ at'[r] \in {"chargeSend", "chargeSync", AfterCharge(r)}
      /\ \A q \in Requests : q # r => at'[q] = at[q]
  BY OneGoes DEF ChargeHandlerStep, CheckCharge, SendCharge, DropCharge, BookNow, AInv, Stages,
       Charging, AfterCharge
<1>2. ASSUME NEW q \in Requests
      PROVE  LogOf(q)' /\ CostOf(q)'
  <2>1. CASE q = r
    <3>1. /\ at'[q] = "over" <=> at[q] = "over"
          /\ HoldsEntry(q)' <=> HoldsEntry(q)
          /\ at'[q] # "logSend"
      BY <1>1, <2>1 DEF HoldsEntry, Logging, Charging, AfterCharge
    <3> QED BY <1>1, <3>1, LogStays, CostStays DEF AInv, Up
  <2>2. CASE q # r
    <3>1. at'[q] = at[q] /\ (HoldsEntry(q)' <=> HoldsEntry(q))
      BY <1>1, <2>2, HoldsStay
    <3> QED BY <1>1, <3>1, LogStays, CostStays DEF AInv, Up
  <2> QED BY <2>1, <2>2
<1>3. \/ at'[r] \in Charging /\ UNCHANGED chargeVars
      \/ /\ at'[r] = AfterCharge(r) /\ inHand' = inHand
         /\ \/ /\ tokenStatsCh' = Append(tokenStatsCh, r)
               /\ UNCHANGED <<booked, droppedCharges, failedCharges>>
            \/ /\ droppedCharges' = droppedCharges \cup {r}
               /\ UNCHANGED <<tokenStatsCh, booked, failedCharges>>
            \/ Applied(r) /\ UNCHANGED <<tokenStatsCh, droppedCharges>>
  <2>1. CASE CheckCharge(r)
    <3>1. at'[r] \in Charging
      BY <1>1, <2>1, OneGoes DEF CheckCharge, Stages, Charging
    <3> QED BY <2>1, <3>1 DEF CheckCharge
  <2>2. CASE SendCharge(r) \/ DropCharge(r) \/ BookNow(r)
    <3>1. at'[r] = AfterCharge(r)
      BY <1>1, <2>2, OneGoes DEF SendCharge, DropCharge, BookNow, Stages, AfterCharge
    <3> QED BY <1>1, <2>2, <3>1, ApplyApplies DEF SendCharge, DropCharge, BookNow
  <2> QED BY <2>1, <2>2 DEF ChargeHandlerStep
<1>4. /\ Times(r, Append(tokenStatsCh, r)) = Times(r, tokenStatsCh) + 1
      /\ \A q : q # r => Times(q, Append(tokenStatsCh, r)) = Times(q, tokenStatsCh)
  BY <1>1, Types, AppendCounts
<1>5. booked \in [Requests -> Nat] /\ \A q \in Requests : Times(q, tokenStatsCh) \in Nat
  BY <1>1, Types, Amounts
<1>6. ASSUME NEW q \in Requests, q # r
      PROVE  ChargeOf(q)'
  <2>1. ChargeOf(q)
    BY DEF AInv
  <2>2. Times(q, tokenStatsCh') = Times(q, tokenStatsCh)
    BY <1>3, <1>4, <1>6 DEF chargeVars
  <2>3. booked'[q] = booked[q] /\ inHand' = inHand
        /\ (q \in droppedCharges' <=> q \in droppedCharges)
        /\ (q \in failedCharges' <=> q \in failedCharges)
    BY <1>3, <1>6 DEF chargeVars, Applied
  <2>4. at'[q] = at[q] /\ (HoldsCharge(q)' <=> HoldsCharge(q))
    BY <1>1, <1>6, HoldsStay
  <2> QED BY <2>1, <2>2, <2>3, <2>4 DEF ChargeOf, One
<1>7. ChargeOf(r)'
  <2>1. ChargeOf(r)
    BY DEF AInv
  <2>2. CASE at'[r] \in Charging /\ UNCHANGED chargeVars
    <3>1. (HoldsCharge(r)' <=> HoldsCharge(r)) /\ at'[r] # "over" /\ at[r] # "over"
      BY <1>1, <2>2 DEF HoldsCharge, Charging
    <3> QED BY <2>1, <2>2, <3>1, ChargeStays
  <2>3. CASE at'[r] = AfterCharge(r) /\ inHand' = inHand
    <3>1. HoldsCharge(r) /\ ~HoldsCharge(r)' /\ at[r] # "over" /\ at'[r] # "over"
      BY <1>1, <2>3 DEF HoldsCharge, Charging, Logging, AfterCharge
    <3>2. Times(r, tokenStatsCh) = 0 /\ inHand # r /\ booked[r] = 0
          /\ r \notin droppedCharges /\ r \notin failedCharges
      BY <1>1, <2>1, <3>1, Amounts DEF ChargeOf, One
    <3>3. CASE tokenStatsCh' = Append(tokenStatsCh, r)
               /\ UNCHANGED <<booked, droppedCharges, failedCharges>>
      <4>1. Times(r, tokenStatsCh') = 1
        BY <1>4, <3>2, <3>3
      <4> QED BY <2>3, <3>1, <3>2, <3>3, <4>1 DEF ChargeOf, One
    <3>4. CASE /\ droppedCharges' = droppedCharges \cup {r}
               /\ UNCHANGED <<tokenStatsCh, booked, failedCharges>>
      BY <2>3, <3>1, <3>2, <3>4 DEF ChargeOf, One
    <3>5. CASE Applied(r) /\ UNCHANGED <<tokenStatsCh, droppedCharges>>
      BY <2>3, <3>1, <3>2, <3>5 DEF ChargeOf, One, Applied
    <3>6. at'[r] \notin Charging
      BY <2>3 DEF AfterCharge, Charging
    <3> QED BY <1>3, <3>3, <3>4, <3>5, <3>6
  <2> QED BY <1>3, <2>2, <2>3
<1> QED BY <1>2, <1>6, <1>7 DEF Counted

-----------------------------------------------------------------------------
(* The workers *)

\* Nothing that the log has to do with changes with the charge worker.
LEMMA LogUntouched ==
  ASSUME AInv, UNCHANGED <<at, logVars, costCache, costLoaded>>, Up' => Up
  PROVE  \A r \in Requests : LogOf(r)' /\ CostOf(r)'
<1> SUFFICES ASSUME NEW r \in Requests
             PROVE  LogOf(r)' /\ CostOf(r)'
  OBVIOUS
<1>1. LogOf(r) /\ CostOf(r) /\ TypeOK
  BY DEF AInv
<1> QED BY <1>1, HoldsStay, LogStays, CostStays

LEMMA ChargeUntouched ==
  ASSUME AInv, UNCHANGED <<at, chargeVars>>
  PROVE  \A r \in Requests : ChargeOf(r)'
BY HoldsStay, ChargeStays DEF AInv

LEMMA ChargeWorkerCounts ==
  ASSUME AInv, ChargeWorkerStep, UNCHANGED <<logVars, costCache, costLoaded>>
  PROVE  Counted
<1>1. TypeOK /\ UNCHANGED <<phase, at>>
  BY DEF AInv, ChargeWorkerStep, TakeCharge, BookCharge, StartDraining, EndDraining, lifeVars
<1>2. \A r \in Requests : LogOf(r)' /\ CostOf(r)'
  BY <1>1, LogUntouched DEF Up
<1>3. tokenStatsCh \in Seq(Requests) /\ inHand \in Requests \cup {None} /\ None \notin Requests
      /\ booked \in [Requests -> Nat]
  BY <1>1, Types, ChargeAssumption
<1>4. ASSUME NEW r \in Requests
      PROVE  ChargeOf(r)'
  <2>1. ChargeOf(r) /\ at'[r] = at[r] /\ (HoldsCharge(r)' <=> HoldsCharge(r))
    BY <1>1, HoldsStay DEF AInv
  <2>2. Times(r, tokenStatsCh) \in Nat /\ booked[r] \in Nat
    BY <1>1, Amounts
  <2>3. CASE StartDraining \/ EndDraining
    BY <2>1, <2>3 DEF ChargeOf, StartDraining, EndDraining, One
  <2>4. CASE TakeCharge
    <3>1. inHand = None /\ inHand' = Head(tokenStatsCh) /\ tokenStatsCh' = Tail(tokenStatsCh)
          /\ tokenStatsCh # << >> /\ UNCHANGED <<booked, droppedCharges, failedCharges>>
      BY <2>4 DEF TakeCharge
    <3>2. Tail(tokenStatsCh) \in Seq(Requests) /\ Times(r, tokenStatsCh') \in Nat
      BY <1>3, <3>1, EntriesOfTail, TimesIsNat
    <3>3. CASE r = inHand'
      <4>1. Times(r, tokenStatsCh) = Times(r, tokenStatsCh') + 1
        BY <1>3, <3>1, <3>3, TailCounts
      <4>2. inHand # r
        BY <1>3, <3>1
      <4>3. at[r] # "over"
        BY <2>1, <3>2, <4>1 DEF ChargeOf
      <4> QED BY <2>1, <2>2, <3>1, <3>2, <3>3, <4>1, <4>2, <4>3 DEF ChargeOf, One
    <3>4. CASE r # inHand'
      <4>1. Times(r, tokenStatsCh') = Times(r, tokenStatsCh)
        BY <1>3, <3>1, <3>4, TailCounts
      <4>2. inHand # r /\ inHand' # r
        BY <1>3, <3>1, <3>4
      <4> QED BY <2>1, <3>1, <4>1, <4>2 DEF ChargeOf, One
    <3> QED BY <3>3, <3>4
  <2>5. CASE BookCharge
    <3>1. inHand \in Requests /\ inHand' = None /\ UNCHANGED <<tokenStatsCh, droppedCharges>>
          /\ Applied(inHand)
      BY <1>1, <1>3, <2>5, ApplyApplies DEF BookCharge
    <3>2. inHand' # r
      BY <1>3, <3>1
    <3>3. CASE r = inHand
      <4>1. at[r] # "over"
        BY <2>1, <3>3 DEF ChargeOf
      <4>2. ~HoldsCharge(r) /\ Times(r, tokenStatsCh) = 0 /\ booked[r] = 0
            /\ r \notin droppedCharges /\ r \notin failedCharges
        BY <2>1, <2>2, <3>3, <4>1 DEF ChargeOf, One
      <4> QED BY <2>1, <3>1, <3>2, <3>3, <4>1, <4>2 DEF ChargeOf, One, Applied
    <3>4. CASE r # inHand
      <4>1. booked'[r] = booked[r] /\ (r \in failedCharges' <=> r \in failedCharges)
        BY <3>1, <3>4 DEF Applied
      <4> QED BY <2>1, <3>1, <3>2, <3>4, <4>1 DEF ChargeOf, One
    <3> QED BY <3>3, <3>4
  <2> QED BY <2>3, <2>4, <2>5 DEF ChargeWorkerStep
<1> QED BY <1>2, <1>4 DEF Counted

\* The log worker takes an entry from the channel into its batch.
LEMMA TakeLogCounts ==
  ASSUME AInv, TakeLog, UNCHANGED <<costCache, costLoaded>>
  PROVE  \A r \in Requests : LogOf(r)' /\ CostOf(r)'
<1> PICK h : h = Head(logChan)
  OBVIOUS
<1>1. TypeOK /\ logChan \in Seq(Requests) /\ batch \in Seq(Requests) /\ logChan # << >>
      /\ logChan' = Tail(logChan) /\ batch' = Append(batch, h)
      /\ UNCHANGED <<phase, at, stored, doubtful, droppedLogs, failedLogs, skippedLogs>>
  BY Types DEF AInv, TakeLog, lifeVars
<1>2. h \in Requests /\ Tail(logChan) \in Seq(Requests)
  BY <1>1, EntriesOfTail
<1>3. Times(h, logChan) = Times(h, logChan') + 1 /\ Times(h, batch') = Times(h, batch) + 1
  BY <1>1, <1>2, TailCounts, AppendCounts
<1>4. \A r : r # h => Times(r, logChan') = Times(r, logChan) /\ Times(r, batch') = Times(r, batch)
  BY <1>1, <1>2, TailCounts, AppendCounts
<1>5. ASSUME NEW r \in Requests
      PROVE  LogOf(r)' /\ CostOf(r)'
  <2>1. LogOf(r) /\ CostOf(r) /\ (HoldsEntry(r)' <=> HoldsEntry(r))
    BY <1>1, HoldsStay DEF AInv
  <2>2. Times(r, logChan) \in Nat /\ Times(r, batch) \in Nat /\ Times(r, logChan') \in Nat
        /\ stored[r] \in Nat /\ costCache[r] \in Nat
    BY <1>1, <1>2, Amounts, TimesIsNat
  <2>3. CASE r # h
    <3>1. Times(r, logChan') = Times(r, logChan) /\ Times(r, batch') = Times(r, batch)
      BY <1>4, <2>3
    <3> QED BY <1>1, <2>1, <3>1 DEF LogOf, CostOf, Up, One
  <2>4. CASE r = h
    <3>1. Times(r, logChan) = Times(r, logChan') + 1 /\ Times(r, batch') = Times(r, batch) + 1
      BY <1>3, <2>4
    <3>2. at[r] # "over"
      BY <2>1, <2>2, <3>1 DEF LogOf
    <3>3. Times(r, logChan') + Times(r, batch') = Times(r, logChan) + Times(r, batch)
      BY <2>2, <3>1
    <3>4. LogOf(r)'
      <4> SUFFICES ASSUME r \notin doubtful
                   PROVE  LogOf(r)'
        BY <1>1, <3>2 DEF LogOf
      <4>1. One(HoldsEntry(r)) + Times(r, logChan') + Times(r, batch') + stored[r]
              + One(r \in droppedLogs) + One(r \in failedLogs) + One(r \in skippedLogs) = 1
        BY <2>1, <2>2, <3>1, <3>2, <3>3 DEF LogOf, One
      <4> QED BY <1>1, <2>1, <3>2, <4>1 DEF LogOf, One
    <3>5. CostOf(r)'
      <4> SUFFICES ASSUME Up, costLoaded, r \notin doubtful
                   PROVE  stored[r] + Times(r, logChan') + Times(r, batch')
                            + One(at[r] = "logSend") =< costCache[r]
        BY <1>1 DEF CostOf, Up
      <4>1. stored[r] + Times(r, logChan) + Times(r, batch)
              + One(at[r] = "logSend") =< costCache[r]
        BY <2>1 DEF CostOf
      <4>2. One(at[r] = "logSend") \in Nat
        BY DEF One
      <4>3. Times(r, batch') \in Nat
        BY <2>2, <3>1
      <4> QED BY <2>2, <3>3, <4>1, <4>2, <4>3
    <3> QED BY <3>4, <3>5
  <2> QED BY <2>3, <2>4
<1> QED BY <1>5

\* What a write, or giving up, may do to the batch and the table.
FlushOutcome ==
  /\ UNCHANGED <<phase, at, logChan, droppedLogs, skippedLogs>>
  /\ \/ UNCHANGED <<batch, stored, doubtful, failedLogs>>
     \/ /\ batch' = << >> /\ stored' = Insert
        /\ UNCHANGED <<doubtful, failedLogs>>
     \/ /\ \/ UNCHANGED <<stored, doubtful>>
           \/ stored' = Insert /\ doubtful' = doubtful \cup Entries(batch)
        /\ \/ UNCHANGED <<batch, failedLogs>>
           \/ batch' = << >> /\ failedLogs' = failedLogs \cup Entries(batch)

LEMMA FlushCounts ==
  ASSUME AInv, FlushOutcome, UNCHANGED <<costCache, costLoaded>>
  PROVE  \A r \in Requests : LogOf(r)' /\ CostOf(r)'
<1>1. TypeOK /\ batch \in Seq(Requests)
  BY Types DEF AInv
<1>2. ASSUME NEW r \in Requests
      PROVE  LogOf(r)' /\ CostOf(r)'
  <2>1. LogOf(r) /\ CostOf(r) /\ (HoldsEntry(r)' <=> HoldsEntry(r))
    BY HoldsStay DEF AInv, FlushOutcome
  <2>2. Times(r, logChan) \in Nat /\ Times(r, batch) \in Nat /\ stored[r] \in Nat
        /\ costCache[r] \in Nat
    BY <1>1, Amounts
  <2>3. UNCHANGED <<phase, at, logChan, droppedLogs, skippedLogs>>
    BY DEF FlushOutcome
  <2>4. Insert[r] = stored[r] + One(r \in Entries(batch))
    BY DEF Insert, One
  <2>5. r \in Entries(batch) <=> Times(r, batch) # 0
    BY <1>1, TimesIsNat
  <2>6. Times(r, << >>) = 0
    BY TimesOfNone
\* Of this request: what is in the batch is stored, lost, or stays there.
  <2>7. \/ Times(r, batch') = Times(r, batch) /\ stored'[r] = stored[r]
           /\ (r \in doubtful' <=> r \in doubtful) /\ (r \in failedLogs' <=> r \in failedLogs)
        \/ r \in Entries(batch) /\ Times(r, batch') = 0 /\ stored'[r] = stored[r] + 1
           /\ doubtful' = doubtful /\ failedLogs' = failedLogs
        \/ r \in Entries(batch) /\ Times(r, batch') = 0 /\ stored'[r] = stored[r]
           /\ doubtful' = doubtful /\ r \in failedLogs'
        \/ r \in Entries(batch) /\ r \in doubtful'
    <3>1. CASE r \in Entries(batch)
      BY <2>3, <2>4, <2>6, <3>1 DEF FlushOutcome, One
    <3>2. CASE r \notin Entries(batch)
      <4>1. Times(r, batch) = 0 /\ Insert[r] = stored[r]
        BY <2>2, <2>4, <2>5, <3>2 DEF One
      <4>2. (r \in doubtful' <=> r \in doubtful) /\ (r \in failedLogs' <=> r \in failedLogs)
        BY <3>2 DEF FlushOutcome
      <4>3. stored'[r] = stored[r] /\ Times(r, batch') = Times(r, batch)
        BY <2>6, <4>1 DEF FlushOutcome
      <4> QED BY <4>2, <4>3
    <3> QED BY <3>1, <3>2
  <2>8. CASE Times(r, batch') = Times(r, batch) /\ stored'[r] = stored[r]
             /\ (r \in doubtful' <=> r \in doubtful) /\ (r \in failedLogs' <=> r \in failedLogs)
    BY <2>1, <2>3, <2>8 DEF LogOf, CostOf, Up, One
  <2>9. CASE r \in Entries(batch) /\ r \in doubtful'
    <3>1. at[r] # "over"
      BY <2>1, <2>5, <2>9 DEF LogOf
    <3> QED BY <2>3, <2>9, <3>1 DEF LogOf, CostOf
  <2>10. CASE /\ r \in Entries(batch) /\ Times(r, batch') = 0 /\ doubtful' = doubtful
              /\ \/ stored'[r] = stored[r] + 1 /\ failedLogs' = failedLogs
                 \/ stored'[r] = stored[r] /\ r \in failedLogs'
    <3>1. at[r] # "over"
      BY <2>1, <2>5, <2>10 DEF LogOf
    <3> SUFFICES ASSUME r \notin doubtful
                 PROVE  LogOf(r)' /\ CostOf(r)'
      BY <2>3, <2>10, <3>1 DEF LogOf, CostOf
    <3>2. One(HoldsEntry(r)) + Times(r, logChan) + Times(r, batch) + stored[r]
            + One(r \in droppedLogs) + One(r \in failedLogs) + One(r \in skippedLogs) = 1
      BY <2>1, <3>1 DEF LogOf
    <3>3. Times(r, batch) >= 1
      BY <2>2, <2>5, <2>10
    <3>4. One(HoldsEntry(r)) = 0 /\ Times(r, logChan) = 0 /\ Times(r, batch) = 1
          /\ stored[r] = 0 /\ r \notin droppedLogs /\ r \notin failedLogs /\ r \notin skippedLogs
      BY <2>2, <3>2, <3>3 DEF One
    <3>5. \/ stored'[r] = 1 /\ r \notin failedLogs'
          \/ stored'[r] = 0 /\ r \in failedLogs'
      BY <2>10, <3>4
    <3>6. LogOf(r)'
      BY <2>1, <2>3, <2>10, <3>1, <3>4, <3>5 DEF LogOf, One
    <3>7. CostOf(r)'
      BY <2>1, <2>2, <2>3, <2>10, <3>4, <3>5 DEF CostOf, One, Up
    <3> QED BY <3>6, <3>7
  <2> QED BY <2>7, <2>8, <2>9, <2>10
<1> QED BY <1>2

LEMMA LogWorkerCounts ==
  ASSUME AInv, LogWorkerStep, UNCHANGED <<chargeVars, costCache, costLoaded>>
  PROVE  Counted
<1>1. at' = at
  BY DEF LogWorkerStep, TakeLog, TickerFlush, StartLogDrain, LogsDrained, FlushOk, FlushFails,
         FlushRetry, BackoffCut, lifeVars
<1>2. \A r \in Requests : ChargeOf(r)'
  BY <1>1, ChargeUntouched
<1>3. CASE TakeLog
  BY <1>2, <1>3, TakeLogCounts DEF Counted
<1>4. CASE ~TakeLog
  <2>1. FlushOutcome
    BY <1>4 DEF LogWorkerStep, TickerFlush, StartLogDrain, LogsDrained, FlushOk, FlushFails,
         FlushRetry, BackoffCut, lifeVars, FlushOutcome, FlushEnds, GiveUp, WriteFails
  <2> QED BY <1>2, <2>1, FlushCounts DEF Counted
<1> QED BY <1>3, <1>4

-----------------------------------------------------------------------------
(* The process *)

\* While main goes on, the handlers and the queues are left alone.
LEMMA ProcessCounts ==
  ASSUME AInv, UNCHANGED <<at, chargeVars, logVars, costCache, costLoaded>>, Up' => Up
  PROVE  Counted
BY LogUntouched, ChargeUntouched DEF Counted

\* Of what a process leaves, each request has at most one charge and one row.
LEMMA EndCounts ==
  ASSUME AInv, End
  PROVE  Counted
<1>1. TypeOK /\ at' = [r \in Requests |-> IF at[r] = "idle" THEN "idle" ELSE "over"]
      /\ phase' = "down" /\ booked' = booked /\ stored' = stored /\ doubtful' = doubtful
      /\ tokenStatsCh' = << >> /\ logChan' = << >> /\ batch' = << >> /\ inHand' = None
      /\ droppedCharges' = {} /\ failedCharges' = {}
      /\ droppedLogs' = {} /\ failedLogs' = {} /\ skippedLogs' = {}
  BY DEF AInv, End, Exit, Crash, Stop, ForgetCharges, ForgetLogs
<1>2. ASSUME NEW r \in Requests
      PROVE  ChargeOf(r)' /\ LogOf(r)' /\ CostOf(r)'
  <2>1. ChargeOf(r) /\ LogOf(r)
    BY DEF AInv
  <2>2. Times(r, tokenStatsCh') = 0 /\ Times(r, logChan') = 0 /\ Times(r, batch') = 0
        /\ inHand' # r
    BY <1>1, TimesOfNone, ChargeAssumption
  <2>3. CostOf(r)'
    BY <1>1 DEF CostOf, Up
  <2>4. booked[r] <= 1 /\ (r \notin doubtful => stored[r] <= 1)
    <3>1. CASE at[r] = "over"
      BY <2>1, <3>1 DEF ChargeOf, LogOf
    <3>2. CASE at[r] # "over"
      <4>1. booked[r] <= 1
        BY <2>1 DEF ChargeOf
      <4>2. r \notin doubtful =>
              One(HoldsEntry(r)) + Times(r, logChan) + Times(r, batch) + stored[r]
                + One(r \in droppedLogs) + One(r \in failedLogs) + One(r \in skippedLogs) = 1
        BY <2>1, <3>2 DEF LogOf
      <4>3. ASSUME r \notin doubtful PROVE stored[r] <= 1
        <5>1. /\ {One(HoldsEntry(r)), One(r \in droppedLogs), One(r \in failedLogs),
                   One(r \in skippedLogs)} \subseteq Nat
              /\ Times(r, logChan) \in Nat /\ Times(r, batch) \in Nat /\ stored[r] \in Nat
          BY <1>1, Amounts DEF One
        <5> QED BY <4>2, <4>3, <5>1
      <4> QED BY <4>1, <4>3
    <3> QED BY <3>1, <3>2
  <2>5. CASE at[r] # "idle"
    <3>1. at'[r] = "over"
      BY <1>1, <2>5
    <3> QED BY <1>1, <2>2, <2>3, <2>4, <3>1 DEF ChargeOf, LogOf
  <2>6. CASE at[r] = "idle"
    <3>1. at'[r] = "idle"
      BY <1>1, <2>6
    <3>2. HoldsCharge(r) /\ HoldsEntry(r) /\ HoldsCharge(r)' /\ HoldsEntry(r)'
      BY <2>6, <3>1 DEF HoldsCharge, HoldsEntry
    <3>3. booked[r] = 0
      BY <1>1, <2>1, <2>6, <3>2, Amounts DEF ChargeOf, One
    <3>4. r \notin doubtful => stored[r] = 0
      <4>1. r \notin doubtful =>
              1 + Times(r, logChan) + Times(r, batch) + stored[r]
                + One(r \in droppedLogs) + One(r \in failedLogs) + One(r \in skippedLogs) = 1
        BY <2>1, <2>6, <3>2 DEF LogOf, One
      <4> QED BY <1>1, <4>1, Amounts DEF One
    <3>5. ChargeOf(r)'
      BY <1>1, <2>2, <3>1, <3>2, <3>3 DEF ChargeOf, One
    <3>6. LogOf(r)'
      BY <1>1, <2>2, <3>1, <3>2, <3>4 DEF LogOf, One
    <3> QED BY <2>3, <3>5, <3>6
  <2> QED BY <2>5, <2>6
<1> QED BY <1>2 DEF Counted

\* The sum of today's rows is the cost that a new process starts with.
LEMMA RestartCounts ==
  ASSUME AInv, Restart
  PROVE  Counted
<1>1. TypeOK /\ DownInv /\ phase = "down" /\ at' = at
      /\ UNCHANGED <<chargeVars, logVars>> /\ costLoaded' = (costCache' = stored)
  BY DEF AInv, Restart, Start
<1>2. ASSUME NEW r \in Requests
      PROVE  ChargeOf(r)' /\ LogOf(r)' /\ CostOf(r)'
  <2>1. ChargeOf(r)' /\ LogOf(r)'
    BY <1>1, HoldsStay, ChargeStays, LogStays DEF AInv
  <2>2. Times(r, logChan') = 0 /\ Times(r, batch') = 0 /\ One(at'[r] = "logSend") = 0
    BY <1>1, TimesOfNone DEF DownInv, logVars, One
  <2>3. stored' = stored /\ stored[r] \in Nat
    BY <1>1, Amounts DEF logVars
  <2>4. CostOf(r)'
    <3> SUFFICES ASSUME costLoaded'
                 PROVE  stored'[r] + Times(r, logChan') + Times(r, batch')
                          + One(at'[r] = "logSend") <= costCache'[r]
      BY DEF CostOf
    <3>1. costCache'[r] = stored[r]
      BY <1>1
    <3> QED BY <2>2, <2>3, <3>1
  <2> QED BY <2>1, <2>4
<1> QED BY <1>2 DEF Counted

-----------------------------------------------------------------------------
(* The rest of the invariant *)

Placed == TypeOK' /\ RetryInv' /\ StopInv' /\ DownInv'

\* Handlers only go on in a process.
LEMMA BeginPlaced ==
  ASSUME AInv, NEW r \in Requests, Begin(r) \/ Answered(r),
         UNCHANGED <<chargeVars, logVars, costCache, costLoaded, racing>>
  PROVE  Placed
<1>1. TypeOK /\ RetryInv /\ StopInv
  BY DEF AInv
<1>2. at'[r] \in {"running", "log", "charge"} /\ at' \in [Requests -> Stages]
      /\ (\A q \in Requests : q # r => at'[q] = at[q]) /\ UNCHANGED <<phase, clean>>
      /\ phase # "down"
  BY <1>1, OneGoes DEF Begin, Answered, Stages, Up, First
<1>3. TypeOK'
  BY <1>1, <1>2 DEF TypeOK, lifeTypeOK, chargeTypeOK, logTypeOK, chargeVars, logVars
<1>4. StopInv'
  BY <1>1, <1>2 DEF StopInv, chargeVars, logVars, isShuttingDown
<1>5. RetryInv' /\ DownInv'
  BY <1>1, <1>2 DEF RetryInv, DownInv, logVars
<1> QED BY <1>3, <1>4, <1>5 DEF Placed

\* What is sent after the flag is set is of a handler that raced with it.
LEMMA LogHandlerPlaced ==
  ASSUME AInv, NEW r \in Requests, UNCHANGED <<chargeVars, costLoaded, racing>>,
         (CheckLog(r) /\ AddCost(r)) \/ (SendLog(r) /\ UNCHANGED costCache)
  PROVE  Placed
<1>1. TypeOK /\ RetryInv /\ StopInv /\ logChan \in Seq(Requests)
  BY Types DEF AInv
<1>2. /\ at'[r] \in {"charge", "returned", "logSend"} /\ at' \in [Requests -> Stages]
      /\ (\A q \in Requests : q # r => at'[q] = at[q])
      /\ UNCHANGED <<phase, clean, logWorker, batch, attempt, backoff, stored, doubtful, failedLogs>>
      /\ phase # "down"
      /\ at'[r] = "logSend" => ~isShuttingDown
      /\ skippedLogs' \in {skippedLogs, skippedLogs \cup {r}}
      /\ droppedLogs' \in {droppedLogs, droppedLogs \cup {r}}
      /\ logChan' = logChan \/ (at[r] = "logSend" /\ logChan' = Append(logChan, r))
  <2>1. CASE CheckLog(r)
    <3>1. CASE isShuttingDown
      BY <1>1, <2>1, <3>1, OneGoes DEF CheckLog, Stages, Up, AfterLog
    <3>2. CASE ~isShuttingDown
      BY <1>1, <2>1, <3>2, OneGoes DEF CheckLog, Stages, Up
    <3> QED BY <3>1, <3>2
  <2>2. CASE SendLog(r)
    BY <1>1, <2>2, OneGoes DEF SendLog, Stages, Up, AfterLog
  <2> QED BY <2>1, <2>2
<1>3. Entries(Append(logChan, r)) = Entries(logChan) \cup {r} /\ Append(logChan, r) \in Seq(Requests)
  BY <1>1, EntriesOfAppend
<1>4. TypeOK'
  <2>1. logChan' \in Seq(Requests)
    BY <1>1, <1>2, <1>3
  <2>2. skippedLogs' \in SUBSET Requests /\ droppedLogs' \in SUBSET Requests
    BY <1>1, <1>2, Types
  <2>3. costCache' \in [Requests -> Nat]
    <3>1. costCache' = costCache \/ costCache' = [costCache EXCEPT ![r] = @ + 1]
      BY DEF AddCost
    <3>2. costCache \in [Requests -> Nat]
      BY <1>1, Types
    <3> QED BY <3>1, <3>2
  <2> QED BY <1>1, <1>2, <2>1, <2>2, <2>3 DEF TypeOK, lifeTypeOK, chargeTypeOK, logTypeOK, chargeVars
<1>5. StopInv'
  <2>1. logWorker \in {"last", "ended"} => Entries(logChan') \subseteq racing
    BY <1>1, <1>2, <1>3 DEF StopInv
  <2>2. isShuttingDown => \A q \in Requests : at'[q] \in {"logSend", "chargeSend"} => q \in racing
    BY <1>1, <1>2 DEF StopInv
  <2> QED BY <1>1, <1>2, <2>1, <2>2 DEF StopInv, chargeVars, isShuttingDown
<1>6. RetryInv' /\ DownInv'
  BY <1>1, <1>2 DEF RetryInv, DownInv
<1> QED BY <1>4, <1>5, <1>6 DEF Placed

LEMMA ChargeHandlerPlaced ==
  ASSUME AInv, NEW r \in Requests, ChargeHandlerStep(r),
         UNCHANGED <<logVars, costCache, costLoaded, racing>>
  PROVE  Placed
<1>1. TypeOK /\ RetryInv /\ StopInv /\ tokenStatsCh \in Seq(Requests) /\ booked \in [Requests -> Nat]
  BY Types DEF AInv
<1>2. /\ at'[r] \in {"chargeSend", "chargeSync", "log", "returned"} /\ at' \in [Requests -> Stages]
      /\ (\A q \in Requests : q # r => at'[q] = at[q])
      /\ UNCHANGED <<phase, clean, chargeWorker, inHand>>
      /\ phase # "down"
      /\ at'[r] = "chargeSend" => ~isShuttingDown
      /\ droppedCharges' \in {droppedCharges, droppedCharges \cup {r}}
      /\ failedCharges' \in {failedCharges, failedCharges \cup {r}}
      /\ booked' \in {booked, [booked EXCEPT ![r] = @ + 1]}
      /\ tokenStatsCh' = tokenStatsCh
           \/ (at[r] = "chargeSend" /\ tokenStatsCh' = Append(tokenStatsCh, r))
  <2>1. CASE CheckCharge(r)
    <3>1. CASE isShuttingDown
      BY <1>1, <2>1, <3>1, OneGoes DEF CheckCharge, Stages, Up, chargeVars
    <3>2. CASE ~isShuttingDown
      BY <1>1, <2>1, <3>2, OneGoes DEF CheckCharge, Stages, Up, chargeVars
    <3> QED BY <3>1, <3>2
  <2>2. CASE SendCharge(r)
    BY <1>1, <2>2, OneGoes DEF SendCharge, Stages, Up, AfterCharge
  <2>3. CASE DropCharge(r)
    BY <1>1, <2>3, OneGoes DEF DropCharge, Stages, Up, AfterCharge
  <2>4. CASE BookNow(r)
    BY <1>1, <2>4, OneGoes DEF BookNow, Apply, Book, Stages, Up, AfterCharge
  <2> QED BY <2>1, <2>2, <2>3, <2>4 DEF ChargeHandlerStep
<1>3. Entries(Append(tokenStatsCh, r)) = Entries(tokenStatsCh) \cup {r}
      /\ Append(tokenStatsCh, r) \in Seq(Requests)
  BY <1>1, EntriesOfAppend
<1>4. TypeOK'
  <2>1. booked' \in [Requests -> Nat]
    BY <1>1, <1>2
  <2> QED BY <1>1, <1>2, <1>3, <2>1 DEF TypeOK, lifeTypeOK, chargeTypeOK, logTypeOK, logVars
<1>5. StopInv'
  <2>1. chargeWorker = "ended" => Entries(tokenStatsCh') \subseteq racing
    BY <1>1, <1>2, <1>3 DEF StopInv
  <2>2. isShuttingDown => \A q \in Requests : at'[q] \in {"logSend", "chargeSend"} => q \in racing
    BY <1>1, <1>2 DEF StopInv
  <2> QED BY <1>1, <1>2, <2>1, <2>2 DEF StopInv, logVars, isShuttingDown
<1>6. RetryInv' /\ DownInv'
  BY <1>1, <1>2 DEF RetryInv, DownInv, logVars
<1> QED BY <1>4, <1>5, <1>6 DEF Placed

LEMMA ChargeWorkerPlaced ==
  ASSUME AInv, ChargeWorkerStep, UNCHANGED <<logVars, costCache, costLoaded, racing>>
  PROVE  Placed
<1>1. TypeOK /\ RetryInv /\ StopInv /\ tokenStatsCh \in Seq(Requests) /\ booked \in [Requests -> Nat]
      /\ inHand \in Requests \cup {None} /\ chargeWorker \in ChargeWorkerModes
      /\ failedCharges \in SUBSET Requests
  BY Types DEF AInv
<1>2. /\ UNCHANGED <<phase, clean, at>> /\ Up /\ droppedCharges' = droppedCharges
      /\ phase # "down"
  BY DEF ChargeWorkerStep, TakeCharge, BookCharge, StartDraining, EndDraining, lifeVars, Up
<1>3. /\ tokenStatsCh' \in Seq(Requests) /\ booked' \in [Requests -> Nat]
      /\ inHand' \in Requests \cup {None} /\ chargeWorker' \in ChargeWorkerModes
      /\ failedCharges' \in SUBSET Requests
      /\ chargeWorker' = "ended" =>
           chargeWorker = "ended" \/ chargeWorker = "draining"
      /\ chargeWorker' = "ended" => inHand' = None /\ Entries(tokenStatsCh') \subseteq racing
      /\ chargeWorker' # "running" => isShuttingDown
      /\ chargeWorker = "ended" => chargeWorker' = "ended"
  <2>1. CASE TakeCharge
    <3>1. Head(tokenStatsCh) \in Requests /\ Tail(tokenStatsCh) \in Seq(Requests)
      BY <1>1, <2>1, EntriesOfTail DEF TakeCharge
    <3> QED BY <1>1, <2>1, <3>1 DEF TakeCharge, StopInv
  <2>2. CASE BookCharge
    <3>1. inHand \in Requests /\ chargeWorker # "ended"
      BY <1>1, <2>2 DEF BookCharge, StopInv
    <3>2. booked' \in [Requests -> Nat] /\ failedCharges' \in SUBSET Requests
      BY <1>1, <2>2, <3>1 DEF BookCharge, Apply, Book
    <3> QED BY <1>1, <2>2, <3>1, <3>2 DEF BookCharge, StopInv
  <2>3. CASE StartDraining
    BY <1>1, <2>3 DEF StartDraining, ChargeWorkerModes, shutdownCh, isShuttingDown
  <2>4. CASE EndDraining
    BY <1>1, <2>4, NoEntries DEF EndDraining, ChargeWorkerModes, StopInv
  <2> QED BY <2>1, <2>2, <2>3, <2>4 DEF ChargeWorkerStep
<1>4. TypeOK'
  BY <1>1, <1>2, <1>3 DEF TypeOK, lifeTypeOK, chargeTypeOK, logTypeOK, logVars
<1>5. StopInv'
  BY <1>1, <1>2, <1>3 DEF StopInv, logVars, isShuttingDown
<1>6. RetryInv' /\ DownInv'
  BY <1>1, <1>2 DEF RetryInv, DownInv, logVars
<1> QED BY <1>4, <1>5, <1>6 DEF Placed

LEMMA LogWorkerPlaced ==
  ASSUME AInv, LogWorkerStep, UNCHANGED <<chargeVars, costCache, costLoaded, racing>>
  PROVE  Placed
<1>1. TypeOK /\ RetryInv /\ StopInv /\ logChan \in Seq(Requests) /\ batch \in Seq(Requests)
      /\ logWorker \in LogWorkerModes /\ attempt \in 0..MaxAttempts /\ backoff \in BOOLEAN
      /\ stored \in [Requests -> Nat]
      /\ failedLogs \in SUBSET Requests /\ doubtful \in SUBSET Requests
  BY Types DEF AInv
<1>2. /\ UNCHANGED <<phase, clean, at, droppedLogs, skippedLogs>> /\ phase # "down"
      /\ logWorker # "ended"
  <2>1. CASE TakeLog \/ TickerFlush \/ StartLogDrain \/ LogsDrained
    BY <2>1 DEF TakeLog, TickerFlush, StartLogDrain, LogsDrained, Collecting, lifeVars, Up
  <2>2. CASE FlushOk \/ FlushFails \/ FlushRetry \/ BackoffCut
    BY <1>1, <2>2 DEF FlushOk, FlushFails, FlushRetry, BackoffCut, Writing, lifeVars, Up, StopInv
  <2> QED BY <2>1, <2>2 DEF LogWorkerStep
<1>3. MaxAttempts \in Nat \ {0} /\ Insert \in [Requests -> Nat] /\ Entries(batch) \subseteq Requests
  <2>1. \A r \in Requests : Insert[r] \in Nat
    BY <1>1 DEF Insert
  <2> QED BY <1>1, <2>1, LogAssumption DEF Insert, Entries
<1>4. (logWorker # "running" => isShuttingDown)
      /\ (logWorker \in {"last", "ended"} => Entries(logChan) \subseteq racing)
  BY <1>1 DEF StopInv
<1>5. ASSUME FlushEnds, logChan' = logChan
      PROVE  /\ logChan' \in Seq(Requests) /\ batch' \in Seq(Requests)
             /\ logWorker' \in LogWorkerModes /\ attempt' \in 0..MaxAttempts /\ backoff' \in BOOLEAN
             /\ backoff' => attempt' \in 1..(MaxAttempts - 1)
             /\ logWorker' # "running" => isShuttingDown
             /\ logWorker' \in {"last", "ended"} => Entries(logChan') \subseteq racing
             /\ logWorker' = "ended" => batch' = << >> /\ attempt' = 0 /\ ~backoff'
  <2>1. batch' = << >> /\ attempt' = 0 /\ backoff' = FALSE
        /\ logWorker' = (IF logWorker = "last" THEN "ended" ELSE logWorker)
    BY <1>5 DEF FlushEnds
  <2>2. batch' \in Seq(Requests) /\ attempt' \in 0..MaxAttempts
    BY <1>3, <2>1
  <2>3. logWorker' \in LogWorkerModes
    BY <1>1, <2>1 DEF LogWorkerModes
  <2> QED BY <1>1, <1>4, <1>5, <2>1, <2>2, <2>3
<1>6. /\ logChan' \in Seq(Requests) /\ batch' \in Seq(Requests)
      /\ logWorker' \in LogWorkerModes /\ attempt' \in 0..MaxAttempts /\ backoff' \in BOOLEAN
      /\ stored' \in [Requests -> Nat]
      /\ failedLogs' \in SUBSET Requests /\ doubtful' \in SUBSET Requests
      /\ backoff' => attempt' \in 1..(MaxAttempts - 1)
      /\ logWorker' # "running" => isShuttingDown
      /\ logWorker' \in {"last", "ended"} => Entries(logChan') \subseteq racing
      /\ logWorker' = "ended" => batch' = << >> /\ attempt' = 0 /\ ~backoff'
  <2>1. CASE TakeLog
    <3>1. Head(logChan) \in Requests /\ Tail(logChan) \in Seq(Requests)
      BY <1>1, <2>1, EntriesOfTail DEF TakeLog
    <3>2. Append(batch, Head(logChan)) \in Seq(Requests)
      BY <1>1, <3>1, EntriesOfAppend
    <3>3. logWorker \in {"running", "draining"} /\ attempt = 0 /\ ~backoff /\ attempt' \in {0, 1}
          /\ UNCHANGED <<logWorker, backoff, stored, doubtful, failedLogs>>
          /\ logChan' = Tail(logChan) /\ batch' = Append(batch, Head(logChan))
      BY <1>1, <1>3, <2>1 DEF TakeLog, Collecting, RetryInv
    <3> QED BY <1>1, <1>3, <3>1, <3>2, <3>3 DEF StopInv
  <2>2. CASE TickerFlush
    BY <1>1, <1>3, <2>2 DEF TickerFlush, Collecting, RetryInv, StopInv
  <2>3. CASE StartLogDrain
    BY <1>1, <1>3, <2>3 DEF StartLogDrain, Collecting, RetryInv, shutdownCh, isShuttingDown,
         LogWorkerModes
  <2>4. CASE LogsDrained
    BY <1>1, <1>3, <2>4, NoEntries DEF LogsDrained, Collecting, RetryInv, StopInv, LogWorkerModes
  <2>5. CASE FlushOk
    BY <1>1, <1>3, <1>5, <2>5 DEF FlushOk
  <2>6. CASE FlushFails
    <3>1. logChan' = logChan /\ stored' \in [Requests -> Nat] /\ doubtful' \in SUBSET Requests
      BY <1>1, <1>3, <2>6 DEF FlushFails, WriteFails
    <3>2. CASE GiveUp
      BY <1>1, <1>3, <1>5, <3>1, <3>2 DEF GiveUp
    <3>3. CASE ~GiveUp
      <4>1. attempt < MaxAttempts /\ attempt > 0 /\ UNCHANGED <<batch, attempt, logWorker, failedLogs>>
            /\ backoff' = TRUE
        BY <2>6, <3>3 DEF FlushFails, Writing
      <4> QED BY <1>1, <1>2, <1>3, <3>1, <4>1 DEF StopInv
    <3> QED BY <3>2, <3>3
  <2>7. CASE FlushRetry
    <3>1. attempt \in 1..(MaxAttempts - 1)
      BY <1>1, <2>7 DEF FlushRetry, RetryInv
    <3>2. attempt' \in 0..MaxAttempts
      BY <1>3, <2>7, <3>1 DEF FlushRetry
    <3> QED BY <1>1, <1>2, <1>4, <2>7, <3>2 DEF FlushRetry
  <2>8. CASE BackoffCut
    BY <1>1, <1>3, <1>5, <2>8 DEF BackoffCut, GiveUp
  <2> QED BY <2>1, <2>2, <2>3, <2>4, <2>5, <2>6, <2>7, <2>8 DEF LogWorkerStep
<1>7. TypeOK'
  BY <1>1, <1>2, <1>6 DEF TypeOK, lifeTypeOK, chargeTypeOK, logTypeOK, chargeVars
<1>8. StopInv'
  BY <1>1, <1>2, <1>6 DEF StopInv, chargeVars, isShuttingDown
<1>9. RetryInv' /\ DownInv'
  BY <1>2, <1>6 DEF RetryInv, DownInv
<1> QED BY <1>7, <1>8, <1>9 DEF Placed

\* main goes on, and with it what the workers are allowed to find.
LEMMA ShutdownPlaced ==
  ASSUME AInv, ShuttingDown \/ SignalOrTimeout
  PROVE  Placed /\ UNCHANGED <<at, chargeVars, logVars, costCache, costLoaded>> /\ (Up' => Up)
<1>1. TypeOK /\ RetryInv /\ StopInv
  BY DEF AInv
<1>2. /\ UNCHANGED <<at, chargeVars, logVars, costCache, costLoaded, racing>>
      /\ phase \notin {"down", "closed", "stopping"}
      /\ phase' \in {"draining", "stopping", "signalled", "finishing", "closed"}
      /\ isShuttingDown' = isShuttingDown
      /\ \/ clean' = clean /\ (phase \in {"finishing", "closed"} => phase' \in {"finishing", "closed"})
         \/ clean' = TRUE /\ phase' = "finishing" /\ chargeWorker = "ended" /\ logWorker = "ended"
  BY DEF ShuttingDown, SignalOrTimeout, HttpDrained, HttpTimesOut, CloseShutdownCh, WorkersEnd,
         CloseStore, Signal, WorkersTimeOut, Advance, isShuttingDown
<1>3. TypeOK'
  BY <1>1, <1>2 DEF TypeOK, lifeTypeOK, chargeTypeOK, logTypeOK, chargeVars, logVars, Phases
<1>4. StopInv'
  BY <1>1, <1>2 DEF StopInv, chargeVars, logVars
<1>5. RetryInv' /\ DownInv'
  BY <1>1, <1>2 DEF RetryInv, DownInv, logVars
<1> QED BY <1>2, <1>3, <1>4, <1>5 DEF Placed, Up

\* When the flag is set, who can still send is written down.
LEMMA FlagPlaced ==
  ASSUME AInv, FlagSet
  PROVE  Placed /\ UNCHANGED <<at, chargeVars, logVars, costCache, costLoaded>> /\ (Up' => Up)
<1>1. TypeOK /\ RetryInv /\ StopInv
  BY DEF AInv
<1>2. /\ UNCHANGED <<clean, at, chargeVars, logVars, costCache, costLoaded>>
      /\ phase = "stopping" /\ phase' = "flagged"
      /\ racing' = {r \in Requests : at[r] \in {"logSend", "chargeSend"}}
  BY DEF FlagSet, SetFlag, Advance
<1>3. TypeOK'
  BY <1>1, <1>2 DEF TypeOK, lifeTypeOK, chargeTypeOK, logTypeOK, chargeVars, logVars, Phases
<1>4. chargeWorker = "running" /\ logWorker = "running" /\ ~clean
  BY <1>1, <1>2 DEF StopInv, isShuttingDown
<1>5. StopInv'
  BY <1>1, <1>2, <1>4 DEF StopInv, chargeVars, logVars, isShuttingDown
<1>6. RetryInv' /\ DownInv'
  BY <1>1, <1>2 DEF RetryInv, DownInv, logVars
<1> QED BY <1>2, <1>3, <1>5, <1>6 DEF Placed, Up

LEMMA EndPlaced ==
  ASSUME AInv, End
  PROVE  Placed
<1>1. TypeOK
  BY DEF AInv
<1>2. /\ at' = [r \in Requests |-> IF at[r] = "idle" THEN "idle" ELSE "over"]
      /\ phase' = "down" /\ clean' = FALSE
      /\ booked' = booked /\ stored' = stored /\ doubtful' = doubtful
      /\ tokenStatsCh' = << >> /\ chargeWorker' = "running" /\ inHand' = None
      /\ logChan' = << >> /\ logWorker' = "running" /\ batch' = << >>
      /\ attempt' = 0 /\ backoff' = FALSE
      /\ droppedCharges' = {} /\ failedCharges' = {}
      /\ droppedLogs' = {} /\ failedLogs' = {} /\ skippedLogs' = {}
      /\ costCache' = [r \in Requests |-> 0] /\ costLoaded' = costLoaded /\ racing' = {}
  BY DEF End, Exit, Crash, Stop, ForgetCharges, ForgetLogs
<1>3. TypeOK'
  <2>1. at' \in [Requests -> Stages] /\ phase' \in Phases
    BY <1>2 DEF Stages, Phases
  <2>2. costCache' \in [Requests -> Nat] /\ 0 \in 0..MaxAttempts
    BY <1>2, LogAssumption
  <2>3. lifeTypeOK'
    BY <1>2, <2>1 DEF lifeTypeOK
  <2>4. chargeTypeOK'
    BY <1>1, <1>2 DEF TypeOK, chargeTypeOK, ChargeWorkerModes
  <2>5. stored \in [Requests -> Nat] /\ doubtful \in SUBSET Requests
    BY <1>1, Types
  <2>6. << >> \in Seq(Requests) /\ {doubtful, {}} \subseteq SUBSET Requests
    BY <2>5
  <2>7. logTypeOK'
    BY <1>2, <2>2, <2>5, <2>6 DEF logTypeOK, LogWorkerModes
  <2> QED BY <1>1, <1>2, <2>2, <2>3, <2>4, <2>7 DEF TypeOK
<1>4. StopInv'
  BY <1>2 DEF StopInv, isShuttingDown
<1>5. RetryInv' /\ DownInv'
  BY <1>2 DEF RetryInv, DownInv
<1> QED BY <1>3, <1>4, <1>5 DEF Placed

LEMMA RestartPlaced ==
  ASSUME AInv, Restart
  PROVE  Placed
<1>1. TypeOK /\ RetryInv /\ StopInv
  BY DEF AInv
<1>2. /\ UNCHANGED <<clean, at, chargeVars, logVars, racing>>
      /\ phase = "down" /\ phase' = "serving" /\ costLoaded' \in BOOLEAN
      /\ costCache' \in {stored, [r \in Requests |-> 0]}
  BY DEF Restart, Start
<1>3. TypeOK'
  <2>1. costCache' \in [Requests -> Nat]
    BY <1>1, <1>2, Types
  <2> QED BY <1>1, <1>2, <2>1
       DEF TypeOK, lifeTypeOK, chargeTypeOK, logTypeOK, chargeVars, logVars, Phases
<1>4. StopInv'
  BY <1>1, <1>2 DEF StopInv, chargeVars, logVars, isShuttingDown
<1>5. RetryInv' /\ DownInv'
  BY <1>1, <1>2 DEF RetryInv, DownInv, logVars
<1> QED BY <1>3, <1>4, <1>5 DEF Placed

-----------------------------------------------------------------------------
(* Every step *)

LEMMA AInit == Init => AInv
<1> SUFFICES ASSUME Init
             PROVE  AInv
  OBVIOUS
<1>1. /\ phase = "serving" /\ clean = FALSE /\ at = [r \in Requests |-> "idle"]
      /\ tokenStatsCh = << >> /\ chargeWorker = "running" /\ inHand = None
      /\ booked = [r \in Requests |-> 0] /\ droppedCharges = {} /\ failedCharges = {}
      /\ logChan = << >> /\ logWorker = "running" /\ batch = << >>
      /\ attempt = 0 /\ backoff = FALSE /\ stored = [r \in Requests |-> 0] /\ doubtful = {}
      /\ droppedLogs = {} /\ failedLogs = {} /\ skippedLogs = {}
      /\ costCache = [r \in Requests |-> 0] /\ costLoaded = TRUE /\ racing = {}
  BY DEF Init, lifeInit, chargeInit, logInit
<1>2. TypeOK
  <2>1. at \in [Requests -> Stages] /\ phase \in Phases
    BY <1>1 DEF Stages, Phases
  <2>2. costCache \in [Requests -> Nat] /\ stored \in [Requests -> Nat]
        /\ booked \in [Requests -> Nat] /\ 0 \in 0..MaxAttempts
    BY <1>1, LogAssumption
  <2>3. lifeTypeOK
    BY <1>1, <2>1 DEF lifeTypeOK
  <2>4. << >> \in Seq(Requests)
    OBVIOUS
  <2>5. chargeTypeOK
    BY <1>1, <2>2, <2>4 DEF chargeTypeOK, ChargeWorkerModes
  <2>6. logTypeOK
    BY <1>1, <2>2, <2>4 DEF logTypeOK, LogWorkerModes
  <2> QED BY <1>1, <2>2, <2>3, <2>5, <2>6 DEF TypeOK
<1>3. RetryInv /\ StopInv /\ DownInv
  BY <1>1 DEF RetryInv, StopInv, DownInv, isShuttingDown
<1>4. ASSUME NEW r \in Requests
      PROVE  ChargeOf(r) /\ LogOf(r) /\ CostOf(r)
  <2>1. Times(r, tokenStatsCh) = 0 /\ Times(r, logChan) = 0 /\ Times(r, batch) = 0
    BY <1>1, TimesOfNone
  <2>2. inHand # r /\ at[r] = "idle" /\ booked[r] = 0 /\ stored[r] = 0 /\ costCache[r] = 0
    BY <1>1, ChargeAssumption
  <2>3. HoldsCharge(r) /\ HoldsEntry(r)
    BY <2>2 DEF HoldsCharge, HoldsEntry
  <2> QED BY <1>1, <2>1, <2>2, <2>3 DEF ChargeOf, LogOf, CostOf, One
<1> QED BY <1>2, <1>3, <1>4 DEF AInv

LEMMA AStep == AInv /\ [Next]_acVars => AInv'
<1> SUFFICES ASSUME AInv, [Next]_acVars
             PROVE  Counted /\ Placed
  BY DEF Counted, Placed, AInv
<1>1. ASSUME NEW r \in Requests, Handler(r)
      PROVE  Counted /\ Placed
  <2>1. CASE (Begin(r) \/ Answered(r)) /\ UNCHANGED <<chargeVars, logVars, costCache, costLoaded, racing>>
    BY <2>1, BeginCounts, BeginPlaced
  <2>2. CASE CheckLog(r) /\ AddCost(r) /\ UNCHANGED <<chargeVars, costLoaded, racing>>
    BY <2>2, CheckLogCounts, LogHandlerPlaced
  <2>3. CASE SendLog(r) /\ UNCHANGED <<chargeVars, costCache, costLoaded, racing>>
    BY <2>3, SendLogCounts, LogHandlerPlaced
  <2>4. CASE ChargeHandlerStep(r) /\ UNCHANGED <<logVars, costCache, costLoaded, racing>>
    BY <2>4, ChargeHandlerCounts, ChargeHandlerPlaced
  <2> QED BY <1>1, <2>1, <2>2, <2>3, <2>4 DEF Handler
<1>2. CASE ChargeWorking
  BY <1>2, ChargeWorkerCounts, ChargeWorkerPlaced DEF ChargeWorking
<1>3. CASE LogWorking
  BY <1>3, LogWorkerCounts, LogWorkerPlaced DEF LogWorking
<1>4. CASE ShuttingDown \/ SignalOrTimeout
  BY <1>4, ShutdownPlaced, ProcessCounts
<1>5. CASE FlagSet
  BY <1>5, FlagPlaced, ProcessCounts
<1>6. CASE End
  BY <1>6, EndCounts, EndPlaced
<1>7. CASE Restart
  BY <1>7, RestartCounts, RestartPlaced
<1>8. CASE UNCHANGED acVars
  <2>1. UNCHANGED <<phase, clean, at, chargeVars, logVars, costCache, costLoaded, racing>>
    BY <1>8 DEF acVars, lifeVars
  <2>2. Counted
    BY <2>1, ProcessCounts DEF Up
  <2>3. Placed
    BY <2>1 DEF Placed, AInv, TypeOK, lifeTypeOK, chargeTypeOK, logTypeOK, RetryInv, StopInv, DownInv,
         isShuttingDown, chargeVars, logVars
  <2> QED BY <2>2, <2>3
<1> QED BY <1>1, <1>2, <1>3, <1>4, <1>5, <1>6, <1>7, <1>8 DEF Next

\* The inductive invariant holds in every state: of every request, wherever its
\* handler, the workers and the shutdown have come to.
THEOREM Accounted == Spec => []AInv
<1>1. Init => AInv
  BY AInit
<1>2. AInv /\ [Next]_acVars => AInv'
  BY AStep
<1> QED BY <1>1, <1>2, PTL DEF Spec

-----------------------------------------------------------------------------
(* What it says *)

\* The variables of the handlers, the queues and the lifecycle keep their types.
THEOREM TypeCorrect == Spec => []TypeOK
<1>1. AInv => TypeOK
  BY DEF AInv
<1> QED BY <1>1, Accounted, PTL

\* A charge and a log entry are in exactly one place while their process lives,
\* and over all starts a request is booked at most once and, unless the answer
\* of a commit was lost, stored at most once: no order of sends, drains, failed
\* writes, crashes and restarts loses or repeats one.  (A charge whose UPDATE
\* committed without an answer is booked, once, and reported as failed.)
THEOREM NothingLostOrRepeated == Spec => []Conserved
<1>1. AInv => Conserved
  <2> SUFFICES ASSUME AInv
               PROVE  Conserved
    OBVIOUS
  <2>1. ChargeConserved
    BY DEF AInv, ChargeConserved, ChargeOf
  <2>2. LogConserved
    BY DEF AInv, LogConserved, LogOf
  <2> QED BY <2>1, <2>2 DEF Conserved
<1> QED BY <1>1, Accounted, PTL

\* When both workers have ended in time (wg.Wait in Server.Shutdown), a charge
\* or an entry that is still in memory is of a handler that had read the flag
\* before it was set and had not yet sent.
THEOREM StrandedRaced == Spec => []OnlyRacingStranded
<1>1. AInv => OnlyRacingStranded
  <2> SUFFICES ASSUME AInv, phase \in {"finishing", "closed"}, clean
               PROVE  ChargesInMemory \cup LogsInMemory \subseteq racing
    BY DEF OnlyRacingStranded
  <2>1. chargeWorker = "ended" /\ logWorker = "ended"
    BY DEF AInv, StopInv
  <2>2. ChargesInMemory \subseteq racing
    BY <2>1, ElementsAreEntries DEF AInv, StopInv, ChargesInMemory
  <2>3. LogsInMemory \subseteq racing
    BY <2>1, NoEntries DEF AInv, StopInv, LogsInMemory
  <2> QED BY <2>2, <2>3
<1> QED BY <1>1, Accounted, PTL

\* The channel's cost in memory counts every row of the logs table: the cost
\* is added before the entry is handed over, and a start that could read the
\* table begins with its rows.  A row stored twice (doubtful) is the exception.
THEOREM CostKeepsUp == Spec => []CostNotBehindLogs
<1>1. AInv => CostNotBehindLogs
  <2> SUFFICES ASSUME AInv, Up, costLoaded, NEW r \in Requests \ doubtful
               PROVE  stored[r] <= costCache[r]
    BY DEF CostNotBehindLogs
  <2>1. stored[r] + Times(r, logChan) + Times(r, batch) + One(at[r] = "logSend")
          <= costCache[r]
    BY DEF AInv, CostOf
  <2>2. TypeOK
    BY DEF AInv
  <2> QED BY <2>1, <2>2, Amounts DEF One
<1> QED BY <1>1, Accounted, PTL
=============================================================================
