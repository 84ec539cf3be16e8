---------------------- MODULE UpstreamAdmission_proofs ----------------------
(***************************************************************************)
(* What the two limiters guarantee for any set of requests, any limits and *)
(* any number of ticks in a minute.                                        *)
(*                                                                         *)
(* The counter and the wakeups only depend on the stages of the requests,  *)
(* so the first part keeps the RPM limiter and the clock abstract: a step  *)
(* of theirs leaves slotVars as it is, or only moves a request between two *)
(* stages that hold a slot.  The second part compares what the RPM limiter *)
(* remembers with what was really admitted (MinuteInv): dropping old       *)
(* events early, late, or in a sweep makes no difference (YoungerOfAged).  *)
(***************************************************************************)
EXTENDS UpstreamAdmission, FiniteSetTheorems, SequenceTheorems, TLAPS

slotVars == <<active, watchers, limits, deleted, stage, kind, lim>>

SlotInv ==
  /\ SlotTypeOK
  /\ SlotsAreHeld
  /\ WithinLimits
  /\ NoLostWakeup

\* The requests in flight that were admitted under a limit up to n.
Under(n) == {r \in Holders : lim[r].conc <= n}

\* Every step, as far as the slots are concerned.
Take(r) ==
  /\ stage[r] = "new" /\ HasRoom(lim[r])
  /\ active' = IF lim[r].conc = 0 THEN active ELSE active + 1
  /\ stage' = [stage EXCEPT ![r] = "slot"]
  /\ UNCHANGED <<watchers, limits, deleted, kind, lim>>

Return(r) ==
  /\ stage[r] \in Holding
  /\ Release(r)
  /\ \E s \in Stages \ Holding : s # "blocked" /\ stage' = [stage EXCEPT ![r] = s]
  /\ UNCHANGED <<limits, deleted, kind, lim>>

Hold(r) ==
  /\ stage[r] \in Holding
  /\ \E s \in Holding : stage' = [stage EXCEPT ![r] = s]
  /\ UNCHANGED <<active, watchers, limits, deleted, kind, lim>>

Idle(r) ==
  /\ stage[r] \notin Holding
  /\ \E s \in Stages \ Holding :
       (stage[r] = "blocked" => r \notin watchers) /\ stage' = [stage EXCEPT ![r] = s]
  /\ UNCHANGED <<active, watchers, limits, deleted, kind, lim>>

Queue(r) ==
  /\ stage[r] = "new" /\ ~HasRoom(lim[r])
  /\ stage' = [stage EXCEPT ![r] = "blocked"]
  /\ watchers' = watchers \cup {r}
  /\ UNCHANGED <<active, limits, deleted, kind, lim>>

GiveUp(r) ==
  /\ stage[r] \notin Holding
  /\ stage' = [stage EXCEPT ![r] = "done"]
  /\ watchers' = watchers \ {r}
  /\ UNCHANGED <<active, limits, deleted, kind, lim>>

Begin(r) ==
  /\ stage[r] = "idle"
  /\ stage' = [stage EXCEPT ![r] = "new"]
  /\ \E k \in Kinds : kind' = [kind EXCEPT ![r] = k]
  /\ lim' = [lim EXCEPT ![r] = limits]
  /\ UNCHANGED <<active, watchers, limits, deleted>>

Configure ==
  /\ limits' \in Limits /\ deleted' \in BOOLEAN
  /\ UNCHANGED <<active, watchers, stage, kind, lim>>

SlotStep ==
  \/ \E r \in Requests : Take(r) \/ Return(r) \/ Hold(r) \/ Idle(r) \/ Queue(r)
                         \/ GiveUp(r) \/ Begin(r)
  \/ Configure

-----------------------------------------------------------------------------
\* Every step of the specification is one of these.
LEMMA StepIsSlotStep ==
  ASSUME SlotInv, Next
  PROVE  SlotStep \/ UNCHANGED slotVars
<1>1. CASE \E r \in Requests : \E k \in Kinds : Start(r, k)
  BY <1>1 DEF Start, SlotStep, Begin
<1>2. ASSUME NEW r \in Requests, RequestStep(r)
      PROVE  SlotStep
  <2>1. CASE Acquire(r)
    BY <2>1 DEF Acquire, Goto, SlotStep, Take
  <2>2. CASE Reject(r)
    BY <2>2 DEF Reject, Goto, SlotStep, Idle, Holding, Stages
  <2>3. CASE Block(r)
    BY <2>3 DEF Block, Goto, SlotStep, Queue
  <2>4. CASE Wake(r) \/ StartTimer(r) \/ TimerFires(r) \/ CloseAgain(r)
    BY <2>4 DEF Wake, StartTimer, TimerFires, CloseAgain, Goto, SlotStep, Idle, Holding, Stages
  <2>5. CASE Reserve(r)
    <3>1. \/ stage' = [stage EXCEPT ![r] = "sending"]
          \/ stage' = [stage EXCEPT ![r] = "refused"]
      BY <2>5 DEF Reserve, Goto
    <3>2. stage[r] \in Holding /\ UNCHANGED <<active, watchers, limits, deleted, kind, lim>>
      BY <2>5 DEF Reserve, Goto, Holding
    <3> QED
      BY <3>1, <3>2 DEF SlotStep, Hold, Holding
  <2>6. CASE Respond(r)
    BY <2>6 DEF Respond, Goto, SlotStep, Hold, Holding
  <2>7. CASE GiveBack(r)
    <3>1. \E s \in {"backoff", "done"} : stage' = [stage EXCEPT ![r] = s]
      BY <2>7 DEF GiveBack, Goto
    <3>2. \E s \in Stages \ Holding : s # "blocked" /\ stage' = [stage EXCEPT ![r] = s]
      BY <3>1 DEF Stages, Holding
    <3> QED
      BY <2>7, <3>2 DEF GiveBack, Goto, SlotStep, Return, Holding
  <2>8. CASE SendFails(r)
    BY <2>8 DEF SendFails, Goto, SlotStep, Return, Holding, Stages
  <2>9. CASE CloseBody(r)
    BY <2>9 DEF CloseBody, Goto, SlotStep, Return, Holding, Stages
  <2> QED
    BY <1>2, <2>1, <2>2, <2>3, <2>4, <2>5, <2>6, <2>7, <2>8, <2>9 DEF RequestStep
<1>3. CASE \E r \in Requests : Cancel(r)
  BY <1>3 DEF Cancel, Goto, SlotStep, GiveUp, Holding
<1>4. CASE CleanupExpired \/ Tick
  BY <1>4 DEF CleanupExpired, Tick, slotVars, reqVars
<1>5. CASE \E new \in Limits : EditLimits(new)
  BY <1>5 DEF EditLimits, reqVars, SlotStep, Configure, SlotInv, SlotTypeOK
<1>6. CASE DeleteChannel
  BY <1>6 DEF DeleteChannel, reqVars, SlotStep, Configure, SlotInv, SlotTypeOK
<1> QED
  BY <1>1, <1>2, <1>3, <1>4, <1>5, <1>6 DEF Next

\* A step that leaves active, Holders and lim alone cannot disturb the counts.
LEMMA CountsKept ==
  ASSUME SlotInv, active' = active, Holders' = Holders,
         \A r \in Holders : lim'[r] = lim[r]
  PROVE  SlotsAreHeld' /\ WithinLimits'
<1>1. SlotsAreHeld'
  BY DEF SlotInv, SlotsAreHeld
<1>2. ASSUME NEW l \in Limits
      PROVE  Cardinality({r \in Holders' : lim'[r].conc <= l.conc}) <= l.conc
  <2>1. {r \in Holders' : lim'[r].conc <= l.conc} = {r \in Holders : lim[r].conc <= l.conc}
    OBVIOUS
  <2> QED
    BY <2>1 DEF SlotInv, WithinLimits
<1> QED
  BY <1>1, <1>2 DEF WithinLimits

LEMMA HoldersFinite ==
  ASSUME TRUE
  PROVE  /\ IsFiniteSet(Holders)
         /\ \A n : IsFiniteSet(Under(n)) /\ Cardinality(Under(n)) \in Nat
         /\ Cardinality(Holders) \in Nat
<1>1. IsFiniteSet(Holders)
  BY LimitsAssumption, FS_Subset DEF Holders
<1>2. \A n : IsFiniteSet(Under(n))
  BY <1>1, FS_Subset DEF Under
<1> QED
  BY <1>1, <1>2, FS_CardinalityType

\* A slot is taken.
LEMMA TakeKeeps ==
  ASSUME SlotInv, NEW r \in Requests, Take(r)
  PROVE  SlotInv'
<1> USE DEF SlotInv
<1>1. SlotTypeOK'
  BY DEF Take, SlotTypeOK, Stages
<1>2. NoLostWakeup'
  BY LimitsAssumption DEF Take, NoLostWakeup, SlotTypeOK
<1>3. CASE lim[r].conc = 0
  <2>1. Holders' = Holders
    BY <1>3 DEF Take, Holders, SlotTypeOK, Holding
  <2> QED
    BY <1>1, <1>2, <1>3, <2>1, CountsKept DEF Take
<1>4. CASE lim[r].conc # 0
  <2>1. r \notin Holders
    BY DEF Take, Holders, Holding
  <2>2. Holders' = Holders \cup {r}
    BY <1>4, LimitsAssumption DEF Take, Holders, SlotTypeOK, Holding
  <2>3. active' = active + 1 /\ active < lim[r].conc
    BY <1>4 DEF Take, HasRoom
  <2>4. SlotsAreHeld'
    BY <2>1, <2>2, <2>3, HoldersFinite, FS_AddElement DEF SlotsAreHeld
  <2>5. ASSUME NEW l \in Limits
        PROVE  Cardinality({q \in Holders' : lim'[q].conc <= l.conc}) <= l.conc
    <3>1. Cardinality(Under(l.conc)) <= l.conc /\ lim' = lim /\ l.conc \in Nat
      BY LimitsAssumption DEF Under, WithinLimits, Take
    <3>2. CASE lim[r].conc <= l.conc
      <4>1. {q \in Holders' : lim'[q].conc <= l.conc} = Under(l.conc) \cup {r} /\ r \notin Under(l.conc)
        BY <2>1, <2>2, <3>1, <3>2 DEF Under
      <4>2. Cardinality(Under(l.conc) \cup {r}) = Cardinality(Under(l.conc)) + 1
        BY <4>1, HoldersFinite, FS_AddElement
      <4>3. Cardinality(Under(l.conc)) <= active
        BY HoldersFinite, FS_Subset DEF Under, SlotsAreHeld
      <4>4. lim[r].conc \in Nat /\ active \in Nat
        BY LimitsAssumption DEF SlotTypeOK
      <4>5. Cardinality(Under(l.conc)) \in Nat
        BY HoldersFinite
      <4>6. Cardinality(Under(l.conc)) + 1 <= l.conc
        BY <2>3, <3>1, <3>2, <4>3, <4>4, <4>5
      <4> QED
        BY <4>1, <4>2, <4>6
    <3>3. CASE ~(lim[r].conc <= l.conc)
      <4>1. {q \in Holders' : lim'[q].conc <= l.conc} = Under(l.conc)
        BY <2>2, <3>1, <3>3 DEF Under
      <4> QED
        BY <3>1, <4>1
    <3> QED
      BY <3>2, <3>3
  <2>6. WithinLimits'
    BY <2>5 DEF WithinLimits
  <2> QED
    BY <1>1, <1>2, <2>4, <2>6
<1> QED
  BY <1>3, <1>4

\* A slot goes back.
LEMMA ReturnKeeps ==
  ASSUME SlotInv, NEW r \in Requests, Return(r)
  PROVE  SlotInv'
<1> USE DEF SlotInv
<1>0. PICK s \in Stages \ Holding : s # "blocked" /\ stage' = [stage EXCEPT ![r] = s]
  BY DEF Return
<1>1. SlotTypeOK'
  BY <1>0 DEF Return, Release, SlotTypeOK
<1>2. NoLostWakeup'
  <2>1. CASE lim[r].conc = 0
    <3>1. \A q \in watchers : q # r
      BY DEF NoLostWakeup, Return, Holding
    <3> QED
      BY <1>0, <2>1, <3>1 DEF NoLostWakeup, Return, Release, SlotTypeOK
  <2>2. CASE lim[r].conc # 0
    BY <2>2 DEF NoLostWakeup, Return, Release
  <2> QED
    BY <2>1, <2>2
<1>3. CASE lim[r].conc = 0
  <2>1. Holders' = Holders
    BY <1>0, <1>3 DEF Return, Holders, SlotTypeOK
  <2> QED
    BY <1>1, <1>2, <1>3, <2>1, CountsKept DEF Return, Release
<1>4. CASE lim[r].conc # 0
  <2>1. r \in Holders
    BY <1>4, LimitsAssumption DEF Return, Holders, SlotTypeOK
  <2>2. Holders' = Holders \ {r}
    BY <1>0 DEF Return, Holders, SlotTypeOK
  <2>3. Cardinality(Holders \ {r}) = Cardinality(Holders) - 1
    BY <2>1, HoldersFinite, FS_RemoveElement
  <2>4. SlotsAreHeld'
    <3>1. active >= 1
      BY <2>1, HoldersFinite, FS_EmptySet DEF SlotsAreHeld
    <3>2. active' = active - 1
      BY <1>4, <3>1 DEF Return, Release, SlotTypeOK
    <3> QED
      BY <2>2, <2>3, <3>2 DEF SlotsAreHeld
  <2>5. ASSUME NEW l \in Limits
        PROVE  Cardinality({q \in Holders' : lim'[q].conc <= l.conc}) <= l.conc
    <3>1. Cardinality(Under(l.conc)) <= l.conc /\ lim' = lim /\ l.conc \in Nat
      BY LimitsAssumption DEF Under, WithinLimits, Return
    <3>2. {q \in Holders' : lim'[q].conc <= l.conc} \subseteq Under(l.conc)
      BY <2>2, <3>1 DEF Under
    <3> QED
      BY <3>1, <3>2, HoldersFinite, FS_Subset, FS_CardinalityType
  <2>6. WithinLimits'
    BY <2>5 DEF WithinLimits
  <2> QED
    BY <1>1, <1>2, <2>4, <2>6
<1> QED
  BY <1>3, <1>4

\* The other steps move no slot.
LEMMA OthersKeep ==
  ASSUME SlotInv, NEW r \in Requests,
         Hold(r) \/ Idle(r) \/ Queue(r) \/ GiveUp(r) \/ Begin(r)
  PROVE  SlotInv'
<1> USE DEF SlotInv
<1>1. SlotTypeOK'
  BY DEF Hold, Idle, Queue, GiveUp, Begin, SlotTypeOK, Stages, Holding
<1>2. Holders' = Holders /\ \A q \in Holders : lim'[q] = lim[q]
  BY DEF Hold, Idle, Queue, GiveUp, Begin, SlotTypeOK, Holding, Holders
<1>3. SlotsAreHeld' /\ WithinLimits'
  BY <1>2, CountsKept DEF Hold, Idle, Queue, GiveUp, Begin
<1>4. NoLostWakeup'
  <2>1. CASE Hold(r) \/ Idle(r) \/ GiveUp(r) \/ Begin(r)
    BY <2>1 DEF Hold, Idle, GiveUp, Begin, NoLostWakeup, SlotTypeOK, Holding
  <2>2. CASE Queue(r)
    BY <2>2, LimitsAssumption DEF Queue, NoLostWakeup, SlotTypeOK, HasRoom
  <2> QED
    BY <2>1, <2>2
<1> QED
  BY <1>1, <1>3, <1>4

LEMMA InitSlot ==
  ASSUME Init
  PROVE  SlotInv
<1>1. SlotTypeOK
  BY DEF Init, SlotTypeOK, Stages, Kinds
<1>2. Holders = {}
  BY DEF Init, Holders, Holding
<1>3. SlotsAreHeld
  BY <1>2, FS_EmptySet DEF Init, SlotsAreHeld
<1>4. WithinLimits
  <2>1. ASSUME NEW l \in Limits
        PROVE  Cardinality({r \in Holders : lim[r].conc <= l.conc}) <= l.conc
    <3>1. {r \in Holders : lim[r].conc <= l.conc} = {}
      BY <1>2
    <3>2. l.conc \in Nat
      BY LimitsAssumption
    <3>3. Cardinality({}) = 0
      BY FS_EmptySet
    <3>4. Cardinality({r \in Holders : lim[r].conc <= l.conc}) = 0
      BY <3>1, <3>3, Zenon
    <3> QED
      BY <3>2, <3>4
  <2> QED
    BY <2>1 DEF WithinLimits
<1>5. NoLostWakeup
  BY DEF Init, NoLostWakeup
<1> QED
  BY <1>1, <1>3, <1>4, <1>5 DEF SlotInv

LEMMA NextSlot ==
  ASSUME SlotInv, [Next]_vars
  PROVE  SlotInv'
<1>1. CASE \E r \in Requests : Take(r) \/ Return(r) \/ Hold(r) \/ Idle(r) \/ Queue(r)
                               \/ GiveUp(r) \/ Begin(r)
  BY <1>1, TakeKeeps, ReturnKeeps, OthersKeep
<1>2. CASE Configure
  <2>1. Holders' = Holders
    BY <1>2 DEF Configure, Holders
  <2>2. SlotsAreHeld' /\ WithinLimits'
    BY <1>2, <2>1, CountsKept DEF Configure
  <2> QED
    BY <1>2, <2>2 DEF Configure, SlotInv, SlotTypeOK, NoLostWakeup
<1>3. CASE UNCHANGED slotVars
  <2>1. Holders' = Holders
    BY <1>3 DEF slotVars, Holders
  <2>2. SlotsAreHeld' /\ WithinLimits'
    BY <1>3, <2>1, CountsKept DEF slotVars
  <2> QED
    BY <1>3, <2>2 DEF slotVars, SlotInv, SlotTypeOK, NoLostWakeup
<1>4. CASE UNCHANGED vars
  BY <1>3, <1>4 DEF vars, slotVars
<1> QED
  BY <1>1, <1>2, <1>3, <1>4, StepIsSlotStep DEF SlotStep

LEMMA SlotsCorrect == Spec => [](SlotsAreHeld /\ WithinLimits /\ NoLostWakeup)
<1>1. SlotInv => SlotsAreHeld /\ WithinLimits /\ NoLostWakeup
  BY DEF SlotInv
<1> QED
  BY <1>1, InitSlot, NextSlot, PTL DEF Spec

\* The concurrency limiter loses no slot and gives none back twice, whatever
\* the number of requests and however the limits are edited.
THEOREM SlotsHeld == Spec => []SlotsAreHeld
BY SlotsCorrect, PTL

\* No request joins a channel that is full for it.
THEOREM LimitsKept == Spec => []WithinLimits
BY SlotsCorrect, PTL

\* No release passes a waiting probe by.
THEOREM WakeupsArrive == Spec => []NoLostWakeup
BY SlotsCorrect, PTL

-----------------------------------------------------------------------------
(* Events in the order of their time *)

\* What Younger leaves out is exactly a beginning of the sequence.
LEMMA YoungerIsSuffix ==
  ASSUME NEW s \in Seq(Nat), OldestFirst(s), NEW b \in Nat
  PROVE  \E n \in 0..Len(s) :
           /\ Younger(s, b) = SubSeq(s, n + 1, Len(s))
           /\ \A i \in 1..Len(s) : i <= n <=> s[i] >= b
<1> DEFINE N == Len(s)
           old == {i \in DOMAIN s : s[i] >= b}
           n == Cardinality(old)
<1>1. N \in Nat /\ DOMAIN s = 1..N /\ \A i \in 1..N : s[i] \in Nat
  OBVIOUS
<1>2. IsFiniteSet(1..N) /\ Cardinality(1..N) = N
  BY <1>1, FS_Interval
<1>3. IsFiniteSet(old) /\ n \in 0..N
  <2>1. old \subseteq 1..N
    BY <1>1
  <2>2. IsFiniteSet(old) /\ Cardinality(old) <= Cardinality(1..N)
    BY <1>2, <2>1, FS_Subset
  <2>3. Cardinality(old) \in Nat
    BY <2>2, FS_CardinalityType
  <2> QED BY <1>1, <1>2, <2>2, <2>3
<1>4. \A i \in old : i <= n
  <2> SUFFICES ASSUME NEW j \in old
               PROVE  j <= n
    OBVIOUS
  <2>1. j \in 1..N /\ s[j] >= b
    BY <1>1
  <2>2. 1..j \subseteq old
    <3> SUFFICES ASSUME NEW i \in 1..j
                 PROVE  i \in 1..N /\ s[i] >= b
      BY <1>1
    <3>1. i \in 1..N /\ i <= j
      BY <1>1, <2>1
    <3>2. s[i] >= s[j]
      BY <1>1, <2>1, <3>1 DEF OldestFirst
    <3> QED BY <1>1, <2>1, <3>1, <3>2
  <2>3. j \in Nat /\ IsFiniteSet(1..j) /\ Cardinality(1..j) = j
    BY <1>1, <2>1, FS_Interval
  <2>4. Cardinality(1..j) <= Cardinality(old)
    BY <1>3, <2>2, FS_Subset
  <2> QED BY <2>3, <2>4
<1>5. old = 1..n
  <2>1. old \subseteq 1..n
    BY <1>1, <1>3, <1>4
  <2>2. IsFiniteSet(1..n) /\ Cardinality(1..n) = n
    BY <1>3, FS_Interval
  <2> QED BY <2>1, <2>2, FS_Subset
<1>6. Younger(s, b) = SubSeq(s, n + 1, N)
  BY DEF Younger
<1>7. \A i \in 1..N : i <= n <=> s[i] >= b
  <2> SUFFICES ASSUME NEW i \in 1..N
               PROVE  i <= n <=> i \in old
    BY <1>1
  <2> QED BY <1>3, <1>5
<1> HIDE DEF n
<1> QED BY <1>3, <1>6, <1>7

\* The elements of a suffix.
LEMMA SuffixElements ==
  ASSUME NEW S, NEW s \in Seq(S), NEW n \in 0..Len(s)
  PROVE  /\ SubSeq(s, n + 1, Len(s)) \in Seq(S)
         /\ Len(SubSeq(s, n + 1, Len(s))) = Len(s) - n
         /\ \A i \in 1..(Len(s) - n) : SubSeq(s, n + 1, Len(s))[i] = s[n + i]
OBVIOUS

\* What Younger keeps is still a sequence of events, all of them young.
LEMMA YoungerKeeps ==
  ASSUME NEW S \in SUBSET Nat, NEW s \in Seq(S), OldestFirst(s), NEW b \in Nat
  PROVE  /\ Younger(s, b) \in Seq(S) /\ OldestFirst(Younger(s, b))
         /\ \A i \in DOMAIN Younger(s, b) : Younger(s, b)[i] < b
<1>1. s \in Seq(Nat) /\ Len(s) \in Nat /\ DOMAIN s = 1..Len(s) /\ \A i \in 1..Len(s) : s[i] \in Nat
  <2>1. s \in Seq(Nat)
    BY SeqMonotonic
  <2> QED BY <2>1
<1>2. PICK n \in 0..Len(s) :
        /\ Younger(s, b) = SubSeq(s, n + 1, Len(s))
        /\ \A i \in 1..Len(s) : i <= n <=> s[i] >= b
  BY <1>1, YoungerIsSuffix
<1>3. PICK y : y = Younger(s, b)
  OBVIOUS
<1>4. y \in Seq(S) /\ Len(y) = Len(s) - n /\ \A i \in 1..(Len(s) - n) : y[i] = s[n + i]
  BY <1>2, <1>3, SuffixElements
<1>5. DOMAIN y = 1..(Len(s) - n)
  BY <1>4
<1>6. ASSUME NEW i \in 1..(Len(s) - n)
      PROVE  n + i \in 1..Len(s) /\ ~(n + i <= n)
  BY <1>1, <1>2
<1>7. \A i \in DOMAIN y : y[i] < b
  <2> SUFFICES ASSUME NEW i \in 1..(Len(s) - n)
               PROVE  s[n + i] < b
    BY <1>4, <1>5
  <2>1. ~(s[n + i] >= b) /\ s[n + i] \in Nat
    BY <1>1, <1>2, <1>6
  <2> QED BY <2>1
<1>8. OldestFirst(y)
  <2> SUFFICES ASSUME NEW i \in 1..(Len(s) - n), NEW j \in 1..(Len(s) - n), i <= j
               PROVE  s[n + i] >= s[n + j]
    BY <1>4, <1>5 DEF OldestFirst
  <2>1. n + i <= n + j
    BY <1>1, <1>2
  <2> QED BY <1>1, <1>6, <2>1 DEF OldestFirst
<1> QED BY <1>3, <1>4, <1>7, <1>8

\* A split into old and young events is what Younger does.
LEMMA YoungerIsUnique ==
  ASSUME NEW s \in Seq(Nat), OldestFirst(s), NEW b \in Nat, NEW n \in 0..Len(s),
         \A i \in 1..Len(s) : i <= n <=> s[i] >= b
  PROVE  Younger(s, b) = SubSeq(s, n + 1, Len(s))
<1>1. PICK m \in 0..Len(s) :
        /\ Younger(s, b) = SubSeq(s, m + 1, Len(s))
        /\ \A i \in 1..Len(s) : i <= m <=> s[i] >= b
  BY YoungerIsSuffix
<1>2. Len(s) \in Nat
  OBVIOUS
<1>3. m <= n
  <2>1. CASE m = 0
    BY <2>1
  <2>2. CASE m # 0
    <3>1. m \in 1..Len(s) /\ m <= m
      BY <1>2, <2>2
    <3> QED BY <1>1, <3>1
  <2> QED BY <2>1, <2>2
<1>4. n <= m
  <2>1. CASE n = 0
    BY <2>1
  <2>2. CASE n # 0
    <3>1. n \in 1..Len(s) /\ n <= n
      BY <1>2, <2>2
    <3> QED BY <1>1, <3>1
  <2> QED BY <2>1, <2>2
<1>5. m = n
  BY <1>2, <1>3, <1>4
<1> QED BY <1>1, <1>5

\* Nothing is taken from events that are all young.
LEMMA YoungerOfYoung ==
  ASSUME NEW s \in Seq(Nat), OldestFirst(s), NEW b \in Nat, \A i \in DOMAIN s : s[i] < b
  PROVE  Younger(s, b) = s
<1>1. Len(s) \in Nat /\ DOMAIN s = 1..Len(s) /\ \A i \in 1..Len(s) : s[i] \in Nat
  OBVIOUS
<1>2. \A i \in 1..Len(s) : i <= 0 <=> s[i] >= b
  BY <1>1
<1>3. Younger(s, b) = SubSeq(s, 0 + 1, Len(s))
  BY <1>1, <1>2, YoungerIsUnique
<1> QED BY <1>3

\* A request of this moment is the youngest.
LEMMA AppendNow ==
  ASSUME NEW s \in Seq(Nat), OldestFirst(s)
  PROVE  /\ OldestFirst(Append(s, 0))
         /\ \A b \in Nat \ {0} : (\A i \in DOMAIN s : s[i] < b)
              => \A i \in DOMAIN Append(s, 0) : Append(s, 0)[i] < b
<1>1. Len(s) \in Nat /\ DOMAIN s = 1..Len(s) /\ DOMAIN Append(s, 0) = 1..(Len(s) + 1)
      /\ Append(s, 0)[Len(s) + 1] = 0 /\ \A i \in 1..Len(s) : s[i] \in Nat /\ Append(s, 0)[i] = s[i]
  OBVIOUS
<1>2. OldestFirst(Append(s, 0))
  <2> SUFFICES ASSUME NEW i \in 1..(Len(s) + 1), NEW j \in 1..(Len(s) + 1), i <= j
               PROVE  Append(s, 0)[i] >= Append(s, 0)[j]
    BY <1>1 DEF OldestFirst
  <2>1. CASE j = Len(s) + 1
    <3>1. Append(s, 0)[j] = 0
      BY <1>1, <2>1
    <3>2. Append(s, 0)[i] \in Nat
      BY <1>1
    <3> QED BY <3>1, <3>2
  <2>2. CASE j # Len(s) + 1
    <3>1. i \in 1..Len(s) /\ j \in 1..Len(s)
      BY <1>1, <2>2
    <3> QED BY <1>1, <3>1 DEF OldestFirst
  <2> QED BY <2>1, <2>2
<1> QED BY <1>1, <1>2

\* A tick makes every event older, and none of them overtakes another.
Aged(s) == [i \in DOMAIN s |-> Older(s[i])]

LEMMA AgedKeeps ==
  ASSUME NEW s \in Seq(0..Window), OldestFirst(s)
  PROVE  /\ Aged(s) \in Seq(0..Window) /\ OldestFirst(Aged(s)) /\ Len(Aged(s)) = Len(s)
         /\ \A i \in 1..Len(s) : Aged(s)[i] = Older(s[i])
<1>1. Len(s) \in Nat /\ DOMAIN s = 1..Len(s) /\ (\A i \in 1..Len(s) : s[i] \in 0..Window)
      /\ Window \in Nat
  BY LimitsAssumption
<1>2. DOMAIN Aged(s) = 1..Len(s) /\ \A i \in 1..Len(s) : Aged(s)[i] = Older(s[i])
  BY <1>1 DEF Aged
<1>3. \A i \in 1..Len(s) : Older(s[i]) \in 0..Window
  BY <1>1 DEF Older
<1>4. Aged(s) = [i \in 1..Len(s) |-> Older(s[i])]
  BY <1>1 DEF Aged
<1>5. Aged(s) \in Seq(0..Window) /\ Len(Aged(s)) = Len(s)
  BY <1>1, <1>3, <1>4
<1>6. OldestFirst(Aged(s))
  <2> SUFFICES ASSUME NEW i \in 1..Len(s), NEW j \in 1..Len(s), i <= j
               PROVE  Older(s[i]) >= Older(s[j])
    BY <1>2 DEF OldestFirst
  <2>1. s[i] >= s[j]
    BY <1>1 DEF OldestFirst
  <2> QED BY <1>1, <2>1 DEF Older
<1> QED BY <1>2, <1>5, <1>6

\* It does not matter whether the old events are dropped before the tick.
LEMMA YoungerOfAged ==
  ASSUME NEW s \in Seq(0..Window), OldestFirst(s)
  PROVE  Younger(Aged(Younger(s, Window)), Window) = Younger(Aged(s), Window)
<1>1. Window \in Nat /\ Len(s) \in Nat /\ \A i \in 1..Len(s) : s[i] \in 0..Window
  BY LimitsAssumption
<1>2. s \in Seq(Nat) /\ 0..Window \in SUBSET Nat
  BY <1>1, SeqMonotonic
<1>3. PICK n \in 0..Len(s) :
        /\ Younger(s, Window) = SubSeq(s, n + 1, Len(s))
        /\ \A i \in 1..Len(s) : i <= n <=> s[i] >= Window
  BY <1>1, <1>2, YoungerIsSuffix
<1>4. PICK y : y = Younger(s, Window)
  OBVIOUS
<1>5. y \in Seq(0..Window) /\ OldestFirst(y)
  BY <1>1, <1>2, <1>4, YoungerKeeps
<1>6. Len(y) = Len(s) - n /\ \A i \in 1..(Len(s) - n) : y[i] = s[n + i]
  BY <1>3, <1>4, SuffixElements
<1>7. PICK a : a = Aged(s)
  OBVIOUS
<1>8. a \in Seq(0..Window) /\ OldestFirst(a) /\ Len(a) = Len(s) /\ \A i \in 1..Len(s) : a[i] = Older(s[i])
  BY <1>7, AgedKeeps
<1>9. PICK g : g = Aged(y)
  OBVIOUS
<1>10. g \in Seq(0..Window) /\ OldestFirst(g) /\ Len(g) = Len(s) - n
       /\ \A i \in 1..(Len(s) - n) : g[i] = a[n + i]
  <2>1. g \in Seq(0..Window) /\ OldestFirst(g) /\ Len(g) = Len(y) /\ \A i \in 1..Len(y) : g[i] = Older(y[i])
    BY <1>5, <1>9, AgedKeeps
  <2>2. ASSUME NEW i \in 1..(Len(s) - n)
        PROVE  g[i] = a[n + i]
    <3>1. n + i \in 1..Len(s)
      BY <1>1, <1>3
    <3> QED BY <1>6, <1>8, <2>1, <3>1
  <2> QED BY <1>6, <2>1, <2>2
<1>11. a \in Seq(Nat) /\ g \in Seq(Nat)
  BY <1>1, <1>8, <1>10, SeqMonotonic
<1>12. PICK m \in 0..Len(s) :
         /\ Younger(a, Window) = SubSeq(a, m + 1, Len(s))
         /\ \A i \in 1..Len(s) : i <= m <=> a[i] >= Window
  BY <1>1, <1>8, <1>11, YoungerIsSuffix
<1>13. n <= m
  <2>1. CASE n = 0
    BY <2>1
  <2>2. CASE n # 0
    <3>1. n \in 1..Len(s) /\ s[n] = Window
      BY <1>1, <1>3, <2>2
    <3>2. a[n] = Window
      BY <1>1, <1>8, <3>1 DEF Older
    <3> QED BY <1>1, <1>12, <3>1, <3>2
  <2> QED BY <2>1, <2>2
<1>14. m - n \in 0..Len(g) /\ \A i \in 1..Len(g) : i <= m - n <=> g[i] >= Window
  <2>1. m - n \in 0..Len(g)
    BY <1>1, <1>3, <1>10, <1>12, <1>13
  <2>2. ASSUME NEW i \in 1..Len(g)
        PROVE  i <= m - n <=> g[i] >= Window
    <3>1. n + i \in 1..Len(s) /\ i \in 1..(Len(s) - n) /\ (i <= m - n <=> n + i <= m)
      BY <1>1, <1>3, <1>10, <1>12
    <3> QED BY <1>10, <1>12, <3>1
  <2> QED BY <2>1, <2>2
<1>15. Younger(g, Window) = SubSeq(g, (m - n) + 1, Len(g))
  BY <1>1, <1>10, <1>11, <1>14, YoungerIsUnique
<1>16. SubSeq(g, (m - n) + 1, Len(g)) = SubSeq(a, m + 1, Len(s))
  <2>1. PICK p, q : p = SubSeq(g, (m - n) + 1, Len(g)) /\ q = SubSeq(a, m + 1, Len(a))
    OBVIOUS
  <2>2. p \in Seq(Nat) /\ Len(p) = Len(g) - (m - n) /\ \A i \in 1..(Len(g) - (m - n)) : p[i] = g[(m - n) + i]
    BY <1>11, <1>14, <2>1, SuffixElements
  <2>3. q \in Seq(Nat) /\ Len(q) = Len(a) - m /\ \A i \in 1..(Len(a) - m) : q[i] = a[m + i]
    BY <1>8, <1>11, <1>12, <2>1, SuffixElements
  <2>4. Len(p) = Len(s) - m /\ Len(q) = Len(s) - m
    BY <1>1, <1>3, <1>8, <1>10, <1>12, <2>2, <2>3
  <2>5. ASSUME NEW i \in 1..(Len(s) - m)
        PROVE  p[i] = q[i]
    <3>1. i \in 1..(Len(g) - (m - n)) /\ (m - n) + i \in 1..(Len(s) - n) /\ n + ((m - n) + i) = m + i
          /\ i \in 1..(Len(a) - m)
      BY <1>1, <1>3, <1>8, <1>10, <1>12, <1>13
    <3> QED BY <1>10, <2>2, <2>3, <3>1
  <2>6. p = q
    BY <2>2, <2>3, <2>4, <2>5, SeqEqual
  <2> QED BY <1>8, <2>1, <2>6
<1> QED BY <1>4, <1>7, <1>9, <1>12, <1>15, <1>16

-----------------------------------------------------------------------------
(* The minute *)

\* What a request that asks for its place finds, whatever has been dropped.
MinuteInv ==
  /\ wait \in [Requests -> 0..Window]
  /\ events \in Seq(0..Window) /\ OldestFirst(events)
  /\ recent \in Seq(0..Window) /\ OldestFirst(recent)
  /\ \A i \in DOMAIN recent : recent[i] < Window
  /\ ~deleted => recent = Fresh(events)

\* The parts of Reserve that change the minute.
Admit(r) ==
  /\ lim[r].rpm # 0 /\ Len(Fresh(events)) < lim[r].rpm
  /\ events' = Append(Fresh(events), 0) /\ recent' = Append(recent, 0)
  /\ stage' = [stage EXCEPT ![r] = "sending"] /\ wait' = wait

Refuse(r) ==
  /\ lim[r].rpm # 0 /\ Len(Fresh(events)) >= lim[r].rpm
  /\ events' = Fresh(events) /\ recent' = recent
  /\ stage' = [stage EXCEPT ![r] = "refused"]
  /\ wait' = [wait EXCEPT ![r] = RetryAfter(Fresh(events), lim[r].rpm)]

\* The events of the minute, as every step of the limiter computes them.
LEMMA FreshEvents ==
  ASSUME MinuteInv
  PROVE  /\ Window \in Nat \ {0}
         /\ Fresh(events) \in Seq(0..Window) /\ OldestFirst(Fresh(events))
         /\ \A i \in DOMAIN Fresh(events) : Fresh(events)[i] < Window
         /\ Fresh(Fresh(events)) = Fresh(events)
<1>1. Window \in Nat \ {0} /\ 0..Window \in SUBSET Nat
  BY LimitsAssumption
<1>2. PICK f : f = Fresh(events)
  OBVIOUS
<1>3. f \in Seq(0..Window) /\ OldestFirst(f) /\ \A i \in DOMAIN f : f[i] < Window
  BY <1>1, <1>2, YoungerKeeps DEF MinuteInv, Fresh
<1>4. Fresh(f) = f
  BY <1>1, <1>3, SeqMonotonic, YoungerOfYoung DEF Fresh
<1> QED BY <1>1, <1>2, <1>3, <1>4

\* How long a refused request waits is within the minute.
LEMMA RetryInMinute ==
  ASSUME MinuteInv, NEW limit \in Nat \ {0}, Len(Fresh(events)) >= limit
  PROVE  RetryAfter(Fresh(events), limit) \in 0..Window
<1>1. PICK f : f = Fresh(events)
  OBVIOUS
<1>2. f \in Seq(0..Window) /\ Len(f) \in Nat /\ Len(f) >= limit /\ Window \in Nat
  BY <1>1, FreshEvents
<1>3. Len(f) - limit + 1 \in 1..Len(f)
  BY <1>2
<1>4. f[Len(f) - limit + 1] \in 0..Window
  BY <1>2, <1>3
<1> QED BY <1>1, <1>2, <1>4 DEF RetryAfter

LEMMA AdmitKeeps ==
  ASSUME MinuteInv, NEW r \in Requests, Admit(r), deleted' = deleted
  PROVE  MinuteInv'
<1>1. PICK f : f = Fresh(events)
  OBVIOUS
<1>2. Window \in Nat \ {0} /\ f \in Seq(0..Window) /\ OldestFirst(f) /\ \A i \in DOMAIN f : f[i] < Window
  BY <1>1, FreshEvents
<1>3. recent \in Seq(0..Window) /\ OldestFirst(recent) /\ \A i \in DOMAIN recent : recent[i] < Window
  BY DEF MinuteInv
<1>4. events' = Append(f, 0) /\ recent' = Append(recent, 0) /\ wait' = wait
  BY <1>1 DEF Admit
<1>5. 0 \in 0..Window /\ 0..Window \in SUBSET Nat
  BY <1>2
<1>6. events' \in Seq(0..Window) /\ OldestFirst(events') /\ \A i \in DOMAIN events' : events'[i] < Window
  BY <1>2, <1>4, <1>5, SeqMonotonic, AppendNow
<1>7. recent' \in Seq(0..Window) /\ OldestFirst(recent') /\ \A i \in DOMAIN recent' : recent'[i] < Window
  BY <1>2, <1>3, <1>4, <1>5, SeqMonotonic, AppendNow
<1>8. Younger(events', Window) = events'
  BY <1>2, <1>5, <1>6, SeqMonotonic, YoungerOfYoung
<1>9. ~deleted => recent' = events'
  BY <1>1, <1>4 DEF MinuteInv
<1> QED BY <1>4, <1>6, <1>7, <1>8, <1>9 DEF MinuteInv, Fresh

LEMMA RefuseKeeps ==
  ASSUME MinuteInv, SlotTypeOK, NEW r \in Requests, Refuse(r), deleted' = deleted
  PROVE  MinuteInv'
<1>1. lim[r].rpm \in Nat \ {0}
  BY LimitsAssumption DEF SlotTypeOK, Refuse
<1>2. RetryAfter(Fresh(events), lim[r].rpm) \in 0..Window
  BY <1>1, RetryInMinute DEF Refuse
<1>3. wait' \in [Requests -> 0..Window]
  BY <1>2 DEF Refuse, MinuteInv
<1>4. events' = Fresh(events) /\ recent' = recent
  BY DEF Refuse
<1>5. Fresh(events') = Fresh(events)
  BY <1>4, FreshEvents
<1>6. events' \in Seq(0..Window) /\ OldestFirst(events')
  BY <1>4, FreshEvents
<1> QED BY <1>3, <1>4, <1>5, <1>6 DEF MinuteInv

LEMMA SweepKeeps ==
  ASSUME MinuteInv, CleanupExpired
  PROVE  MinuteInv'
<1>1. events' = Fresh(events) /\ UNCHANGED <<recent, wait, deleted>>
  BY DEF CleanupExpired, reqVars
<1>2. Fresh(events') = Fresh(events) /\ events' \in Seq(0..Window) /\ OldestFirst(events')
  BY <1>1, FreshEvents
<1> QED BY <1>1, <1>2 DEF MinuteInv

LEMMA TickKeeps ==
  ASSUME MinuteInv, Tick
  PROVE  MinuteInv'
<1>1. Window \in Nat /\ 0..Window \in SUBSET Nat
  BY LimitsAssumption
<1>2. events \in Seq(0..Window) /\ OldestFirst(events) /\ recent \in Seq(0..Window) /\ OldestFirst(recent)
      /\ wait \in [Requests -> 0..Window] /\ (~deleted => recent = Younger(events, Window))
  BY DEF MinuteInv, Fresh
<1>3. events' = Aged(events) /\ recent' = Younger(Aged(recent), Window) /\ deleted' = deleted
  BY DEF Tick, Aged
<1>4. wait' \in [Requests -> 0..Window]
  <2>1. wait' = [r \in Requests |-> IF stage[r] = "sleeping" /\ wait[r] > 0 THEN wait[r] - 1 ELSE wait[r]]
    BY DEF Tick
  <2>2. ASSUME NEW r \in Requests
        PROVE  (IF stage[r] = "sleeping" /\ wait[r] > 0 THEN wait[r] - 1 ELSE wait[r]) \in 0..Window
    <3>1. wait[r] \in 0..Window
      BY <1>2
    <3> QED BY <1>1, <3>1
  <2> QED BY <2>1, <2>2
<1>5. events' \in Seq(0..Window) /\ OldestFirst(events')
  BY <1>2, <1>3, AgedKeeps
<1>6. PICK a : a = Aged(recent)
  OBVIOUS
<1>7. a \in Seq(0..Window) /\ OldestFirst(a)
  BY <1>2, <1>6, AgedKeeps
<1>8. recent' \in Seq(0..Window) /\ OldestFirst(recent') /\ \A i \in DOMAIN recent' : recent'[i] < Window
  BY <1>1, <1>3, <1>6, <1>7, YoungerKeeps
<1>9. ~deleted => recent' = Younger(events', Window)
  BY <1>2, <1>3, YoungerOfAged
<1> QED BY <1>3, <1>4, <1>5, <1>8, <1>9 DEF MinuteInv, Fresh

LEMMA InitMinute == Init => MinuteInv
<1> SUFFICES ASSUME Init
             PROVE  MinuteInv
  OBVIOUS
<1>1. Window \in Nat \ {0} /\ events \in Seq(0..Window-1) /\ OldestFirst(events) /\ recent = events
  BY LimitsAssumption DEF Init
<1>2. Len(events) \in Nat /\ DOMAIN events = 1..Len(events)
      /\ (\A i \in 1..Len(events) : events[i] \in 0..Window-1)
      /\ events = [i \in 1..Len(events) |-> events[i]]
  BY <1>1
<1>3. \A i \in 1..Len(events) : events[i] \in 0..Window /\ events[i] < Window
  BY <1>1, <1>2
<1>4. events \in Seq(0..Window)
  <2>1. 0..Window-1 \subseteq 0..Window
    BY <1>1
  <2> QED BY <1>1, <2>1, SeqMonotonic
<1>5. Fresh(events) = events
  <2>1. 0..Window \in SUBSET Nat
    BY <1>1
  <2> QED BY <1>1, <1>2, <1>3, <1>4, <2>1, SeqMonotonic, YoungerOfYoung DEF Fresh
<1>6. wait \in [Requests -> 0..Window]
  BY <1>1 DEF Init
<1> QED BY <1>1, <1>2, <1>3, <1>4, <1>5, <1>6 DEF MinuteInv

\* The steps that leave the minute alone.
LEMMA MinuteUntouched ==
  ASSUME MinuteInv, UNCHANGED <<events, recent, wait>>, deleted' = deleted
  PROVE  MinuteInv'
BY DEF MinuteInv, Fresh

LEMMA ReserveCases ==
  ASSUME NEW r \in Requests, Reserve(r)
  PROVE  deleted' = deleted /\ (Admit(r) \/ Refuse(r) \/ UNCHANGED <<events, recent, wait>>)
BY DEF Reserve, Admit, Refuse, Goto

LEMMA NextMinute ==
  ASSUME SlotTypeOK, MinuteInv, [Next]_vars
  PROVE  MinuteInv'
<1>1. CASE UNCHANGED vars
  BY <1>1, MinuteUntouched DEF vars
<1>2. ASSUME NEW r \in Requests, Reserve(r)
      PROVE  MinuteInv'
  BY <1>2, ReserveCases, AdmitKeeps, RefuseKeeps, MinuteUntouched
<1>3. ASSUME NEW r \in Requests,
             (\E k \in Kinds : Start(r, k)) \/ Cancel(r) \/ (RequestStep(r) /\ ~Reserve(r))
      PROVE  MinuteInv'
  <2>1. UNCHANGED <<events, recent, wait, deleted>>
    BY <1>3 DEF Start, Cancel, RequestStep, Acquire, Reject, Block, Wake, GiveBack, StartTimer,
         TimerFires, SendFails, Respond, CloseBody, CloseAgain, Goto
  <2> QED BY <2>1, MinuteUntouched
<1>4. CASE CleanupExpired
  BY <1>4, SweepKeeps
<1>5. CASE \E new \in Limits : EditLimits(new)
  BY <1>5, MinuteUntouched DEF EditLimits, reqVars
<1>6. CASE DeleteChannel
  <2>1. events' = << >> /\ deleted' = TRUE /\ UNCHANGED <<recent, wait>>
    BY <1>6 DEF DeleteChannel, reqVars
  <2>2. events' \in Seq(0..Window) /\ OldestFirst(events')
    BY <2>1 DEF OldestFirst
  <2> QED BY <2>1, <2>2 DEF MinuteInv
<1>7. CASE Tick
  BY <1>7, TickKeeps
<1> QED BY <1>1, <1>2, <1>3, <1>4, <1>5, <1>6, <1>7 DEF Next, RequestStep

-----------------------------------------------------------------------------
(* What the answers say *)

\* Only asking for a place takes a request on from its slot.
LEMMA LeavesSlotByReserve ==
  ASSUME SlotTypeOK, Next, NEW r \in Requests, stage[r] = "slot", stage'[r] # "slot"
  PROVE  Reserve(r)
<1>1. stage \in [Requests -> Stages]
  BY DEF SlotTypeOK
<1>2. ASSUME NEW q \in Requests, q # r,
             (\E k \in Kinds : Start(q, k)) \/ RequestStep(q) \/ Cancel(q)
      PROVE  stage'[r] = stage[r]
  <2>1. \E s : stage' = [stage EXCEPT ![q] = s]
    BY <1>2 DEF Start, Cancel, RequestStep, Acquire, Reject, Block, Wake, Reserve, GiveBack,
         StartTimer, TimerFires, SendFails, Respond, CloseBody, CloseAgain, Goto
  <2> QED BY <1>1, <1>2, <2>1
<1>3. ASSUME (\E k \in Kinds : Start(r, k)) \/ Cancel(r) \/ (RequestStep(r) /\ ~Reserve(r))
      PROVE  FALSE
  BY <1>3 DEF Start, Cancel, RequestStep, Acquire, Reject, Block, Wake, GiveBack, StartTimer,
       TimerFires, SendFails, Respond, CloseBody, CloseAgain
<1>4. ASSUME CleanupExpired \/ (\E new \in Limits : EditLimits(new)) \/ DeleteChannel \/ Tick
      PROVE  FALSE
  BY <1>4 DEF CleanupExpired, EditLimits, DeleteChannel, Tick, reqVars
<1> QED BY <1>2, <1>3, <1>4 DEF Next

\* The request that is admitted now is the last one that fits.
LEMMA AdmittedFits ==
  ASSUME SlotTypeOK, MinuteInv, NEW r \in Requests, Reserve(r),
         stage[r] = "slot", stage'[r] = "sending", lim[r].rpm > 0, ~deleted
  PROVE  Len(recent') <= lim[r].rpm
<1>1. stage \in [Requests -> Stages] /\ lim[r].rpm \in Nat
  BY LimitsAssumption DEF SlotTypeOK
<1>2. Len(Fresh(events)) < lim[r].rpm /\ recent' = Append(recent, 0)
  <2>1. stage' # [stage EXCEPT ![r] = "refused"]
    BY <1>1
  <2> QED BY <1>1, <2>1 DEF Reserve
<1>3. recent = Fresh(events) /\ recent \in Seq(0..Window)
  BY DEF MinuteInv
<1>4. PICK n \in Nat : n = Len(recent) /\ n < lim[r].rpm
  BY <1>2, <1>3
<1>5. Len(recent') = n + 1
  <2>1. 0 \in 0..Window
    BY LimitsAssumption
  <2> QED BY <1>2, <1>3, <1>4, <2>1
<1> QED BY <1>1, <1>4, <1>5

\* How many events are young enough.
LEMMA YoungerCount ==
  ASSUME NEW s \in Seq(Nat), OldestFirst(s), NEW b \in Nat, NEW p \in 1..Len(s)
  PROVE  s[p] < b <=> Len(Younger(s, b)) > Len(s) - p
<1>1. Len(s) \in Nat /\ s[p] \in Nat
  OBVIOUS
<1>2. PICK n \in 0..Len(s) :
        /\ Younger(s, b) = SubSeq(s, n + 1, Len(s))
        /\ \A i \in 1..Len(s) : i <= n <=> s[i] >= b
  BY YoungerIsSuffix
<1>3. Len(Younger(s, b)) = Len(s) - n
  BY <1>2, SuffixElements
<1>4. p <= n <=> s[p] >= b
  BY <1>2
<1> QED BY <1>1, <1>2, <1>3, <1>4

\* The event whose expiry a refused request is told to wait for is the right one.
LEMMA RefusalIsExact ==
  ASSUME SlotTypeOK, MinuteInv, NEW r \in Requests, Reserve(r),
         stage[r] = "slot", stage'[r] = "refused", ~deleted, NEW d \in 0..Window
  PROVE  d >= wait'[r] <=> Len(Younger(recent, Window - d)) < lim[r].rpm
<1>1. stage \in [Requests -> Stages] /\ lim[r].rpm \in Nat /\ wait \in [Requests -> 0..Window]
  BY LimitsAssumption DEF SlotTypeOK, MinuteInv
<1>2. Refuse(r)
  <2>1. stage' # [stage EXCEPT ![r] = "sending"]
    BY <1>1
  <2> QED BY <2>1, ReserveCases DEF Reserve, Refuse, Goto
<1>3. recent = Fresh(events) /\ recent \in Seq(0..Window) /\ OldestFirst(recent)
  BY DEF MinuteInv
<1>4. PICK limit \in Nat \ {0} : limit = lim[r].rpm
  BY <1>1, <1>2 DEF Refuse
<1>5. Len(recent) \in Nat /\ Len(recent) >= limit /\ wait'[r] = RetryAfter(recent, limit)
  BY <1>1, <1>2, <1>3, <1>4 DEF Refuse
<1>6. PICK p \in 1..Len(recent) : p = Len(recent) - limit + 1
  BY <1>5
<1>7. wait'[r] = Window - recent[p] /\ recent[p] \in 0..Window /\ Window \in Nat
  BY <1>3, <1>5, <1>6, LimitsAssumption DEF RetryAfter
<1>8. Window - d \in Nat
  BY <1>7
<1>9. recent \in Seq(Nat)
  <2>1. 0..Window \subseteq Nat
    BY <1>7
  <2> QED BY <1>3, <2>1, SeqMonotonic
<1>10. recent[p] < Window - d <=> Len(Younger(recent, Window - d)) > Len(recent) - p
  BY <1>3, <1>8, <1>9, YoungerCount
<1>11. Len(Younger(recent, Window - d)) \in Nat
  BY <1>3, <1>8, <1>9, YoungerKeeps
<1>12. d >= wait'[r] <=> ~(recent[p] < Window - d)
  BY <1>7
<1>13. Len(recent) - p = limit - 1
  BY <1>5, <1>6
<1>14. d >= wait'[r] <=> ~(Len(Younger(recent, Window - d)) > limit - 1)
  BY <1>10, <1>12, <1>13
<1> QED BY <1>4, <1>11, <1>14

\* Both invariants together hold in every state.
LEMMA MinuteCorrect == Spec => [](SlotTypeOK /\ MinuteInv)
<1>1. Init => SlotInv /\ MinuteInv
  BY InitSlot, InitMinute
<1>2. SlotInv /\ MinuteInv /\ [Next]_vars => SlotInv' /\ MinuteInv'
  BY NextSlot, NextMinute DEF SlotInv
<1>3. SlotInv /\ MinuteInv => SlotTypeOK /\ MinuteInv
  BY DEF SlotInv
<1> QED BY <1>1, <1>2, <1>3, PTL DEF Spec

\* Every variable of the admission keeps its type; a refused request is told to
\* wait for at most a minute.
THEOREM TypeCorrect == Spec => []TypeOK
<1>1. SlotTypeOK /\ MinuteInv => TypeOK
  BY DEF TypeOK, MinuteInv
<1> QED BY <1>1, MinuteCorrect, PTL

\* A request that reserve admits fits the limit it came with: with it, at most
\* that many were admitted in the last minute, however many events expired
\* lazily, were swept, or were admitted under other limits.
THEOREM MinuteIsKept == Spec => RollingMinute
<1>1. SlotTypeOK /\ MinuteInv /\ [Next]_vars
        => [\A r \in Requests :
              stage[r] = "slot" /\ stage'[r] = "sending" /\ lim[r].rpm > 0 /\ ~deleted
                => Len(recent') <= lim[r].rpm]_vars
  BY LeavesSlotByReserve, AdmittedFits
<1> QED BY <1>1, MinuteCorrect, PTL DEF Spec, RollingMinute

\* The delay that reserve names to a refused request is the time after which,
\* and not before, the minute has room for it under its limit, also when the
\* limit was lowered and several events have to expire.
THEOREM RetryIsExact == Spec => RetryIsEarliest
<1>1. SlotTypeOK /\ MinuteInv /\ [Next]_vars
        => [\A r \in Requests :
              stage[r] = "slot" /\ stage'[r] = "refused" /\ ~deleted =>
                \A d \in 0..Window :
                  d >= wait'[r] <=> Len(Younger(recent, Window - d)) < lim[r].rpm]_vars
  BY LeavesSlotByReserve, RefusalIsExact
<1> QED BY <1>1, MinuteCorrect, PTL DEF Spec, RetryIsEarliest
=============================================================================
