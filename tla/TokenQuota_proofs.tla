-------------------------- MODULE TokenQuota_proofs --------------------------
(***************************************************************************)
(* Proofs about TokenQuota, for any number of goroutines, any limits and   *)
(* any lengths of the queue and of the behaviour: the types; places are    *)
(* neither lost nor doubled; a disabled token is not served; the maps are  *)
(* never behind the ledger; what is overspent is bounded.                  *)
(***************************************************************************)
EXTENDS TokenQuota, FiniteSetTheorems, SequenceTheorems, TLAPS

-----------------------------------------------------------------------------
(* The constants, and the operators on rows and maps *)

LEMMA Bounds ==
  /\ MaxConns \in Nat \ {0} /\ QueueCap \in Nat \ {0} /\ MaxDay \in Nat
  /\ MaxRequests \in Nat /\ MaxEdits \in Nat
  /\ 0 \in Days /\ Days \subseteq Nat
  /\ Nobody # Admin /\ Nobody \notin Requests /\ Admin \notin Requests
BY QuotaAssumption DEF Days

\* Records with two fields replaced.
LEMMA GhostTorn ==
  ASSUME ghost \in Ghost, NEW p \in BOOLEAN, NEW t \in BOOLEAN,
         ghost' = [ghost EXCEPT !.gap = p, !.torn = t]
  PROVE  /\ ghost' \in Ghost /\ ghost'.gap = p /\ ghost'.torn = t
         /\ ghost'.spent = ghost.spent /\ ghost'.ceiling = ghost.ceiling
<1> DEFINE z == [ghost EXCEPT !.gap = p]
           y == [z EXCEPT !.torn = t]
<1>1. ghost' = y
  OBVIOUS
<1>2. z \in Ghost /\ z.gap = p /\ z.spent = ghost.spent /\ z.ceiling = ghost.ceiling
  BY DEF Ghost
<1> HIDE DEF z
<1>3. y \in Ghost /\ y.gap = z.gap /\ y.torn = t /\ y.spent = z.spent /\ y.ceiling = z.ceiling
  BY <1>2 DEF Ghost
<1> QED
  BY <1>1, <1>2, <1>3

LEMMA GhostCeiling ==
  ASSUME ghost \in Ghost, NEW n \in Nat, NEW t \in BOOLEAN,
         ghost' = [ghost EXCEPT !.ceiling = n, !.torn = t]
  PROVE  /\ ghost' \in Ghost /\ ghost'.gap = ghost.gap /\ ghost'.torn = t
         /\ ghost'.spent = ghost.spent /\ ghost'.ceiling = n
<1> DEFINE z == [ghost EXCEPT !.ceiling = n]
           y == [z EXCEPT !.torn = t]
<1>1. ghost' = y
  OBVIOUS
<1>2. z \in Ghost /\ z.gap = ghost.gap /\ z.spent = ghost.spent /\ z.ceiling = n
  BY DEF Ghost
<1> HIDE DEF z
<1>3. y \in Ghost /\ y.gap = z.gap /\ y.torn = t /\ y.spent = z.spent /\ y.ceiling = z.ceiling
  BY <1>2 DEF Ghost
<1> QED
  BY <1>1, <1>2, <1>3

\* What a charge of day d does to a window of day e, in the row and in the maps.
LEMMA ChargedRow ==
  ASSUME NEW x \in Row, NEW d \in Days
  PROVE  /\ Charged(x, d) \in Row
         /\ Charged(x, d).alive = x.alive
         /\ d < x.day => Charged(x, d) = x
         /\ ~(d < x.day) => /\ Charged(x, d).day = d
                            /\ Charged(x, d).used = IF d = x.day THEN x.used + 1 ELSE 1
<1> DEFINE u == IF d = x.day THEN x.used + 1 ELSE 1
<1>1. u \in Nat
  BY DEF Row
<1>2. CASE d < x.day
  BY <1>2 DEF Charged
<1>3. CASE ~(d < x.day)
  <2> DEFINE z == [x EXCEPT !.used = u]
             y == [z EXCEPT !.day = d]
  <2>1. Charged(x, d) = y
    BY <1>3 DEF Charged
  <2> HIDE DEF u
  <2>2. z \in Row /\ z.used = u /\ z.alive = x.alive
    BY <1>1 DEF Row
  <2> HIDE DEF z
  <2>3. y \in Row /\ y.used = u /\ y.day = d /\ y.alive = x.alive
    BY <2>2 DEF Row
  <2> HIDE DEF y
  <2>4. Charged(x, d) \in Row /\ Charged(x, d).alive = x.alive
        /\ Charged(x, d).day = d /\ Charged(x, d).used = u
    BY <2>1, <2>3
  <2> QED
    BY <1>3, <2>4 DEF u
<1> QED
  BY <1>2, <1>3

LEMMA ChargedCache ==
  ASSUME NEW x \in Cache, NEW d \in Days
  PROVE  /\ Charged(x, d) \in Cache
         /\ Charged(x, d).known = x.known /\ Charged(x, d).limited = x.limited
         /\ Charged(x, d).limit = x.limit
         /\ d < x.day => Charged(x, d) = x
         /\ ~(d < x.day) => /\ Charged(x, d).day = d
                            /\ Charged(x, d).used = IF d = x.day THEN x.used + 1 ELSE 1
<1> DEFINE u == IF d = x.day THEN x.used + 1 ELSE 1
<1>1. u \in Nat
  BY DEF Cache
<1>2. CASE d < x.day
  BY <1>2 DEF Charged
<1>3. CASE ~(d < x.day)
  <2> DEFINE z == [x EXCEPT !.used = u]
             y == [z EXCEPT !.day = d]
  <2>1. Charged(x, d) = y
    BY <1>3 DEF Charged
  <2> HIDE DEF u
  <2>2. z \in Cache /\ z.used = u /\ z.known = x.known /\ z.limited = x.limited /\ z.limit = x.limit
    BY <1>1 DEF Cache
  <2> HIDE DEF z
  <2>3. y \in Cache /\ y.used = u /\ y.day = d /\ y.known = x.known /\ y.limited = x.limited /\ y.limit = x.limit
    BY <2>2 DEF Cache
  <2> HIDE DEF y
  <2>4. Charged(x, d) \in Cache /\ Charged(x, d).known = x.known
        /\ Charged(x, d).limited = x.limited /\ Charged(x, d).limit = x.limit
        /\ Charged(x, d).day = d /\ Charged(x, d).used = u
    BY <2>1, <2>3
  <2> QED
    BY <1>3, <2>4 DEF u
<1> QED
  BY <1>2, <1>3

LEMMA AbsentType == Absent \in Cache
BY Bounds DEF Absent, Cache

LEMMA ListedType ==
  ASSUME row \in Row, today \in Days, passed \in BOOLEAN
  PROVE  Listed \in Cache /\ (Listed.limited => Listed.known)
<1>1. UsedOn(row, today) \in Nat
  BY DEF UsedOn, Row
<1> QED
  BY <1>1, Bounds, AbsentType DEF Listed, Row, Cache, Absent

LEMMA MergedType ==
  ASSUME NEW old \in Cache, NEW read \in Cache
  PROVE  /\ Merged(old, read) \in Cache
         /\ Merged(old, read).known = read.known
         /\ Merged(old, read).limited = read.limited
         /\ Merged(old, read).limit = read.limit
         /\ Merged(old, read).day = read.day
         /\ Merged(old, read).used >= read.used
BY DEF Merged, Larger, Cache

\* What a reload that is over, or failed, does to its handler.
LEMMA LoadedType ==
  ASSUME TypeOK, NEW ok \in BOOLEAN, Loaded(ok)
  PROVE  at' \in [Requests -> Stages] /\ admin' \in {"idle", "edited", "unsure"}
BY DEF TypeOK, Loaded, Goto, Stages

-----------------------------------------------------------------------------
(* Types *)

LEMMA TypeInit == Init => TypeOK
<1> SUFFICES ASSUME Init PROVE TypeOK
  OBVIOUS
<1>1. PICK l \in Limits, e \in BOOLEAN :
        /\ row = [alive |-> TRUE, expires |-> e, limit |-> l, used |-> 0, day |-> 0]
        /\ cache = [known |-> TRUE, expires |-> e, limited |-> l > 0, limit |-> l, used |-> 0, day |-> 0]
        /\ ghost = [spent |-> 0, ceiling |-> 0, gap |-> l = 0, torn |-> l = 0]
  BY DEF Init
<1>2. l \in Nat
  BY QuotaAssumption
<1>3. row \in Row /\ cache \in Cache /\ ghost \in Ghost /\ (cache.limited => cache.known)
  BY <1>1, <1>2, Bounds DEF Row, Cache, Ghost
<1>4. loader \in [who : Requests \cup {Admin, Nobody}, read : Cache, quiet : BOOLEAN]
  BY AbsentType DEF Init, NoLoader
<1>5. queue \in Seq(Days) /\ Len(queue) <= QueueCap
  BY Bounds DEF Init
<1> QED
  <2>1. ~loader.read.limited
    BY DEF Init, NoLoader, Absent
  <2>2. count \in [requests : 0..MaxRequests, edits : 0..MaxEdits]
    BY Bounds DEF Init
  <2>3. hand \in [stage : HandStages, day : Days] /\ at \in [Requests -> Stages]
    BY Bounds DEF Init, HandStages, Stages
  <2> QED
    BY <1>3, <1>4, <1>5, <2>1, <2>2, <2>3, Bounds DEF Init, TypeOK

LEMMA TypeNext == TypeOK /\ [Next]_vars => TypeOK'
<1> SUFFICES ASSUME TypeOK, [Next]_vars PROVE TypeOK'
  OBVIOUS
<1> USE Bounds
<1>1. ASSUME NEW r \in Requests, RequestStep(r) PROVE TypeOK'
  <2>1. CASE Arrive(r)
    <3>1. at' \in [Requests -> Stages]
      BY <2>1 DEF TypeOK, Arrive, Goto, Stages
    <3>2. count' \in [requests : 0..MaxRequests, edits : 0..MaxEdits]
      BY <2>1, SMTT(40) DEF TypeOK, Arrive
    <3> QED
      BY <2>1, <3>1, <3>2 DEF TypeOK, Arrive
  <2>2. CASE Refreshed(r)
    BY <2>2 DEF TypeOK, Refreshed, Goto, Stages
  <2>3. CASE Resolve(r)
    BY <2>3 DEF TypeOK, Resolve, Goto, Stages
  <2>4. CASE Evict(r)
    BY <2>4, AbsentType DEF TypeOK, Evict, Goto, Stages, Ghost, Absent
  <2>5. CASE TakeSlot(r)
    BY <2>5 DEF TypeOK, TakeSlot, Goto, Stages
  <2>6. CASE CheckCost(r)
    <3>1. ghost' \in Ghost
      BY <2>6, ZenonT(60) DEF TypeOK, CheckCost, Ghost, Larger, Cache
    <3>2. active' \in Nat /\ at' \in [Requests -> Stages]
      BY <2>6 DEF TypeOK, CheckCost, Release, Goto, Stages
    <3> QED
      BY <2>6, <3>1, <3>2 DEF TypeOK, CheckCost
  <2>7. CASE Finish(r)
    <3>1. queue' \in Seq(Days) /\ Len(queue') = Len(queue) + 1
      BY <2>7, AppendProperties DEF TypeOK, Finish
    <3>2. Len(queue) \in Nat
      BY LenProperties DEF TypeOK
    <3>3. ghost' \in Ghost
      <4>1. ghost' = [ghost EXCEPT !.spent = ghost.spent + 1] /\ ghost \in Ghost
        BY <2>7 DEF TypeOK, Finish
      <4> QED
        BY <4>1 DEF Ghost
    <3>4. at' \in [Requests -> Stages]
      BY <2>7 DEF TypeOK, Finish, Goto, Stages
    <3> QED
      BY <2>7, <3>1, <3>2, <3>3, <3>4 DEF TypeOK, Finish
  <2>8. CASE FinishUncharged(r)
    BY <2>8 DEF TypeOK, FinishUncharged, Goto, Stages
  <2>9. CASE Leave(r)
    BY <2>9 DEF TypeOK, Leave, Release, Goto, Stages
  <2> QED
    BY <1>1, <2>1, <2>2, <2>3, <2>4, <2>5, <2>6, <2>7, <2>8, <2>9 DEF RequestStep
<1>2. CASE TakeCharge
  <2>1. Head(queue) \in Days /\ queue' \in Seq(Days) /\ Len(queue') = Len(queue) - 1
    BY <1>2, HeadTailProperties DEF TypeOK, TakeCharge
  <2>2. Len(queue) \in Nat
    BY LenProperties DEF TypeOK
  <2> QED
    BY <1>2, <2>1, <2>2 DEF TypeOK, TakeCharge, HandStages
<1>3. CASE AddCostToCache
  <2>1. cache' \in Cache /\ (cache'.limited => cache'.known)
    BY <1>3, ChargedCache DEF TypeOK, AddCostToCache
  <2>2. ghost' \in Ghost /\ hand' \in [stage : HandStages, day : Days]
    BY <1>3 DEF TypeOK, AddCostToCache, Ghost, HandStages
  <2> QED
    BY <1>3, <2>1, <2>2 DEF TypeOK, AddCostToCache
<1>4. CASE UpdateTokenStats
  <2>1. row' \in Row
    <3>1. row \in Row /\ hand.day \in Days
      BY DEF TypeOK
    <3>2. Charged(row, hand.day) \in Row
      BY <3>1, ChargedRow
    <3> QED
      BY <1>4, <3>1, <3>2 DEF UpdateTokenStats
  <2> QED
    BY <1>4, <2>1 DEF TypeOK, UpdateTokenStats, HandStages
<1>5. ASSUME NEW who \in Requests \cup {Admin}, LoadRead(who) PROVE TypeOK'
  <2>1. loader' \in [who : Requests \cup {Admin, Nobody}, read : Cache, quiet : BOOLEAN]
    BY <1>5, ListedType DEF TypeOK, LoadRead
  <2>2. loader'.read.limited => loader'.read.known
    BY <1>5, ListedType DEF TypeOK, LoadRead
  <2> QED
    BY <1>5, <2>1, <2>2 DEF TypeOK, LoadRead
<1>6. CASE LoadInstall
  <2>1. cache' \in Cache /\ cache'.known = loader.read.known /\ cache'.limited = loader.read.limited
    BY <1>6, MergedType DEF TypeOK, LoadInstall
  <2>2. ghost' \in Ghost
    BY <1>6 DEF TypeOK, LoadInstall, Ghost, Torn
  <2>3. at' \in [Requests -> Stages] /\ admin' \in {"idle", "edited", "unsure"}
    BY <1>6, LoadedType DEF LoadInstall
  <2>4. loader' = NoLoader /\ NoLoader.read = Absent /\ Absent.limited = FALSE
    BY <1>6 DEF LoadInstall, NoLoader, Absent
  <2>5. loader' \in [who : Requests \cup {Admin, Nobody}, read : Cache, quiet : BOOLEAN]
    BY <2>4, AbsentType DEF NoLoader
  <2> QED
    BY <1>6, <2>1, <2>2, <2>3, <2>4, <2>5 DEF TypeOK, LoadInstall
<1>7. CASE LoadFails
  <2>1. loader' \in [who : Requests \cup {Admin, Nobody}, read : Cache, quiet : BOOLEAN]
    BY <1>7, AbsentType DEF LoadFails, NoLoader
  <2> QED
    BY <1>7, <2>1, LoadedType DEF TypeOK, LoadFails, NoLoader, Absent
<1>8. ASSUME NEW a \in BOOLEAN, NEW e \in BOOLEAN, NEW l \in Limits, Edit(a, e, l) PROVE TypeOK'
  <2>1. l \in Nat
    BY QuotaAssumption
  <2>2. row' \in Row
    BY <1>8, <2>1 DEF TypeOK, Edit, Row
  <2> QED
    BY <1>8, <2>2, SMTT(40) DEF TypeOK, Edit
<1>9. CASE GrowsStale
  BY <1>9 DEF TypeOK, GrowsStale
<1>10. CASE ExpiryPasses
  BY <1>10 DEF TypeOK, ExpiryPasses
<1>11. CASE Midnight
  <2>1. today' \in Days
    BY <1>11 DEF TypeOK, Midnight, Days
  <2>2. ghost' \in Ghost
    BY <1>11 DEF TypeOK, Midnight, Ghost
  <2> QED
    BY <1>11, <2>1, <2>2 DEF TypeOK, Midnight
<1>12. CASE UNCHANGED vars
  BY <1>12 DEF TypeOK, vars
<1> QED
  BY <1>1, <1>2, <1>3, <1>4, <1>5, <1>6, <1>7, <1>8, <1>9, <1>10, <1>11, <1>12 DEF Next

\* Every variable keeps its type, the token is in all the maps or in none, and
\* the channel of the charges never holds more than its capacity.
THEOREM TypeCorrect == Spec => []TypeOK
BY TypeInit, TypeNext, PTL DEF Spec

-----------------------------------------------------------------------------
(* Places *)

\* A request that reloads the maps does nothing else meanwhile.
LoaderWaits == loader.who \in Requests => at[loader.who] = "refresh"

PlaceInv == TypeOK /\ PlacesAreHeld /\ LoaderWaits

LEMMA HoldersFinite ==
  /\ IsFiniteSet(Holders)
  /\ Cardinality(Holders) \in Nat
  /\ Cardinality({}) = 0
<1>1. Holders \subseteq Requests /\ IsFiniteSet(Requests)
  BY QuotaAssumption DEF Holders
<1> QED
  BY <1>1, FS_Subset, FS_CardinalityType, FS_EmptySet

\* A request takes a place ...
LEMMA PlaceTaken ==
  ASSUME PlaceInv, NEW r \in Requests, at[r] = "slot", Goto(r, "check"), active' = active + 1
  PROVE  PlacesAreHeld'
<1>1. Holders' = Holders \cup {r} /\ r \notin Holders
  BY DEF PlaceInv, TypeOK, Holders, Placed, Goto
<1> QED
  BY <1>1, HoldersFinite, FS_AddElement DEF PlaceInv, PlacesAreHeld

\* ... gives it back ...
LEMMA PlaceGiven ==
  ASSUME PlaceInv, NEW r \in Requests, r \in Holders, Goto(r, "idle"), Release
  PROVE  PlacesAreHeld'
<1>1. Holders' = Holders \ {r}
  BY DEF PlaceInv, TypeOK, Holders, Placed, Goto
<1>2. Cardinality(Holders) # 0
  BY HoldersFinite, FS_EmptySet
<1>3. Cardinality(Holders') = Cardinality(Holders) - 1
  BY <1>1, HoldersFinite, FS_RemoveElement
<1> QED
  BY <1>2, <1>3, HoldersFinite DEF PlaceInv, PlacesAreHeld, Release

\* ... or moves with or without one.
LEMMA PlaceKept ==
  ASSUME PlaceInv, NEW r \in Requests, NEW s \in Stages, Goto(r, s), UNCHANGED active,
         r \in Holders <=> s \in Placed
  PROVE  PlacesAreHeld'
<1>1. Holders' = Holders
  BY DEF PlaceInv, TypeOK, Holders, Goto
<1> QED
  BY <1>1 DEF PlaceInv, PlacesAreHeld

LEMMA PlaceLeftAlone ==
  ASSUME PlaceInv, UNCHANGED <<at, active>>
  PROVE  PlacesAreHeld'
BY DEF PlaceInv, PlacesAreHeld, Holders

LEMMA PlaceInit == Init => PlaceInv
<1> SUFFICES ASSUME Init PROVE PlaceInv
  OBVIOUS
<1>1. Holders = {}
  BY DEF Init, Holders, Placed
<1> QED
  BY <1>1, TypeInit, FS_EmptySet, QuotaAssumption
    DEF PlaceInv, PlacesAreHeld, LoaderWaits, Init, NoLoader

LEMMA WaitsNext == PlaceInv /\ [Next]_vars => LoaderWaits'
<1> SUFFICES ASSUME PlaceInv, [Next]_vars PROVE LoaderWaits'
  OBVIOUS
<1>1. ASSUME NEW r \in Requests, RequestStep(r) PROVE LoaderWaits'
  <2>1. UNCHANGED loader
    BY <1>1 DEF RequestStep, Arrive, Refreshed, Resolve, Evict, TakeSlot, CheckCost,
                Finish, FinishUncharged, Leave
  <2>2. \E s \in Stages : Goto(r, s)
    BY <1>1 DEF RequestStep, Arrive, Refreshed, Resolve, Evict, TakeSlot, CheckCost,
                Finish, FinishUncharged, Leave, Stages
  <2>3. loader.who # r
    BY <1>1, QuotaAssumption
    DEF PlaceInv, LoaderWaits, RequestStep, Arrive, Refreshed, Resolve, Evict, TakeSlot, CheckCost,
        Finish, FinishUncharged, Leave
  <2> QED
    BY <2>1, <2>2, <2>3 DEF PlaceInv, LoaderWaits, TypeOK, Goto
<1>2. ASSUME NEW who \in Requests \cup {Admin}, LoadRead(who) PROVE LoaderWaits'
  BY <1>2, QuotaAssumption DEF LoadRead, MayLoad, LoaderWaits
<1>3. CASE LoadInstall \/ LoadFails
  <2>1. loader' = NoLoader
    BY <1>3 DEF LoadInstall, LoadFails
  <2> QED
    BY <2>1, Bounds DEF LoaderWaits, NoLoader
<1>4. CASE AddCostToCache
  BY <1>4 DEF AddCostToCache, LoaderWaits, PlaceInv, TypeOK
<1>5. CASE UNCHANGED <<loader, at>>
  BY <1>5 DEF LoaderWaits, PlaceInv
<1> QED
  BY <1>1, <1>2, <1>3, <1>4, <1>5
    DEF Next, TakeCharge, UpdateTokenStats, Edit, GrowsStale, ExpiryPasses, Midnight, vars

LEMMA PlaceNext == PlaceInv /\ [Next]_vars => PlaceInv'
<1> SUFFICES ASSUME PlaceInv, [Next]_vars PROVE PlacesAreHeld'
  BY TypeNext, WaitsNext DEF PlaceInv
<1>1. ASSUME NEW r \in Requests, RequestStep(r) PROVE PlacesAreHeld'
  <2>1. CASE Arrive(r) \/ Refreshed(r) \/ Resolve(r) \/ Evict(r)
    <3>1. /\ \E s \in {"idle", "refresh", "resolve", "evict", "slot"} : Goto(r, s)
          /\ UNCHANGED active /\ r \notin Holders
      BY <2>1 DEF Arrive, Refreshed, Resolve, Evict, Holders, Placed
    <3> QED
      BY <3>1, PlaceKept DEF Stages, Placed
  <2>2. CASE TakeSlot(r)
    <3>1. CASE Goto(r, "check") /\ active' = active + 1
      BY <2>2, <3>1, PlaceTaken DEF TakeSlot
    <3>2. CASE Goto(r, "idle") /\ UNCHANGED active
      BY <2>2, <3>2, PlaceKept DEF TakeSlot, Stages, Placed, Holders
    <3> QED
      BY <2>2, <3>1, <3>2 DEF TakeSlot
  <2>3. CASE CheckCost(r)
    <3>1. r \in Holders
      BY <2>3 DEF CheckCost, Holders, Placed
    <3>2. CASE Goto(r, "idle") /\ Release
      BY <3>1, <3>2, PlaceGiven
    <3>3. CASE Goto(r, "running") /\ UNCHANGED active
      BY <3>1, <3>3, PlaceKept DEF Stages, Placed
    <3> QED
      BY <2>3, <3>2, <3>3 DEF CheckCost
  <2>4. CASE Finish(r) \/ FinishUncharged(r)
    <3>1. r \in Holders /\ Goto(r, "leaving") /\ UNCHANGED active
      BY <2>4 DEF Finish, FinishUncharged, Holders, Placed
    <3> QED
      BY <3>1, PlaceKept DEF Stages, Placed
  <2>5. CASE Leave(r)
    BY <2>5, PlaceGiven DEF Leave, Holders, Placed
  <2> QED
    BY <1>1, <2>1, <2>2, <2>3, <2>4, <2>5 DEF RequestStep
<1>2. ASSUME NEW ok \in BOOLEAN, Loaded(ok), UNCHANGED active, LoadInstall \/ LoadFails
      PROVE  PlacesAreHeld'
  <2>1. CASE UNCHANGED at
    BY <1>2, <2>1, PlaceLeftAlone
  <2>2. CASE /\ loader.who \in Requests
             /\ Goto(loader.who, IF ok THEN "resolve" ELSE "idle")
    <3>1. loader.who \notin Holders
      BY <2>2 DEF PlaceInv, LoaderWaits, Holders, Placed
    <3>2. CASE ok
      BY <1>2, <2>2, <3>1, <3>2, PlaceKept DEF Stages, Placed
    <3>3. CASE ~ok
      BY <1>2, <2>2, <3>1, <3>3, PlaceKept DEF Stages, Placed
    <3> QED
      BY <3>2, <3>3
  <2> QED
    BY <1>2, <2>1, <2>2 DEF Loaded
<1>3. CASE LoadInstall \/ LoadFails
  BY <1>2, <1>3 DEF LoadInstall, LoadFails
<1>4. CASE UNCHANGED <<at, active>>
  BY <1>4, PlaceLeftAlone
<1> QED
  BY <1>1, <1>3, <1>4
    DEF Next, TakeCharge, AddCostToCache, UpdateTokenStats, LoadRead, Edit,
        GrowsStale, ExpiryPasses, Midnight, vars

\* The counter of a token equals the requests that have a place, so none is
\* locked out by a place nobody has, and none gets in over one held twice.
THEOREM PlacesHeld == Spec => []PlacesAreHeld
BY PlaceInit, PlaceNext, PTL DEF Spec, PlaceInv

-----------------------------------------------------------------------------
(* Revocation *)

\* The administrator loads only after an edit ...
AdminsTurn == loader.who = Admin => admin = "edited"

\* ... and a read that has the disabled token is a request's, made before the
\* edit whose reload is still to come, or whose answer was an error.
ReadsOfTheDead ==
  ~row.alive /\ loader.read.known => loader.who \in Requests /\ admin \in {"edited", "unsure"}

NobodyReads == loader.who = Nobody => ~loader.read.known

Revocation == AdminsTurn /\ ReadsOfTheDead /\ NobodyReads /\ RevocationHolds

RevokeInv == TypeOK /\ Revocation

LEMMA RevokeInit == Init => RevokeInv
<1> SUFFICES ASSUME Init PROVE RevokeInv
  OBVIOUS
<1>1. loader.who = Nobody /\ ~loader.read.known /\ row.alive
  BY DEF Init, NoLoader, Absent
<1> QED
  BY <1>1, TypeInit, Bounds DEF RevokeInv, Revocation, AdminsTurn, ReadsOfTheDead, NobodyReads, RevocationHolds

\* Whatever leaves the row's life, the administrator and the reload alone, and
\* makes no token known and no map trusted.
LEMMA RevokeKept ==
  ASSUME RevokeInv, row'.alive = row.alive, UNCHANGED admin,
         loader'.who = loader.who, loader'.read = loader.read,
         cache'.known => cache.known, reload' = "fresh" => reload = "fresh"
  PROVE  Revocation'
BY DEF RevokeInv, Revocation, AdminsTurn, ReadsOfTheDead, NobodyReads, RevocationHolds

LEMMA RevokeNext == RevokeInv /\ [Next]_vars => RevokeInv'
<1> SUFFICES ASSUME RevokeInv, [Next]_vars
             PROVE  Revocation'
  BY TypeNext DEF RevokeInv
<1>1. ASSUME NEW r \in Requests, RequestStep(r)
      PROVE  Revocation'
  <2>1. UNCHANGED <<row, admin, loader, reload>> /\ (cache'.known => cache.known)
    BY <1>1 DEF RequestStep, Arrive, Refreshed, Resolve, Evict, TakeSlot, CheckCost,
                Finish, FinishUncharged, Leave, Absent
  <2> QED
    BY <2>1, RevokeKept
<1>2. CASE AddCostToCache
  <2>1. cache \in Cache /\ hand.day \in Days
    BY DEF RevokeInv, TypeOK
  <2>2. cache'.known = cache.known
    BY <1>2, <2>1, ChargedCache DEF AddCostToCache
  <2>3. loader'.who = loader.who /\ loader'.read = loader.read
    BY <1>2 DEF AddCostToCache, RevokeInv, TypeOK
  <2> QED
    BY <1>2, <2>2, <2>3, RevokeKept DEF AddCostToCache
<1>3. CASE UpdateTokenStats
  <2>1. row \in Row /\ hand.day \in Days
    BY DEF RevokeInv, TypeOK
  <2>2. row'.alive = row.alive
    BY <1>3, <2>1, ChargedRow DEF UpdateTokenStats
  <2> QED
    BY <1>3, <2>2, RevokeKept DEF UpdateTokenStats
<1>4. ASSUME NEW who \in Requests \cup {Admin}, LoadRead(who)
      PROVE  Revocation'
  <2>1. loader'.who = who /\ (~row.alive => ~loader'.read.known)
    BY <1>4 DEF LoadRead, Listed, Absent
  <2> QED
    BY <1>4, <2>1, Bounds
    DEF LoadRead, MayLoad, RevokeInv, Revocation, AdminsTurn, ReadsOfTheDead, NobodyReads, RevocationHolds
<1>5. CASE LoadInstall
  <2>1. cache'.known = loader.read.known
    BY <1>5, MergedType DEF LoadInstall, RevokeInv, TypeOK
  <2>2. loader'.who = Nobody /\ ~loader'.read.known
    BY <1>5 DEF LoadInstall, NoLoader, Absent
  <2>3. ~row.alive /\ loader.read.known => UNCHANGED admin
    BY <1>5, Bounds DEF LoadInstall, Loaded, RevokeInv, Revocation, ReadsOfTheDead
  <2> QED
    BY <1>5, <2>1, <2>2, <2>3, Bounds
    DEF LoadInstall, RevokeInv, Revocation, AdminsTurn, ReadsOfTheDead, NobodyReads, RevocationHolds
<1>6. CASE LoadFails
  <2>1. loader'.who = Nobody /\ ~loader'.read.known
    BY <1>6 DEF LoadFails, NoLoader, Absent
  <2> QED
    BY <1>6, <2>1, Bounds DEF LoadFails, Revocation, AdminsTurn, ReadsOfTheDead, NobodyReads, RevocationHolds
<1>7. ASSUME NEW a \in BOOLEAN, NEW e \in BOOLEAN, NEW l \in Limits, Edit(a, e, l)
      PROVE  Revocation'
  <2>1. admin' \in {"edited", "unsure"} /\ UNCHANGED loader /\ loader.who # Admin
    BY <1>7 DEF Edit, RevokeInv, Revocation, AdminsTurn
  <2>2. loader.read.known => loader.who \in Requests
    BY <2>1 DEF RevokeInv, Revocation, NobodyReads, TypeOK
  <2> QED
    BY <2>1, <2>2 DEF RevokeInv, Revocation, AdminsTurn, ReadsOfTheDead, NobodyReads, RevocationHolds
<1>8. CASE GrowsStale
  BY <1>8, RevokeKept DEF GrowsStale
<1>9. CASE UNCHANGED <<row, admin, loader, cache, reload>>
  BY <1>9, RevokeKept
<1> QED
  BY <1>1, <1>2, <1>3, <1>4, <1>5, <1>6, <1>7, <1>8, <1>9
    DEF Next, TakeCharge, ExpiryPasses, Midnight, vars

\* A disabled token is not served from maps that are trusted once its edit is
\* answered with success, however the reloads of requests and of the administrator meet.
THEOREM Revoked == Spec => []RevocationHolds
BY RevokeInit, RevokeNext, PTL DEF Spec, RevokeInv, Revocation

-----------------------------------------------------------------------------
(* Days *)

\* No window and no charge is of a day to come.
DayInv ==
  /\ cache.day <= today /\ row.day <= today /\ loader.read.day <= today /\ hand.day <= today
  /\ \A i \in 1..Len(queue) : queue[i] <= today

LEMMA DayInit == Init => DayInv
<1> SUFFICES ASSUME Init PROVE DayInv
  OBVIOUS
<1>1. loader.read = Absent
  BY DEF Init, NoLoader
<1>2. cache.day = 0 /\ row.day = 0 /\ hand.day = 0 /\ queue = << >> /\ today = 0
  BY DEF Init
<1> QED
  BY <1>1, <1>2 DEF DayInv, Absent

LEMMA DayNext == TypeOK /\ TypeOK' /\ DayInv /\ [Next]_vars => DayInv'
<1> SUFFICES ASSUME TypeOK, TypeOK', DayInv, [Next]_vars PROVE DayInv'
  OBVIOUS
<1> USE Bounds
<1>1. ASSUME NEW r \in Requests, RequestStep(r) PROVE DayInv'
  <2>1. UNCHANGED <<row, loader, hand, today>> /\ (cache' = cache \/ cache' = Absent)
    BY <1>1 DEF RequestStep, Arrive, Refreshed, Resolve, Evict, TakeSlot, CheckCost,
                Finish, FinishUncharged, Leave
  <2>2. cache'.day <= today
    BY <2>1 DEF DayInv, TypeOK, Days, Absent
  <2>3. queue' = queue \/ queue' = Append(queue, today)
    BY <1>1 DEF RequestStep, Arrive, Refreshed, Resolve, Evict, TakeSlot, CheckCost,
                Finish, FinishUncharged, Leave
  <2>4. queue \in Seq(Days) /\ today \in Nat /\ Len(queue) \in Nat
    BY DEF TypeOK
  <2>5. \A i \in 1..Len(queue') : queue'[i] <= today
    <3>1. CASE queue' = Append(queue, today)
      <4>1. Len(queue') = Len(queue) + 1 /\ queue'[Len(queue) + 1] = today
            /\ \A i \in 1..Len(queue) : queue'[i] = queue[i]
        BY <2>4, <3>1, AppendProperties DEF TypeOK
      <4>2. \A i \in 1..Len(queue') : i = Len(queue) + 1 \/ i \in 1..Len(queue)
        BY <2>4, <4>1
      <4> QED
        BY <2>4, <4>1, <4>2 DEF DayInv
    <3> QED
      BY <2>3, <3>1 DEF DayInv
  <2> QED
    BY <2>1, <2>2, <2>5 DEF DayInv
<1>2. CASE TakeCharge
  <2>1. Len(queue) \in Nat /\ Len(queue) # 0 /\ Head(queue) = queue[1]
    BY <1>2 DEF TakeCharge, TypeOK
  <2>2. hand'.day <= today
    BY <1>2, <2>1 DEF TakeCharge, DayInv
  <2>3. \A i \in 1..Len(queue') : queue'[i] <= today
    BY <1>2, <2>1 DEF TakeCharge, DayInv, TypeOK
  <2> QED
    BY <1>2, <2>2, <2>3 DEF TakeCharge, DayInv
<1>3. CASE AddCostToCache
  <2>1. cache \in Cache /\ hand.day \in Days
    BY DEF TypeOK
  <2>2. cache'.day <= today
    BY <1>3, <2>1, ChargedCache DEF AddCostToCache, DayInv
  <2>3. hand'.day = hand.day /\ loader'.read = loader.read
    BY <1>3 DEF AddCostToCache, TypeOK
  <2> QED
    BY <1>3, <2>2, <2>3 DEF AddCostToCache, DayInv
<1>4. CASE UpdateTokenStats
  <2>1. row \in Row /\ hand.day \in Days
    BY DEF TypeOK
  <2>2. row'.day <= today
    <3>1. Charged(row, hand.day).day <= today
      BY <2>1, ChargedRow DEF DayInv
    <3> QED
      BY <1>4, <3>1 DEF UpdateTokenStats, DayInv
  <2>3. hand'.day <= today
    BY <1>4 DEF UpdateTokenStats, TypeOK, Days
  <2> QED
    BY <1>4, <2>2, <2>3 DEF UpdateTokenStats, DayInv
<1>5. ASSUME NEW who \in Requests \cup {Admin}, LoadRead(who) PROVE DayInv'
  <2>1. Listed.day <= today
    BY DEF Listed, Absent, TypeOK, Days
  <2> QED
    BY <1>5, <2>1 DEF LoadRead, DayInv
<1>6. CASE LoadInstall
  <2>1. cache \in Cache /\ loader.read \in Cache
    BY DEF TypeOK
  <2>2. cache'.day <= today
    <3>1. cache' = Merged(cache, loader.read)
      BY <1>6 DEF LoadInstall
    <3> QED
      BY <2>1, <3>1, MergedType DEF DayInv
  <2>3. loader' = NoLoader /\ UNCHANGED <<row, hand, today, queue>>
    BY <1>6 DEF LoadInstall
  <2>4. loader'.read.day <= today
    BY <2>3 DEF NoLoader, Absent, TypeOK, Days
  <2> QED
    BY <2>2, <2>3, <2>4 DEF DayInv
<1>7. CASE LoadFails
  <2>1. loader'.read.day <= today
    BY <1>7 DEF LoadFails, NoLoader, Absent, TypeOK, Days
  <2> QED
    BY <1>7, <2>1 DEF LoadFails, DayInv
<1>8. ASSUME NEW a \in BOOLEAN, NEW e \in BOOLEAN, NEW l \in Limits, Edit(a, e, l) PROVE DayInv'
  <2>1. row \in Row
        /\ row' = [row EXCEPT !.alive = a, !.expires = row.expires /\ e, !.limit = l]
    BY <1>8 DEF Edit, TypeOK
  <2>2. row'.day = row.day
    BY <2>1 DEF Row
  <2>3. UNCHANGED <<cache, loader, hand, queue, today>>
    BY <1>8 DEF Edit
  <2> QED
    BY <2>2, <2>3 DEF DayInv
<1>9. CASE Midnight
  <2>1. today' = today + 1 /\ today \in Nat /\ UNCHANGED <<cache, row, loader, hand, queue>>
    BY <1>9 DEF Midnight, TypeOK
  <2>2. cache.day \in Nat /\ row.day \in Nat /\ loader.read.day \in Nat /\ hand.day \in Nat
    BY DEF TypeOK, Cache, Row
  <2>3. queue \in Seq(Days)
    BY DEF TypeOK
  <2>4. \A i \in 1..Len(queue) : queue[i] \in Nat
    BY <2>3, ElementOfSeq
  <2> QED
    BY <2>1, <2>2, <2>4 DEF DayInv
<1>10. CASE UNCHANGED <<cache, row, loader, hand, queue, today>>
  BY <1>10 DEF DayInv
<1> QED
  BY <1>1, <1>2, <1>3, <1>4, <1>5, <1>6, <1>7, <1>8, <1>9, <1>10
    DEF Next, GrowsStale, ExpiryPasses, vars

-----------------------------------------------------------------------------
(* The maps and the ledger *)

\* A window c is not behind a window x.
Covers(c, x) == x.day <= c.day /\ (x.day = c.day => x.used <= c.used)

\* The row as it may soon be: the charge in the worker's hand is in the maps.
Due == IF hand.stage = "cached" THEN Charged(row, hand.day) ELSE row

CacheCovers == cache.limited /\ ~ghost.gap => Covers(cache, Due)

\* Between a read and its end the row has not been charged, if it was quiet.
QuietRead ==
  loader.quiet => hand.stage # "cached" /\ (loader.read.limited => Covers(loader.read, row))

CoverInv == TypeOK /\ DayInv /\ CacheCovers /\ QuietRead

\* A charge of the same day does not change which window is behind.
LEMMA ChargeBoth ==
  ASSUME NEW c \in Cache, NEW x \in Row, NEW d \in Days, Covers(c, x)
  PROVE  Covers(Charged(c, d), Charged(x, d))
<1>1. c.day \in Nat /\ c.used \in Nat /\ x.day \in Nat /\ x.used \in Nat /\ d \in Nat
  BY Bounds DEF Cache, Row
<1>2. CASE d < c.day
  BY <1>1, <1>2, ChargedCache, ChargedRow DEF Covers
<1>3. CASE ~(d < c.day)
  BY <1>1, <1>3, ChargedCache, ChargedRow DEF Covers
<1> QED
  BY <1>2, <1>3

LEMMA ChargeAhead ==
  ASSUME NEW c \in Cache, NEW x \in Row, NEW d \in Days, Covers(c, Charged(x, d))
  PROVE  Covers(c, x)
<1>1. c.day \in Nat /\ c.used \in Nat /\ x.day \in Nat /\ x.used \in Nat /\ d \in Nat
  BY Bounds DEF Cache, Row
<1> QED
  BY <1>1, ChargedRow DEF Covers

LEMMA CoverInit == Init => CoverInv
<1> SUFFICES ASSUME Init PROVE CacheCovers /\ QuietRead
  BY TypeInit, DayInit DEF CoverInv
<1>1. Due = row /\ ~loader.quiet
  BY DEF Init, NoLoader, Due
<1>2. row.day = 0 /\ row.used = 0 /\ cache.day = 0 /\ cache.used = 0
  BY DEF Init
<1> QED
  BY <1>1, <1>2 DEF CacheCovers, QuietRead, Covers

LEMMA CoverKept ==
  ASSUME CoverInv, UNCHANGED hand, row'.day = row.day, row'.used = row.used,
         UNCHANGED loader, cache' = cache \/ ~cache'.limited, ghost.gap => ghost'.gap,
         row \in Row, row' \in Row
  PROVE  CacheCovers' /\ QuietRead'
<1>1. Covers(cache, Due) => Covers(cache, Due')
  <2>1. hand.day \in Days
    BY DEF CoverInv, TypeOK
  <2>2. Due'.day = Due.day /\ Due'.used = Due.used
    BY <2>1, ChargedRow DEF Due
  <2> QED
    BY <2>2 DEF Covers
<1> QED
  BY <1>1 DEF CoverInv, CacheCovers, QuietRead, Covers

\* What the check of the limit leaves in the histories.
LEMMA CheckedGhost ==
  ASSUME TypeOK, NEW r \in Requests, CheckCost(r)
  PROVE  /\ ghost'.gap = ghost.gap /\ ghost'.spent = ghost.spent
         /\ \/ UNCHANGED ghost /\ Goto(r, "idle") /\ Release
            \/ /\ Goto(r, "running") /\ UNCHANGED active
               /\ ghost'.torn = (ghost.torn \/ ~cache.limited)
               /\ ghost'.ceiling = Larger(ghost.ceiling, cache.limit)
               /\ cache.limited => UsedOn(cache, today) < cache.limit
<1> DEFINE n == Larger(ghost.ceiling, cache.limit)
           t == ghost.torn \/ ~cache.limited
<1>1. ghost \in Ghost /\ n \in Nat /\ t \in BOOLEAN
  BY DEF TypeOK, Larger, Ghost, Cache
<1>2. CASE UNCHANGED ghost /\ Goto(r, "idle") /\ Release
  BY <1>2
<1>3. CASE /\ ghost' = [ghost EXCEPT !.ceiling = n, !.torn = t]
           /\ Goto(r, "running") /\ UNCHANGED active
           /\ ~cache.limited \/ UsedOn(cache, today) < cache.limit
  <2> HIDE DEF n, t
  <2>1. /\ ghost'.gap = ghost.gap /\ ghost'.torn = t
        /\ ghost'.spent = ghost.spent /\ ghost'.ceiling = n
    BY <1>1, <1>3, GhostCeiling
  <2> QED
    BY <1>3, <2>1 DEF n, t
<1> QED
  BY <1>2, <1>3 DEF CheckCost

LEMMA CoverNext == CoverInv /\ [Next]_vars => CoverInv'
<1> SUFFICES ASSUME CoverInv, [Next]_vars PROVE CacheCovers' /\ QuietRead'
  BY TypeNext, DayNext DEF CoverInv
<1> USE Bounds
<1>1. row \in Row /\ row' \in Row /\ cache \in Cache /\ hand.day \in Days /\ ghost \in Ghost
      /\ loader.read \in Cache
  BY TypeNext DEF CoverInv, TypeOK
<1>2. ASSUME NEW r \in Requests, RequestStep(r) PROVE CacheCovers' /\ QuietRead'
  <2>1. CASE CheckCost(r)
    <3>1. ghost'.gap = ghost.gap
      BY <1>1, <2>1, CheckedGhost DEF CoverInv
    <3> QED
      BY <1>1, <2>1, <3>1, CoverKept DEF CheckCost
  <2>2. CASE Finish(r)
    <3>1. ghost'.gap = ghost.gap
      BY <1>1, <2>2 DEF Finish, Ghost
    <3> QED
      BY <1>1, <2>2, <3>1, CoverKept DEF Finish
  <2>3. CASE Evict(r)
    <3>1. ghost'.gap
      BY <1>1, <2>3, GhostTorn DEF Evict
    <3>2. UNCHANGED <<row, hand, loader>> /\ ~cache'.limited
      BY <2>3 DEF Evict, Absent
    <3> QED
      BY <1>1, <3>1, <3>2, CoverKept
  <2>4. CASE UNCHANGED <<row, cache, hand, loader, ghost>>
    BY <1>1, <2>4, CoverKept
  <2> QED
    BY <1>2, <2>1, <2>2, <2>3, <2>4
    DEF RequestStep, Arrive, Refreshed, Resolve, TakeSlot, FinishUncharged, Leave
<1>3. CASE TakeCharge
  <2>1. hand.stage # "cached" /\ hand'.stage # "cached" /\ UNCHANGED <<row, cache, loader, ghost>>
    BY <1>3 DEF TakeCharge
  <2> QED
    BY <2>1 DEF CoverInv, CacheCovers, QuietRead, Due, Covers
<1>4. CASE AddCostToCache
  <2>1. ~loader'.quiet /\ hand.stage # "cached" /\ UNCHANGED row
        /\ hand'.stage = "cached" /\ hand'.day = hand.day
    BY <1>4 DEF AddCostToCache, CoverInv, TypeOK
  <2>2. Due = row /\ Due' = Charged(row, hand.day)
    BY <2>1 DEF Due
  <2>3. CASE cache.limited
    <3>1. cache' = Charged(cache, hand.day) /\ UNCHANGED ghost
      BY <1>4, <2>3 DEF AddCostToCache
    <3>2. ~ghost.gap => Covers(cache, row)
      BY <2>2, <2>3 DEF CoverInv, CacheCovers
    <3>3. ~ghost'.gap => Covers(cache', Due')
      BY <1>1, <2>2, <3>1, <3>2, ChargeBoth
    <3> QED
      BY <2>1, <3>3 DEF CacheCovers, QuietRead
  <2>4. CASE ~cache.limited
    <3>1. UNCHANGED cache
      BY <1>4, <2>4 DEF AddCostToCache
    <3> QED
      BY <2>1, <2>4, <3>1 DEF CacheCovers, QuietRead
  <2> QED
    BY <2>3, <2>4
<1>5. CASE UpdateTokenStats
  <2>1. hand.stage = "cached" /\ hand'.stage = "empty" /\ UNCHANGED <<cache, loader, ghost>>
        /\ row' \in {row, Charged(row, hand.day)}
    BY <1>5 DEF UpdateTokenStats
  <2>2. Due = Charged(row, hand.day) /\ Due' = row' /\ ~loader.quiet
    BY <2>1 DEF Due, CoverInv, QuietRead
  <2>3. Covers(cache, Due) => Covers(cache, Due')
    BY <1>1, <2>1, <2>2, ChargeAhead
  <2>4. CacheCovers'
    BY <2>1, <2>3 DEF CoverInv, CacheCovers, Covers
  <2> QED
    BY <2>1, <2>2, <2>4 DEF QuietRead
<1>6. ASSUME NEW who \in Requests \cup {Admin}, LoadRead(who) PROVE CacheCovers' /\ QuietRead'
  <2>1. loader'.read = Listed /\ loader'.quiet = (hand.stage # "cached")
        /\ UNCHANGED <<row, cache, hand, ghost>>
    BY <1>6 DEF LoadRead
  <2>2. Listed.limited => Listed.day = today /\ Listed.used = UsedOn(row, today)
    BY DEF Listed, Absent
  <2>3. Listed.limited => Covers(Listed, row)
    BY <1>1, <2>2 DEF Covers, UsedOn, CoverInv, DayInv, Row
  <2>4. CacheCovers'
    BY <2>1 DEF CoverInv, CacheCovers, Covers, Due
  <2>5. QuietRead'
    BY <2>1, <2>3 DEF QuietRead, Covers
  <2> QED
    BY <2>4, <2>5
<1>7. CASE LoadInstall
  <2> DEFINE g == (ghost.gap \/ Torn) /\ ~(loader.quiet /\ loader.read.day = today)
             t == ghost.torn \/ Torn
  <2>1. ghost' = [ghost EXCEPT !.gap = g, !.torn = t]
    BY <1>7 DEF LoadInstall
  <2>2. g \in BOOLEAN /\ t \in BOOLEAN
    BY <1>1 DEF Torn, Ghost, Cache
  <2>3. ghost'.gap = g
    <3> HIDE DEF g, t
    <3> QED
      BY <1>1, <2>1, <2>2, GhostTorn
  <2>4. cache' = Merged(cache, loader.read) /\ loader' = NoLoader /\ UNCHANGED <<row, hand>>
    BY <1>7 DEF LoadInstall
  <2>5. cache'.limited = loader.read.limited /\ cache'.day = loader.read.day
        /\ cache'.used >= loader.read.used /\ cache' \in Cache
    BY <1>1, <2>4, MergedType
  <2>6. Due' = Due /\ Due \in Row
    BY <1>1, <2>4, ChargedRow DEF Due
  <2>7. ASSUME cache'.limited, loader.quiet PROVE Covers(cache', Due')
    <3>1. Due = row /\ Covers(loader.read, row)
      BY <2>5, <2>7 DEF CoverInv, QuietRead, Due
    <3> QED
      BY <1>1, <2>5, <2>6, <3>1 DEF Covers, Cache, Row
  <2>8. ASSUME cache'.limited, ~ghost.gap, ~Torn PROVE Covers(cache', Due')
    <3>1. cache.limited /\ loader.read.limited /\ ~(cache.day > loader.read.day)
      BY <2>8 DEF Torn
    <3>2. Covers(cache, Due)
      BY <2>8, <3>1 DEF CoverInv, CacheCovers
    <3>3. cache.day = loader.read.day => cache'.used >= cache.used
      BY <1>1, <2>4, <3>1 DEF Merged, Larger, Cache
    <3>4. cache.day \in Nat /\ cache'.day \in Nat /\ Due.day \in Nat
          /\ cache.used \in Nat /\ cache'.used \in Nat /\ Due.used \in Nat
      BY <1>1, <2>5, <2>6 DEF Cache, Row
    <3>5. cache.day <= cache'.day /\ (cache.day = cache'.day => cache.used <= cache'.used)
      BY <2>5, <3>1, <3>3, <3>4
    <3> QED
      BY <2>6, <3>2, <3>4, <3>5 DEF Covers
  <2>9. CacheCovers'
    BY <2>3, <2>7, <2>8 DEF CacheCovers
  <2>10. QuietRead'
    BY <2>4 DEF QuietRead, NoLoader
  <2> QED
    BY <2>9, <2>10
<1>8. CASE LoadFails
  <2>1. ~loader'.quiet /\ UNCHANGED <<row, cache, hand, ghost>>
    BY <1>8 DEF LoadFails, NoLoader
  <2> QED
    BY <2>1 DEF CoverInv, CacheCovers, QuietRead, Covers, Due
<1>9. ASSUME NEW a \in BOOLEAN, NEW e \in BOOLEAN, NEW l \in Limits, Edit(a, e, l)
      PROVE  CacheCovers' /\ QuietRead'
  <2>1. row' = [row EXCEPT !.alive = a, !.expires = row.expires /\ e, !.limit = l]
    BY <1>9 DEF Edit
  <2>2. row'.day = row.day /\ row'.used = row.used
    BY <1>1, <2>1 DEF Row
  <2> QED
    BY <1>1, <1>9, <2>2, CoverKept DEF Edit
<1>10. CASE Midnight
  <2>1. ghost'.gap = ghost.gap
    BY <1>1, <1>10 DEF Midnight, Ghost
  <2> QED
    BY <1>1, <1>10, <2>1, CoverKept DEF Midnight
<1>11. CASE UNCHANGED <<row, cache, hand, loader, ghost>>
  BY <1>1, <1>11, CoverKept
<1> QED
  BY <1>2, <1>3, <1>4, <1>5, <1>6, <1>7, <1>8, <1>9, <1>10, <1>11
    DEF Next, GrowsStale, ExpiryPasses, vars

LEMMA CoverMeans == CoverInv => MapsCoverLedger
<1> SUFFICES ASSUME CoverInv, cache.limited, ~ghost.gap, row.day = today
             PROVE  UsedOn(cache, today) >= row.used
  BY DEF MapsCoverLedger
<1>1. row \in Row /\ cache \in Cache /\ hand.day \in Days /\ today \in Nat
  BY Bounds DEF CoverInv, TypeOK
<1>2. Covers(cache, Due)
  BY DEF CoverInv, CacheCovers
<1>3. Covers(cache, row)
  BY <1>1, <1>2, ChargeAhead DEF Due
<1>4. cache.day \in Nat /\ cache.day <= today /\ row.day <= cache.day
  BY <1>1, <1>3, Bounds DEF Covers, CoverInv, DayInv, Cache
<1>5. cache.day = today
  BY <1>1, <1>4
<1> QED
  BY <1>3, <1>5, <1>1 DEF Covers, UsedOn, Cache, Row

\* The maps that requests are checked against are not behind the ledger of the
\* database, unless a charge met no entry or a window was replaced and no quiet
\* reload has been made since.
THEOREM LedgerCovered == Spec => []MapsCoverLedger
BY CoverInit, CoverNext, CoverMeans, PTL DEF Spec

-----------------------------------------------------------------------------
(* Spending *)

InHand == IF hand.stage = "taken" /\ hand.day = today THEN 1 ELSE 0

\* The last k charges of the queue are of today.
Unseen(k) == \A i \in 1..Len(queue) : i > Len(queue) - k => queue[i] = today

\* What is spent today is in the maps, in the queue, or in the worker's hand.
SpendSeen ==
  \E k \in 0..Len(queue) : Unseen(k) /\ ghost.spent <= UsedOn(cache, today) + k + InHand

Watched == ~ghost.torn => cache.limited /\ active <= MaxConns /\ SpendSeen

SpendInv == PlaceInv /\ DayInv /\ Watched /\ OvershootBounded

LEMMA Numbers ==
  ASSUME TypeOK
  PROVE  /\ today \in Nat /\ cache \in Cache /\ cache.day \in Nat /\ cache.used \in Nat
         /\ cache.limit \in Nat /\ UsedOn(cache, today) \in Nat
         /\ ghost.spent \in Nat /\ ghost.ceiling \in Nat /\ ghost.torn \in BOOLEAN
         /\ InHand \in 0..1 /\ Len(queue) \in 0..QueueCap /\ active \in Nat
         /\ queue \in Seq(Days) /\ hand.day \in Days
<1>1. today \in Nat /\ cache \in Cache /\ queue \in Seq(Days) /\ hand.day \in Days /\ active \in Nat
  BY Bounds DEF TypeOK
<1>2. cache.day \in Nat /\ cache.used \in Nat /\ cache.limit \in Nat
  BY <1>1, Bounds DEF Cache
<1>3. ghost.spent \in Nat /\ ghost.ceiling \in Nat /\ ghost.torn \in BOOLEAN
  BY DEF TypeOK, Ghost
<1>4. Len(queue) \in 0..QueueCap
  BY <1>1, Bounds, LenProperties DEF TypeOK
<1> QED
  BY <1>1, <1>2, <1>3, <1>4 DEF UsedOn, InHand

\* Without a hole in its history a token has not spent more than is counted.
LEMMA SpentSeen ==
  ASSUME TypeOK, SpendSeen
  PROVE  ghost.spent <= UsedOn(cache, today) + QueueCap + 1
<1>1. PICK k \in 0..Len(queue) : ghost.spent <= UsedOn(cache, today) + k + InHand
  BY DEF SpendSeen
<1> QED
  BY <1>1, Numbers, Bounds

LEMMA BillableFinite ==
  ASSUME TypeOK
  PROVE  /\ IsFiniteSet(Billable) /\ Cardinality(Billable) \in Nat
         /\ Cardinality(Billable) <= Cardinality(Holders)
         /\ Billable \subseteq Holders
<1>1. Billable \subseteq Holders
  BY DEF Billable, Holders, Placed
<1> QED
  BY <1>1, HoldersFinite, FS_Subset, FS_CardinalityType

\* Fewer requests under way, and no more spent.
LEMMA SpendLess ==
  ASSUME SpendInv, TypeOK', Billable' \subseteq Billable, ~ghost'.torn => ~ghost.torn,
         ghost'.spent <= ghost.spent, ghost'.ceiling = ghost.ceiling
  PROVE  OvershootBounded'
<1>1. TypeOK
  BY DEF SpendInv, PlaceInv
<1>2. Cardinality(Billable') \in Nat /\ Cardinality(Billable') <= Cardinality(Billable)
  BY <1>1, BillableFinite, FS_Subset, FS_CardinalityType
<1>3. ghost'.spent \in Nat /\ ghost.spent \in Nat /\ ghost.ceiling \in Nat
  BY <1>1, Numbers DEF TypeOK, Ghost
<1>4. Cardinality(Billable) \in Nat /\ MaxConns \in Nat /\ QueueCap \in Nat
  BY <1>1, BillableFinite, Bounds
<1> DEFINE n == Cardinality(Billable)
           m == Cardinality(Billable')
<1>5. ASSUME ~ghost'.torn
      PROVE  ghost'.spent + m <= ghost'.ceiling + MaxConns + QueueCap
  <2>1. ghost.spent + n <= ghost.ceiling + MaxConns + QueueCap
    BY <1>5 DEF SpendInv, OvershootBounded
  <2>2. m \in Nat /\ n \in Nat /\ m <= n
    BY <1>2, <1>4
  <2> HIDE DEF m, n
  <2> QED
    BY <2>1, <2>2, <1>3, <1>4
<1> QED
  BY <1>5 DEF OvershootBounded

\* What is counted moves between the hand and the maps, and is not lost.
LEMMA SeenKept ==
  ASSUME TypeOK, TypeOK', SpendSeen, UNCHANGED <<queue, today>>, ghost'.spent <= ghost.spent,
         UsedOn(cache, today) + InHand <= UsedOn(cache', today') + InHand'
  PROVE  SpendSeen'
<1>1. PICK k \in 0..Len(queue) : Unseen(k) /\ ghost.spent <= UsedOn(cache, today) + k + InHand
  BY DEF SpendSeen
<1>2. /\ UsedOn(cache, today) \in Nat /\ ghost.spent \in Nat /\ InHand \in 0..1
      /\ Len(queue) \in Nat
  BY Numbers
<1>3. ghost'.spent \in Nat /\ InHand' \in 0..1 /\ UsedOn(cache', today') \in Nat
  BY DEF TypeOK, Ghost, InHand, UsedOn, Cache
<1>4. ghost'.spent <= UsedOn(cache', today') + k + InHand'
  BY <1>1, <1>2, <1>3, SMTT(40)
<1>5. Unseen(k)'
  BY <1>1 DEF Unseen
<1> QED
  BY <1>1, <1>4, <1>5 DEF SpendSeen

LEMMA SpendInit == Init => SpendInv
<1> SUFFICES ASSUME Init PROVE Watched /\ OvershootBounded
  BY PlaceInit, DayInit DEF SpendInv
<1>0. PICK l \in Limits, e \in BOOLEAN :
        /\ cache = [known |-> TRUE, expires |-> e, limited |-> l > 0, limit |-> l, used |-> 0, day |-> 0]
        /\ ghost = [spent |-> 0, ceiling |-> 0, gap |-> l = 0, torn |-> l = 0]
  BY DEF Init
<1>1. TypeOK /\ active = 0 /\ queue = << >> /\ ghost.spent = 0
  BY <1>0, TypeInit DEF Init
<1>2. Len(queue) = 0 /\ Unseen(0)
  BY <1>1 DEF Unseen
<1>3. SpendSeen
  BY <1>1, <1>2, Numbers DEF SpendSeen
<1>4. ~ghost.torn => cache.limited
  <2>1. CASE l = 0
    BY <1>0, <2>1
  <2>2. CASE l > 0
    BY <1>0, <2>2
  <2>3. l \in Nat
    BY QuotaAssumption
  <2> QED
    BY <2>1, <2>2, <2>3
<1>5. Billable = {}
  BY DEF Init, Billable
<1> QED
  BY <1>1, <1>3, <1>4, <1>5, Numbers, HoldersFinite, Bounds DEF Watched, OvershootBounded

\* The step of a request.
LEMMA SpendRequest ==
  ASSUME SpendInv, TypeOK', PlaceInv', NEW r \in Requests, RequestStep(r)
  PROVE  Watched' /\ OvershootBounded'
<1>1. TypeOK /\ at \in [Requests -> Stages] /\ UNCHANGED <<today, hand>>
  BY DEF SpendInv, PlaceInv, TypeOK, RequestStep, Arrive, Refreshed, Resolve, Evict, TakeSlot,
         CheckCost, Finish, FinishUncharged, Leave
<1>2. ASSUME UNCHANGED <<cache, queue, ghost>>, active' <= active, Billable' \subseteq Billable
      PROVE  Watched' /\ OvershootBounded'
  <2>1. OvershootBounded'
    BY <1>1, <1>2, Numbers, SpendLess
  <2>2. ~ghost.torn => SpendSeen'
    BY <1>1, <1>2, SeenKept, Numbers DEF SpendInv, Watched, InHand
  <2>3. ~ghost.torn => active' <= MaxConns
    <3>1. active' \in Nat /\ active \in Nat /\ MaxConns \in Nat
      BY Bounds, <1>1 DEF TypeOK
    <3> QED
      BY <1>2, <3>1 DEF SpendInv, Watched
  <2> QED
    BY <1>2, <2>1, <2>2, <2>3 DEF SpendInv, Watched
<1>3. CASE Arrive(r) \/ Refreshed(r) \/ Resolve(r)
  <2>1. UNCHANGED <<cache, queue, ghost, active>> /\ \E s \in Stages \ {"running"} : Goto(r, s)
    BY <1>3 DEF Arrive, Refreshed, Resolve, Stages
  <2>2. Billable' \subseteq Billable
    BY <1>1, <2>1 DEF Billable, Goto
  <2> QED
    BY <1>1, <1>2, <2>1, <2>2, Numbers
<1>4. CASE Evict(r)
  <2>1. ghost \in Ghost
    BY <1>1 DEF TypeOK
  <2>2. ghost'.torn /\ ghost'.spent = ghost.spent /\ ghost'.ceiling = ghost.ceiling
    <3>1. ghost' = [ghost EXCEPT !.gap = TRUE, !.torn = TRUE]
      BY <1>4 DEF Evict
    <3> QED
      BY <2>1, <3>1, GhostTorn
  <2> QED
    BY <2>2 DEF Watched, OvershootBounded
<1>5. CASE TakeSlot(r)
  <2>1. UNCHANGED <<cache, queue, ghost>> /\ \E s \in Stages \ {"running"} : Goto(r, s)
    BY <1>5 DEF TakeSlot, Stages
  <2>2. Billable' \subseteq Billable
    BY <1>1, <2>1 DEF Billable, Goto
  <2>3. CASE UNCHANGED active
    BY <1>1, <1>2, <2>1, <2>2, <2>3, Numbers
  <2>4. CASE active' = active + 1
    <3>1. ~ghost.torn => active' <= MaxConns
      BY <1>1, <1>5, <2>4, Numbers, Bounds DEF TakeSlot, SpendInv, Watched, TypeOK
    <3>2. OvershootBounded'
      BY <1>1, <2>1, <2>2, Numbers, SpendLess
    <3>3. ~ghost.torn => SpendSeen'
      BY <1>1, <2>1, SeenKept, Numbers DEF SpendInv, Watched, InHand
    <3> QED
      BY <2>1, <3>1, <3>2, <3>3 DEF SpendInv, Watched
  <2> QED
    BY <1>5, <2>3, <2>4 DEF TakeSlot
<1>6. CASE CheckCost(r)
  <2>1. UNCHANGED <<cache, queue>> /\ ghost'.spent = ghost.spent /\ at[r] = "check"
    BY <1>1, <1>6, CheckedGhost DEF CheckCost
  <2>2. CASE UNCHANGED ghost /\ Goto(r, "idle") /\ Release
    <3>1. Billable' \subseteq Billable
      BY <1>1, <2>2 DEF Billable, Goto
    <3>2. active' <= active
      BY <1>1, <2>2, Numbers DEF Release
    <3> QED
      BY <1>2, <2>1, <2>2, <3>1, <3>2
  <2>3. CASE /\ Goto(r, "running") /\ UNCHANGED active
             /\ ghost'.torn = (ghost.torn \/ ~cache.limited)
             /\ ghost'.ceiling = Larger(ghost.ceiling, cache.limit)
             /\ cache.limited => UsedOn(cache, today) < cache.limit
    <3> SUFFICES ASSUME ~ghost'.torn PROVE Watched' /\ OvershootBounded'
      BY DEF Watched, OvershootBounded
    <3>1. ~ghost.torn /\ cache.limited
      BY <2>3
    <3>2. active <= MaxConns /\ SpendSeen
      BY <3>1 DEF SpendInv, Watched
    <3>3. SpendSeen'
      BY <1>1, <2>1, <3>2, SeenKept, Numbers DEF InHand
    <3>4. Billable' \subseteq Holders /\ IsFiniteSet(Holders)
      BY <1>1, <2>1, <2>3, HoldersFinite DEF Billable, Holders, Placed, Goto
    <3>5. Cardinality(Billable') \in Nat /\ Cardinality(Billable') <= active
      BY <3>4, FS_Subset, FS_CardinalityType DEF SpendInv, PlaceInv, PlacesAreHeld
    <3>6. ghost.spent <= UsedOn(cache, today) + QueueCap + 1
      BY <1>1, <3>2, SpentSeen
    <3>7. ghost'.ceiling \in Nat /\ ghost'.ceiling >= cache.limit
      BY <1>1, <2>3, Numbers DEF Larger
    <3>8. OvershootBounded'
      BY <1>1, <2>1, <2>3, <3>1, <3>2, <3>5, <3>6, <3>7, Numbers, Bounds, SMTT(40) DEF OvershootBounded
    <3> QED
      BY <2>1, <2>3, <3>1, <3>2, <3>3, <3>8 DEF Watched
  <2> QED
    BY <1>1, <1>6, <2>2, <2>3, CheckedGhost
<1>7. CASE Finish(r)
  <2>1. /\ UNCHANGED <<cache, active>> /\ queue' = Append(queue, today) /\ at[r] = "running"
        /\ Goto(r, "leaving") /\ ghost' = [ghost EXCEPT !.spent = ghost.spent + 1]
    BY <1>7 DEF Finish
  <2>2. ghost'.spent = ghost.spent + 1 /\ ghost'.torn = ghost.torn /\ ghost'.ceiling = ghost.ceiling
    BY <1>1, <2>1 DEF TypeOK, Ghost
  <2>3. Billable' = Billable \ {r} /\ r \in Billable
    BY <1>1, <2>1 DEF Billable, Goto
  <2>4. Cardinality(Billable') = Cardinality(Billable) - 1
    BY <1>1, <2>3, BillableFinite, FS_RemoveElement
  <2>5. OvershootBounded'
    BY <1>1, <2>2, <2>4, Numbers, BillableFinite, Bounds, SMTT(40) DEF SpendInv, OvershootBounded
  <2>6. ASSUME SpendSeen PROVE SpendSeen'
    <3>1. PICK k \in 0..Len(queue) : Unseen(k) /\ ghost.spent <= UsedOn(cache, today) + k + InHand
      BY <2>6 DEF SpendSeen
    <3>2. Len(queue) \in Nat /\ Len(queue') = Len(queue) + 1 /\ queue'[Len(queue) + 1] = today
          /\ \A i \in 1..Len(queue) : queue'[i] = queue[i]
      BY <1>1, <2>1, Numbers, Bounds, AppendProperties, SMTT(40) DEF TypeOK
    <3>3. k + 1 \in 0..Len(queue')
      BY <3>2
    <3>4. Unseen(k + 1)'
      <4> SUFFICES ASSUME NEW i \in 1..Len(queue'), i > Len(queue') - (k + 1)
                   PROVE  queue'[i] = today'
        BY DEF Unseen
      <4>1. CASE i = Len(queue) + 1
        BY <1>1, <3>2, <4>1
      <4>2. CASE i # Len(queue) + 1
        <5>1. i \in 1..Len(queue) /\ i > Len(queue) - k
          BY <3>2, <4>2
        <5> QED
          BY <1>1, <3>1, <3>2, <5>1 DEF Unseen
      <4> QED
        BY <4>1, <4>2
    <3>5. ghost'.spent <= UsedOn(cache', today') + (k + 1) + InHand'
      <4>1. UsedOn(cache', today') = UsedOn(cache, today) /\ InHand' = InHand
        BY <1>1, <2>1 DEF InHand
      <4> QED
        BY <1>1, <2>2, <3>1, <3>2, <4>1, Numbers
    <3> QED
      BY <3>3, <3>4, <3>5 DEF SpendSeen
  <2> QED
    BY <2>1, <2>2, <2>5, <2>6 DEF SpendInv, Watched
<1>8. CASE FinishUncharged(r) \/ Leave(r)
  <2>1. UNCHANGED <<cache, queue, ghost>> /\ \E s \in Stages \ {"running"} : Goto(r, s)
    BY <1>8 DEF FinishUncharged, Leave, Stages
  <2>2. Billable' \subseteq Billable
    BY <1>1, <2>1 DEF Billable, Goto
  <2>3. active' <= active
    BY <1>1, <1>8, Numbers DEF FinishUncharged, Leave, Release
  <2> QED
    BY <1>2, <2>1, <2>2, <2>3
<1> QED
  BY <1>3, <1>4, <1>5, <1>6, <1>7, <1>8 DEF RequestStep

\* The worker takes a charge from the queue.
LEMMA SpendTake ==
  ASSUME SpendInv, TypeOK', TakeCharge
  PROVE  Watched' /\ OvershootBounded'
<1>1. TypeOK /\ TypeOK'
  BY DEF SpendInv, PlaceInv
<1>2. /\ UNCHANGED <<today, cache, active, at, ghost>> /\ queue' = Tail(queue) /\ hand.stage = "empty"
      /\ hand'.stage = "taken" /\ hand'.day = queue[1] /\ queue # << >>
  BY DEF TakeCharge
<1>3. Len(queue) \in Nat \ {0} /\ Len(queue') = Len(queue) - 1
      /\ \A i \in 1..Len(queue') : queue'[i] = queue[i + 1]
  BY <1>1, <1>2, Numbers
<1>4. Billable' = Billable
  BY <1>2 DEF Billable
<1>5. OvershootBounded'
  BY <1>1, <1>2, <1>4, SpendLess, Numbers
<1>6. ASSUME SpendSeen PROVE SpendSeen'
  <2>1. PICK k \in 0..Len(queue) : Unseen(k) /\ ghost.spent <= UsedOn(cache, today) + k + InHand
    BY <1>6 DEF SpendSeen
  <2>2. InHand = 0 /\ InHand' \in 0..1
    BY <1>2 DEF InHand
  <2>3. CASE k = Len(queue)
    <3>1. queue[1] = today /\ InHand' = 1
      BY <1>2, <1>3, <2>1, <2>3 DEF Unseen, InHand
    <3>2. Unseen(k - 1)'
      BY <1>2, <1>3, <2>1, <2>3 DEF Unseen
    <3>3. k - 1 \in 0..Len(queue') /\ ghost'.spent <= UsedOn(cache', today') + (k - 1) + InHand'
      <4>1. UsedOn(cache', today') = UsedOn(cache, today) /\ ghost' = ghost
        BY <1>2
      <4> QED
        BY <1>1, <1>3, <2>1, <2>2, <2>3, <3>1, <4>1, Numbers
    <3> QED
      BY <3>2, <3>3 DEF SpendSeen
  <2>4. CASE k # Len(queue)
    <3>1. Unseen(k)'
      <4> SUFFICES ASSUME NEW i \in 1..Len(queue'), i > Len(queue') - k PROVE queue'[i] = today'
        BY DEF Unseen
      <4>1. i + 1 \in 1..Len(queue) /\ i + 1 > Len(queue) - k /\ queue'[i] = queue[i + 1]
        BY <1>3, <2>1
      <4> QED
        BY <1>2, <2>1, <4>1 DEF Unseen
    <3>2. k \in 0..Len(queue') /\ ghost'.spent <= UsedOn(cache', today') + k + InHand'
      <4>1. UsedOn(cache', today') = UsedOn(cache, today) /\ ghost' = ghost
        BY <1>2
      <4> QED
        BY <1>1, <1>3, <2>1, <2>2, <2>4, <4>1, Numbers
    <3> QED
      BY <3>1, <3>2 DEF SpendSeen
  <2> QED
    BY <2>3, <2>4
<1> QED
  BY <1>2, <1>5, <1>6 DEF SpendInv, Watched

LEMMA SpendNext == SpendInv /\ [Next]_vars => SpendInv'
<1> SUFFICES ASSUME SpendInv, [Next]_vars PROVE Watched' /\ OvershootBounded'
  BY PlaceNext, DayNext DEF SpendInv, PlaceInv
<1>1. TypeOK /\ TypeOK' /\ PlaceInv'
  BY PlaceNext DEF SpendInv, PlaceInv
<1>2. ASSUME UNCHANGED <<queue, today, hand, cache, active, ghost>>, Billable' \subseteq Billable
      PROVE  Watched' /\ OvershootBounded'
  <2>1. OvershootBounded'
    BY <1>1, <1>2, SpendLess, Numbers
  <2>2. SpendSeen => SpendSeen'
    BY <1>1, <1>2, SeenKept, Numbers DEF InHand
  <2> QED
    BY <1>2, <2>1, <2>2 DEF SpendInv, Watched
<1>3. ASSUME NEW ok \in BOOLEAN, Loaded(ok) PROVE Billable' \subseteq Billable
  <2>1. at \in [Requests -> Stages]
    BY <1>1 DEF TypeOK
  <2>2. UNCHANGED at \/ \E w \in Requests : Goto(w, "resolve") \/ Goto(w, "idle")
    BY <1>3 DEF Loaded
  <2> QED
    BY <2>1, <2>2 DEF Billable, Goto
<1>4. CASE \E r \in Requests : RequestStep(r)
  BY <1>1, <1>4, SpendRequest
<1>5. CASE TakeCharge
  BY <1>1, <1>5, SpendTake
<1>6. CASE AddCostToCache
  <2>1. /\ UNCHANGED <<queue, today, active, at>> /\ hand.stage = "taken"
        /\ cache' = IF cache.limited THEN Charged(cache, hand.day) ELSE cache
        /\ ghost' = IF cache.limited THEN ghost ELSE [ghost EXCEPT !.gap = TRUE, !.torn = TRUE]
    BY <1>6 DEF AddCostToCache
  <2>2. hand'.stage = "cached"
    BY <1>1, <1>6 DEF AddCostToCache, TypeOK
  <2>3. CASE ~cache.limited
    <3>1. ghost'.torn
      BY <1>1, <2>1, <2>3, GhostTorn DEF TypeOK
    <3> QED
      BY <3>1 DEF Watched, OvershootBounded
  <2>4. CASE cache.limited
    <3>1. cache' = Charged(cache, hand.day) /\ UNCHANGED ghost
      BY <2>1, <2>4
    <3>2. cache'.limited
      BY <1>1, <2>4, <3>1, ChargedCache, Numbers
    <3>3. cache.day <= today /\ hand.day <= today /\ hand.day \in Nat
      BY <1>1, Numbers, Bounds DEF SpendInv, DayInv
    <3>4. UsedOn(cache, today) + InHand <= UsedOn(cache', today') + InHand'
      <4>1. InHand' = 0 /\ InHand = IF hand.day = today THEN 1 ELSE 0
        BY <2>1, <2>2 DEF InHand
      <4>2. CASE hand.day = today
        <5>1. /\ Charged(cache, today).day = today
              /\ Charged(cache, today).used = IF today = cache.day THEN cache.used + 1 ELSE 1
          <6>1. today \in Days /\ today \in Nat /\ cache \in Cache /\ cache.day \in Nat
            BY <1>1, Numbers DEF TypeOK
          <6>2. ~(today < cache.day)
            BY <3>3, <6>1
          <6> QED
            BY <6>1, <6>2, ChargedCache
        <5>2. UsedOn(cache', today') = IF today = cache.day THEN cache.used + 1 ELSE 1
          BY <2>1, <3>1, <4>2, <5>1 DEF UsedOn
        <5> QED
          BY <1>1, <4>1, <4>2, <5>2, Numbers DEF UsedOn
      <4>3. CASE hand.day # today /\ cache.day = today
        BY <1>1, <2>1, <3>1, <3>3, <4>1, <4>3, ChargedCache, Numbers DEF UsedOn
      <4>4. CASE hand.day # today /\ cache.day # today
        <5>1. UsedOn(cache, today) = 0 /\ UsedOn(cache', today') \in Nat
          BY <1>1, <4>4, Bounds DEF UsedOn, TypeOK, Cache
        <5> QED
          BY <4>1, <4>4, <5>1
      <4> QED
        BY <4>2, <4>3, <4>4
    <3>5. SpendSeen => SpendSeen'
      BY <1>1, <2>1, <3>1, <3>4, SeenKept, Numbers
    <3>6. OvershootBounded'
      BY <1>1, <2>1, <3>1, SpendLess, Numbers DEF Billable
    <3> QED
      BY <2>1, <3>1, <3>2, <3>5, <3>6 DEF SpendInv, Watched
  <2> QED
    BY <2>3, <2>4
<1>7. CASE UpdateTokenStats
  <2>1. hand.stage = "cached" /\ hand'.stage = "empty" /\ UNCHANGED <<queue, today, cache, active, at, ghost>>
    BY <1>7 DEF UpdateTokenStats
  <2>2. InHand = 0 /\ InHand' = 0
    BY <2>1 DEF InHand
  <2>3. SpendSeen => SpendSeen'
    BY <1>1, <2>1, <2>2, SeenKept, Numbers
  <2>4. OvershootBounded'
    BY <1>1, <2>1, SpendLess, Numbers DEF Billable
  <2> QED
    BY <2>1, <2>3, <2>4 DEF SpendInv, Watched
<1>8. CASE LoadInstall
  <2> DEFINE g == (ghost.gap \/ Torn) /\ ~(loader.quiet /\ loader.read.day = today)
             t == ghost.torn \/ Torn
  <2>1. /\ UNCHANGED <<queue, today, active, hand>> /\ \E ok \in BOOLEAN : Loaded(ok)
        /\ cache' = Merged(cache, loader.read)
        /\ ghost' = [ghost EXCEPT !.gap = g, !.torn = t]
    BY <1>8 DEF LoadInstall
  <2>2. ghost \in Ghost /\ cache \in Cache /\ loader.read \in Cache
    BY <1>1 DEF TypeOK
  <2>3. g \in BOOLEAN /\ t \in BOOLEAN
    BY <2>2 DEF Torn, Ghost, Cache
  <2>4. ghost'.torn = t /\ ghost'.spent = ghost.spent /\ ghost'.ceiling = ghost.ceiling
    <3> HIDE DEF g, t
    <3> QED
      BY <2>1, <2>2, <2>3, GhostTorn
  <2>5. Billable' \subseteq Billable
    BY <1>3, <2>1
  <2>6. OvershootBounded'
    BY <1>1, <2>4, <2>5, SpendLess, Numbers
  <2>7. ASSUME ~ghost'.torn PROVE cache'.limited /\ active' <= MaxConns /\ SpendSeen'
    <3>1. ~ghost.torn /\ cache.limited /\ loader.read.limited /\ ~(cache.day > loader.read.day)
      BY <2>4, <2>7 DEF Torn
    <3>2. /\ cache'.limited = loader.read.limited /\ cache'.day = loader.read.day
          /\ cache' \in Cache
      BY <2>1, <2>2, MergedType
    <3>3. cache.day = loader.read.day => cache'.used >= cache.used
      BY <2>1, <2>2, <3>1 DEF Merged, Larger, Cache
    <3>4. UsedOn(cache, today) <= UsedOn(cache', today')
      <4>1. cache.day <= today /\ loader.read.day <= today /\ loader.read.day \in Nat
            /\ cache'.used \in Nat /\ today' = today
        BY <2>1, <2>2, <3>2, Bounds DEF SpendInv, DayInv, Cache
      <4>2. CASE cache.day = today
        BY <1>1, <3>1, <3>2, <3>3, <4>1, <4>2, Numbers DEF UsedOn
      <4>3. CASE cache.day # today
        BY <4>1, <4>3 DEF UsedOn
      <4> QED
        BY <4>2, <4>3
    <3>5. InHand' = InHand
      BY <2>1 DEF InHand
    <3>6. UsedOn(cache, today) + InHand <= UsedOn(cache', today') + InHand'
      <4>1. UsedOn(cache', today') \in Nat
        BY <1>1 DEF TypeOK, Cache, UsedOn
      <4> QED
        BY <1>1, <3>4, <3>5, <4>1, Numbers
    <3>7. SpendSeen'
      BY <1>1, <2>1, <2>4, <3>1, <3>6, SeenKept, Numbers DEF SpendInv, Watched
    <3> QED
      BY <2>1, <3>1, <3>2, <3>7 DEF SpendInv, Watched
  <2> QED
    BY <2>6, <2>7 DEF Watched
<1>9. CASE LoadFails
  <2>1. Loaded(FALSE) /\ UNCHANGED <<queue, today, hand, cache, active, ghost>>
    BY <1>9 DEF LoadFails
  <2> QED
    BY <1>2, <1>3, <2>1
<1>10. CASE Midnight
  <2>1. /\ UNCHANGED <<at, active, cache, queue>> /\ ghost' = [ghost EXCEPT !.spent = 0]
    BY <1>10 DEF Midnight
  <2>2. ghost'.spent = 0 /\ ghost'.torn = ghost.torn /\ ghost'.ceiling = ghost.ceiling
    BY <1>1, <2>1 DEF TypeOK, Ghost
  <2>3. SpendSeen'
    <3>1. Unseen(0)' /\ UsedOn(cache', today') \in Nat /\ InHand' \in 0..1 /\ Len(queue') \in Nat
      BY <1>1 DEF Unseen, UsedOn, InHand, TypeOK, Cache
    <3> QED
      BY <2>2, <3>1 DEF SpendSeen
  <2>4. Billable' \subseteq Billable
    BY <2>1 DEF Billable
  <2>5. OvershootBounded'
    BY <1>1, <2>2, <2>4, SpendLess, Numbers
  <2> QED
    BY <2>1, <2>2, <2>3, <2>5 DEF SpendInv, Watched
<1>11. CASE UNCHANGED <<queue, today, hand, cache, active, ghost, at>>
  BY <1>2, <1>11 DEF Billable
<1> QED
  BY <1>4, <1>5, <1>6, <1>7, <1>8, <1>9, <1>10, <1>11
    DEF Next, LoadRead, Edit, GrowsStale, ExpiryPasses, vars

\* What a token has spent of a window stays below the highest limit its
\* requests were checked against plus what may be under way unseen: the
\* requests with a place, the queue, and the charge in the worker's hand.
THEOREM Overshoot == Spec => []OvershootBounded
BY SpendInit, SpendNext, PTL DEF Spec, SpendInv
=============================================================================
