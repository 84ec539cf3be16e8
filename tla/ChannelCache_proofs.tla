------------------------- MODULE ChannelCache_proofs -------------------------
(***************************************************************************)
(* The channel list and the API keys are never cached out of date for good,*)
(* and never answered older than settled, for any readers, writers and     *)
(* channels.                                                               *)
(***************************************************************************)
EXTENDS ChannelCache, TLAPS

-----------------------------------------------------------------------------
(* The inductive invariant *)

\* Version v of item i is the newest, or a writer still has to invalidate i;
\* and no invalidation was about a newer one.
Acceptable(i, v) ==
  /\ v = db[i] \/ Owed(i)
  /\ v >= settled[i]

EntryOK(i) == cache[i].fresh => Acceptable(i, cache[i].version)

\* The generations a reader noted are of the past, and if they are those of the
\* present, what it has got since is acceptable.
LoadOK(r) ==
  /\ reader[r].step \in {"query", "store"} /\ reader[r].item \in Guarded =>
       /\ reader[r].gen <= gen[reader[r].item]
       /\ reader[r].item \in Channels => reader[r].allGen <= allGen
  /\ reader[r].step = "store" /\ reader[r].item \in Guarded =>
       /\ reader[r].got >= reader[r].floor
       /\ Unchanged(r) => Acceptable(reader[r].item, reader[r].got)

ReaderOK(r) ==
  /\ LoadOK(r)
  /\ reader[r].floor <= settled[reader[r].item]
  /\ reader[r].step \in {"lock", "recheck", "read"} => reader[r].item = List
  /\ reader[r].step = "read" => cache[List].version >= reader[r].floor
  /\ reader[r].step = "done" /\ reader[r].item \in Guarded => reader[r].got >= reader[r].floor

CacheInv ==
  /\ TypeOK
  /\ \A i \in Items : settled[i] <= db[i]
  /\ \A i \in Guarded : EntryOK(i)
  /\ \A r \in Readers : ReaderOK(r)

-----------------------------------------------------------------------------
(* Types *)

LEMMA ItemKinds ==
  /\ List \in Guarded /\ Channels \subseteq Guarded /\ Guarded \subseteq Items
  /\ Cooldowns \subseteq Items /\ List \notin Channels
  /\ \A i \in Guarded : i = List \/ i \in Channels
  /\ \A i \in Cooldowns : i \notin Guarded
BY ItemsAssumption DEF Guarded, Items

LEMMA TypeInit == Init => TypeOK
BY ItemKinds DEF Init, TypeOK, Entry, Reader, Steps

\* A step that moves one reader.
LEMMA HoldsType ==
  ASSUME TypeOK, NEW r \in Readers, NEW s \in Steps, NEW g \in Nat, NEW ag \in Nat,
         NEW v \in Nat, Holds(r, s, g, ag, v)
  PROVE  reader' \in [Readers -> Reader]
BY DEF TypeOK, Holds, Reader

LEMMA OutdatedType ==
  ASSUME TypeOK, NEW i \in Items
  PROVE  Outdated(i) \in Entry
BY DEF TypeOK, Entry, Outdated

LEMMA StoredType ==
  ASSUME TypeOK, NEW r \in Readers
  PROVE  Stored(r) \in [Items -> Entry]
<1>1. [version |-> reader[r].got, fresh |-> TRUE] \in Entry
  BY DEF TypeOK, Reader, Entry
<1> QED
  BY <1>1 DEF TypeOK, Stored

LEMMA SettleType ==
  ASSUME TypeOK, NEW w \in Writers, NEW S \in SUBSET Items, Settle(w, S)
  PROVE  /\ cache' \in [Items -> Entry]
         /\ writer' \in [Writers -> SUBSET Items]
         /\ settled' \in [Items -> Nat]
<1>1. cache' \in [Items -> Entry]
  BY OutdatedType DEF TypeOK, Settle
<1>2. writer' \in [Writers -> SUBSET Items]
  BY DEF TypeOK, Settle
<1>3. settled' \in [Items -> Nat]
  BY DEF TypeOK, Settle
<1> QED
  BY <1>1, <1>2, <1>3

-----------------------------------------------------------------------------
(* Kinds of steps *)

dataKept == UNCHANGED <<db, gen, allGen, writer, writes, settled>>

\* Reader r moves, and the cache stays or takes what it stores.
ReaderStep(r) ==
  /\ dataKept /\ mutex' \in Readers \cup {Nobody}
  /\ \/ cache' = cache
     \/ /\ reader[r].step = "store" /\ cache' = Stored(r)
        /\ reader[r].item \in Guarded => Unchanged(r)
  /\ reader'[r] \in Reader
  /\ reader' = [reader EXCEPT ![r] = reader'[r]]

\* What a reader may become.
Becomes(r, x) ==
  \/ /\ x.step \in {"idle", "lock", "recheck", "fallback"}
     /\ x.floor = reader[r].floor /\ x.item = reader[r].item
     /\ x.step \in {"lock", "recheck"} => x.item = List
  \/ /\ x.step = "check"
     /\ x.floor = settled[x.item]
  \/ /\ x.step = "query"
     /\ x.floor = reader[r].floor /\ x.item = reader[r].item
     /\ x.item \in Guarded => x.gen = gen[x.item]
     /\ x.item \in Channels => x.allGen = allGen
  \/ /\ x.step = "store" /\ reader[r].step = "query"
     /\ x.floor = reader[r].floor /\ x.item = reader[r].item
     /\ x.gen = reader[r].gen /\ x.allGen = reader[r].allGen
     /\ x.got = db[x.item]
  \/ /\ x.step = "read"
     /\ x.floor = reader[r].floor /\ x.item = reader[r].item /\ x.item = List
     /\ cache'[List].fresh
  \/ /\ x.step = "done"
     /\ x.floor = reader[r].floor /\ x.item = reader[r].item
     /\ \/ cache[x.item].fresh /\ x.got = cache[x.item].version
        \/ x.got = db[x.item]
        \/ reader[r].step = "store" /\ x.got = reader[r].got
        \/ reader[r].step = "read" /\ x.got = cache[List].version

LEMMA HoldsIs ==
  ASSUME TypeOK, NEW r \in Readers, NEW s \in Steps, NEW g \in Nat, NEW ag \in Nat,
         NEW v \in Nat, Holds(r, s, g, ag, v)
  PROVE  /\ reader'[r] \in Reader
         /\ reader' = [reader EXCEPT ![r] = reader'[r]]
         /\ reader'[r].step = s /\ reader'[r].item = reader[r].item
         /\ reader'[r].floor = reader[r].floor /\ reader'[r].gen = g
         /\ reader'[r].allGen = ag /\ reader'[r].got = v
BY DEF TypeOK, Holds, Reader

LEMMA ReaderMoves ==
  ASSUME CacheInv, NEW r \in Readers,
         \/ \E i \in Items : Ask(r, i)
         \/ LockRefresh(r) \/ GiveUp(r) \/ QueryFails(r) \/ FallbackFails(r) \/ Lookup(r)
  PROVE  ReaderStep(r) /\ Becomes(r, reader'[r])
<1> USE ItemKinds
<1>0. /\ TypeOK /\ ReaderOK(r)
      /\ reader[r] \in Reader /\ reader[r].item \in Items
      /\ reader[r].gen \in Nat /\ reader[r].allGen \in Nat /\ reader[r].got \in Nat
      /\ mutex \in Readers \cup {Nobody} /\ allGen \in Nat
      /\ \A i \in Items : db[i] \in Nat /\ cache[i].version \in Nat
      /\ \A i \in Guarded : gen[i] \in Nat
  BY DEF CacheInv, TypeOK, Reader, Entry
<1>a. \A s \in {"idle", "check", "lock", "recheck", "query", "store", "read", "fallback", "done"} : s \in Steps
  BY DEF Steps
<1>b. ASSUME NEW s \in Steps, NEW g \in Nat, NEW ag \in Nat, NEW v \in Nat,
             Holds(r, s, g, ag, v)
      PROVE  /\ reader'[r] \in Reader
             /\ reader' = [reader EXCEPT ![r] = reader'[r]]
             /\ reader'[r].step = s /\ reader'[r].item = reader[r].item
             /\ reader'[r].floor = reader[r].floor /\ reader'[r].gen = g
             /\ reader'[r].allGen = ag /\ reader'[r].got = v
  BY <1>0, <1>b, HoldsIs
<1>1. ASSUME NEW i \in Items, Ask(r, i)
      PROVE  ReaderStep(r) /\ Becomes(r, reader'[r])
  <2>1. settled[i] \in Nat
    BY <1>0 DEF TypeOK
  <2>2. reader'[r] = [step |-> "check", item |-> i, floor |-> settled[i], gen |-> 0,
                      allGen |-> 0, got |-> 0]
    BY <1>0, <1>1 DEF Ask, TypeOK
  <2>3. reader'[r] \in Reader
    BY <2>1, <2>2, <1>a DEF Reader
  <2>4. reader' = [reader EXCEPT ![r] = reader'[r]]
    BY <1>1, <2>2 DEF Ask
  <2>5. ReaderStep(r)
    BY <1>0, <1>1, <2>3, <2>4 DEF Ask, ReaderStep, dataKept
  <2>6. Becomes(r, reader'[r])
    BY <2>2 DEF Becomes
  <2> QED
    BY <2>5, <2>6
<1>2. CASE LockRefresh(r)
  <2>1. Holds(r, "recheck", 0, 0, 0)
    BY <1>2 DEF LockRefresh, Goes
  <2>2. ReaderStep(r)
    BY <1>0, <1>a, <1>2, <2>1, <1>b DEF LockRefresh, ReaderStep, dataKept
  <2>3. reader'[r].step = "recheck" /\ reader'[r].item = reader[r].item
        /\ reader'[r].floor = reader[r].floor
    BY <1>0, <1>a, <2>1, <1>b
  <2>4. reader[r].item = List
    BY <1>0, <1>2 DEF LockRefresh, ReaderOK
  <2>5. Becomes(r, reader'[r])
    BY <2>3, <2>4 DEF Becomes
  <2> QED
    BY <2>2, <2>5
<1>3. CASE GiveUp(r)
  <2>1. Holds(r, "idle", 0, 0, 0)
    BY <1>3 DEF GiveUp, Goes
  <2>2. ReaderStep(r)
    BY <1>0, <1>a, <1>3, <2>1, <1>b DEF GiveUp, ReaderStep, dataKept
  <2>3. Becomes(r, reader'[r])
    BY <1>0, <1>a, <1>3, <2>1, <1>b DEF GiveUp, Becomes
  <2> QED
    BY <2>2, <2>3
<1>4. CASE QueryFails(r)
  <2>1. Holds(r, "fallback", 0, 0, 0)
    BY <1>4 DEF QueryFails, Goes
  <2>2. ReaderStep(r)
    BY <1>0, <1>a, <1>4, <2>1, <1>b DEF QueryFails, ReaderStep, dataKept
  <2>3. Becomes(r, reader'[r])
    BY <1>0, <1>a, <1>4, <2>1, <1>b DEF QueryFails, Becomes
  <2> QED
    BY <2>2, <2>3
<1>5. CASE CheckList(r)
  <2>1. CASE cache[List].fresh
    <3>1. Holds(r, "read", 0, 0, 0)
      BY <1>5, <2>1 DEF CheckList, Goes
    <3> QED
      BY <1>0, <1>a, <1>5, <2>1, <3>1, <1>b DEF CheckList, ReaderStep, Becomes, dataKept
  <2>2. CASE ~cache[List].fresh
    <3>1. Holds(r, "lock", 0, 0, 0)
      BY <1>5, <2>2 DEF CheckList, Goes
    <3> QED
      BY <1>0, <1>a, <1>5, <3>1, <1>b DEF CheckList, ReaderStep, Becomes, dataKept
  <2> QED
    BY <2>1, <2>2
<1>6. CASE FoundFresh(r)
  <2>1. Holds(r, "read", 0, 0, 0)
    BY <1>6 DEF FoundFresh, Goes
  <2>2. ReaderStep(r)
    BY <1>0, <1>a, <1>6, <2>1, <1>b DEF FoundFresh, ReaderStep, dataKept
  <2>3. Becomes(r, reader'[r])
    BY <1>0, <1>a, <1>6, <2>1, <1>b DEF FoundFresh, ReaderOK, Becomes
  <2> QED
    BY <2>2, <2>3
<1>7. CASE FoundStale(r)
  <2>1. Holds(r, "query", gen[List], 0, 0)
    BY <1>7 DEF FoundStale
  <2>2. ReaderStep(r)
    BY <1>0, <1>a, <1>7, <2>1, <1>b DEF FoundStale, ReaderStep, dataKept
  <2>3. Becomes(r, reader'[r])
    BY <1>0, <1>a, <1>7, <2>1, <1>b DEF FoundStale, ReaderOK, Becomes
  <2> QED
    BY <2>2, <2>3
<1>8. CASE CheckEntry(r)
  <2>1. CASE cache[reader[r].item].fresh
    <3>1. Holds(r, "done", 0, 0, cache[reader[r].item].version)
      BY <1>8, <2>1 DEF CheckEntry, Returns
    <3> /\ cache[reader[r].item].version \in Nat /\ "done" \in Steps
      BY <1>0, <1>a
    <3>2. /\ reader'[r] \in Reader /\ reader' = [reader EXCEPT ![r] = reader'[r]]
          /\ reader'[r].step = "done" /\ reader'[r].item = reader[r].item
          /\ reader'[r].floor = reader[r].floor
          /\ reader'[r].got = cache[reader[r].item].version
      BY <1>0, <3>1, <1>b
    <3>3. ReaderStep(r)
      BY <1>0, <1>8, <3>2 DEF CheckEntry, ReaderStep, dataKept
    <3>4. Becomes(r, reader'[r])
      BY <2>1, <3>2 DEF Becomes
    <3> QED
      BY <3>3, <3>4
  <2>2. CASE ~cache[reader[r].item].fresh
    <3>1. Holds(r, "query", GenOf(reader[r].item), allGen, 0)
      BY <1>8, <2>2 DEF CheckEntry
    <3>2. GenOf(reader[r].item) \in Nat
      BY <1>0 DEF GenOf
    <3>3. /\ reader'[r] \in Reader /\ reader' = [reader EXCEPT ![r] = reader'[r]]
          /\ reader'[r].step = "query" /\ reader'[r].item = reader[r].item
          /\ reader'[r].floor = reader[r].floor
          /\ reader'[r].gen = GenOf(reader[r].item) /\ reader'[r].allGen = allGen
      BY <1>0, <1>a, <3>1, <3>2, <1>b
    <3>4. ReaderStep(r)
      BY <1>0, <1>8, <3>3 DEF CheckEntry, ReaderStep, dataKept
    <3>5. Becomes(r, reader'[r])
      BY <3>3 DEF GenOf, Becomes
    <3> QED
      BY <3>4, <3>5
  <2> QED
    BY <2>1, <2>2
<1>9. CASE Query(r)
  <2>1. Holds(r, "store", reader[r].gen, reader[r].allGen, db[reader[r].item])
    BY <1>9 DEF Query
  <2>2. ReaderStep(r)
    BY <1>0, <1>a, <1>9, <2>1, <1>b DEF Query, ReaderStep, dataKept
  <2>3. Becomes(r, reader'[r])
    BY <1>0, <1>a, <1>9, <2>1, <1>b DEF Query, Becomes
  <2> QED
    BY <2>2, <2>3
<1>10. CASE PublishList(r)
  <2>1. CASE Unchanged(r)
    <3>1. Holds(r, "read", 0, 0, 0) /\ cache' = Stored(r)
      BY <1>10, <2>1 DEF PublishList, Goes
    <3>2. cache'[List].fresh
      BY <1>0, <1>10, <3>1 DEF Stored, PublishList, TypeOK
    <3> QED
      BY <1>0, <1>a, <1>10, <2>1, <3>1, <3>2, <1>b DEF PublishList, ReaderStep, Becomes, dataKept
  <2>2. CASE ~Unchanged(r)
    <3>1. Holds(r, "recheck", 0, 0, 0)
      BY <1>10, <2>2 DEF PublishList, Goes
    <3> QED
      BY <1>0, <1>a, <1>10, <2>2, <3>1, <1>b DEF PublishList, ReaderStep, Becomes, dataKept
  <2> QED
    BY <2>1, <2>2
<1>11. CASE ReadList(r)
  <2>1. Holds(r, "done", 0, 0, cache[List].version)
    BY <1>11 DEF ReadList, Returns
  <2>2. ReaderStep(r)
    BY <1>0, <1>a, <1>11, <2>1, <1>b DEF ReadList, ReaderStep, dataKept
  <2>3. Becomes(r, reader'[r])
    BY <1>0, <1>a, <1>11, <2>1, <1>b DEF ReadList, ReaderOK, Becomes
  <2> QED
    BY <2>2, <2>3
<1>12. CASE StoreKeys(r)
  <2>1. Holds(r, "done", 0, 0, reader[r].got)
    BY <1>12 DEF StoreKeys, Returns
  <2>2. /\ reader'[r] \in Reader /\ reader' = [reader EXCEPT ![r] = reader'[r]]
        /\ reader'[r].step = "done" /\ reader'[r].item = reader[r].item
        /\ reader'[r].floor = reader[r].floor /\ reader'[r].got = reader[r].got
    BY <1>0, <1>a, <2>1, <1>b
  <2>3. ReaderStep(r)
    BY <1>0, <1>12, <2>2 DEF StoreKeys, ReaderStep, dataKept
  <2>4. Becomes(r, reader'[r])
    BY <1>12, <2>2 DEF StoreKeys, Becomes
  <2> QED
    BY <2>3, <2>4
<1>13. CASE StoreCooldowns(r)
  <2>1. Holds(r, "done", 0, 0, reader[r].got)
    BY <1>13 DEF StoreCooldowns, Returns
  <2>2. /\ reader'[r] \in Reader /\ reader' = [reader EXCEPT ![r] = reader'[r]]
        /\ reader'[r].step = "done" /\ reader'[r].item = reader[r].item
        /\ reader'[r].floor = reader[r].floor /\ reader'[r].got = reader[r].got
    BY <1>0, <1>a, <2>1, <1>b
  <2>3. ReaderStep(r)
    BY <1>0, <1>13, <2>2 DEF StoreCooldowns, ReaderStep, dataKept
  <2>4. Becomes(r, reader'[r])
    BY <1>13, <2>2 DEF StoreCooldowns, Becomes
  <2> QED
    BY <2>3, <2>4
<1>14. CASE Fallback(r)
  <2>1. Holds(r, "done", 0, 0, db[reader[r].item])
    BY <1>14 DEF Fallback, Returns
  <2>2. db[reader[r].item] \in Nat
    BY <1>0
  <2>3. /\ reader'[r] \in Reader /\ reader' = [reader EXCEPT ![r] = reader'[r]]
        /\ reader'[r].step = "done" /\ reader'[r].item = reader[r].item
        /\ reader'[r].floor = reader[r].floor /\ reader'[r].got = db[reader[r].item]
    BY <1>a, <1>b, <2>1, <2>2
  <2>4. ReaderStep(r)
    BY <1>0, <1>14, <2>3 DEF Fallback, ReaderStep, dataKept
  <2>5. Becomes(r, reader'[r])
    BY <2>3 DEF Becomes
  <2> QED
    BY <2>4, <2>5
<1>15. CASE FallbackFails(r)
  <2>1. Holds(r, "idle", 0, 0, 0)
    BY <1>15 DEF FallbackFails, Goes
  <2>2. ReaderStep(r)
    BY <1>0, <1>a, <1>15, <2>1, <1>b DEF FallbackFails, ReaderStep, dataKept
  <2>3. Becomes(r, reader'[r])
    BY <1>0, <1>a, <1>15, <2>1, <1>b DEF FallbackFails, Becomes
  <2> QED
    BY <2>2, <2>3
<1> QED
  BY <1>1, <1>2, <1>3, <1>4, <1>5, <1>6, <1>7, <1>8, <1>9, <1>10, <1>11, <1>12,
     <1>13, <1>14, <1>15 DEF Lookup

-----------------------------------------------------------------------------
(* The invariant is inductive *)

LEMMA InvInit == Init => CacheInv
<1> SUFFICES ASSUME Init
             PROVE  CacheInv
  OBVIOUS
<1>1. TypeOK
  BY TypeInit
<1>2. \A i \in Items : settled[i] <= db[i]
  BY DEF Init
<1>3. \A i \in Guarded : EntryOK(i)
  BY ItemKinds DEF Init, EntryOK
<1>4. \A r \in Readers : ReaderOK(r)
  BY ItemKinds DEF Init, ReaderOK, LoadOK
<1> QED
  BY <1>1, <1>2, <1>3, <1>4 DEF CacheInv

\* The facts about numbers that the steps below need.
LEMMA Numbers ==
  ASSUME TypeOK
  PROVE  /\ \A i \in Items : db[i] \in Nat /\ settled[i] \in Nat
                              /\ cache[i].version \in Nat
         /\ \A i \in Guarded : gen[i] \in Nat
         /\ allGen \in Nat
         /\ \A r \in Readers : /\ reader[r].item \in Items /\ reader[r].floor \in Nat
                               /\ reader[r].gen \in Nat /\ reader[r].allGen \in Nat
                               /\ reader[r].got \in Nat
BY DEF TypeOK, Entry, Reader

\* A lookup may store only what is acceptable, and no other reader notices but
\* for a newer list.
LEMMA ReaderKeeps ==
  ASSUME CacheInv, NEW r \in Readers, ReaderStep(r), Becomes(r, reader'[r])
  PROVE  CacheInv'
<1> USE ItemKinds
<1>0. /\ TypeOK /\ db' = db /\ gen' = gen /\ allGen' = allGen /\ writer' = writer
      /\ settled' = settled /\ writes' = writes
      /\ reader' = [reader EXCEPT ![r] = reader'[r]] /\ reader'[r] \in Reader
  BY DEF CacheInv, ReaderStep, dataKept
<1>1. TypeOK'
  <2>1. cache' \in [Items -> Entry]
    BY <1>0, StoredType DEF ReaderStep, TypeOK
  <2>2. reader' \in [Readers -> Reader]
    BY <1>0 DEF TypeOK
  <2> QED
    BY <1>0, <2>1, <2>2 DEF TypeOK, ReaderStep
<1>2. \A i \in Items : settled'[i] <= db'[i]
  BY <1>0 DEF CacheInv
<1>3. \A i \in Items : \A v : Acceptable(i, v)' <=> Acceptable(i, v)
  BY <1>0 DEF Acceptable, Owed
<1>4. ASSUME reader[r].step = "store", cache' = Stored(r), reader[r].item \in Guarded,
             Unchanged(r)
      PROVE  /\ Acceptable(reader[r].item, reader[r].got)
             /\ cache'[reader[r].item] = [version |-> reader[r].got, fresh |-> TRUE]
             /\ \A i \in Items \ {reader[r].item} : cache'[i] = cache[i]
  BY <1>0, <1>4 DEF CacheInv, ReaderOK, LoadOK, Stored, TypeOK
<1>5. ASSUME NEW i \in Guarded
      PROVE  EntryOK(i)'
  <2>1. CASE cache'[i] = cache[i]
    BY <1>3, <2>1 DEF CacheInv, EntryOK
  <2>2. CASE cache'[i] # cache[i]
    <3>1. reader[r].step = "store" /\ cache' = Stored(r) /\ reader[r].item = i /\ Unchanged(r)
      BY <1>0, <2>2 DEF ReaderStep, Stored, TypeOK
    <3> QED
      BY <1>3, <1>4, <3>1 DEF EntryOK
  <2> QED
    BY <2>1, <2>2
<1>6. \A q \in Readers \ {r} : reader'[q] = reader[q]
  BY <1>0 DEF TypeOK
<1>7. ASSUME NEW q \in Readers \ {r}
      PROVE  ReaderOK(q)'
  <2>1. ReaderOK(q) /\ reader'[q] = reader[q]
    BY <1>6 DEF CacheInv
  <2>2. LoadOK(q)'
    BY <1>0, <1>3, <2>1, Numbers DEF ReaderOK, LoadOK, Unchanged
  <2>3. reader[q].step = "read" => cache'[List].version >= reader[q].floor
    <3>1. CASE cache'[List] = cache[List]
      BY <2>1, <3>1 DEF ReaderOK
    <3>2. CASE cache'[List] # cache[List]
      <4>1. reader[r].step = "store" /\ cache' = Stored(r) /\ reader[r].item = List /\ Unchanged(r)
        BY <1>0, <3>2 DEF ReaderStep, Stored, TypeOK
      <4>2. cache'[List].version = reader[r].got /\ reader[r].got >= settled[List]
        BY <1>4, <4>1 DEF Acceptable
      <4>3. reader[q].step = "read" => reader[q].floor <= settled[List]
        BY <2>1 DEF ReaderOK
      <4> QED
        BY <1>0, <4>2, <4>3, Numbers
    <3> QED
      BY <3>1, <3>2
  <2> QED
    BY <1>0, <2>1, <2>2, <2>3 DEF ReaderOK
<1>8. ReaderOK(r)'
  <2> DEFINE x == reader'[r]
  <2>0. /\ ReaderOK(r) /\ x \in Reader
        /\ settled[reader[r].item] <= db[reader[r].item]
        /\ db[reader[r].item] \in Nat /\ settled[reader[r].item] \in Nat
        /\ reader[r].floor \in Nat /\ reader[r].got \in Nat /\ reader[r].item \in Items
    BY <1>0, Numbers DEF CacheInv
  <2>1. x.floor <= settled[x.item]
    <3>1. x.item \in Items /\ settled[x.item] \in Nat
      BY <1>0, <2>0, Numbers DEF Reader
    <3> QED
      BY <2>0, <3>1 DEF Becomes, ReaderOK
  <2>2. x.step \in {"lock", "recheck", "read"} => x.item = List
    BY DEF Becomes
  <2>3. x.step = "read" => cache'[List].version >= x.floor
    <3>1. cache'[List].fresh => cache'[List].version >= settled[List]
      BY <1>3, <1>5 DEF EntryOK, Acceptable
    <3>2. cache'[List].version \in Nat /\ settled[List] \in Nat /\ x.floor \in Nat
      BY <1>0, <1>1, <2>0 DEF TypeOK, Entry, Reader
    <3> QED
      BY <2>1, <2>2, <3>1, <3>2 DEF Becomes
  <2>4. x.step = "done" /\ x.item \in Guarded => x.got >= x.floor
    <3>1. cache[reader[r].item].fresh /\ reader[r].item \in Guarded
             => cache[reader[r].item].version >= settled[reader[r].item]
      BY DEF CacheInv, EntryOK, Acceptable
    <3>2. cache[reader[r].item].version \in Nat /\ cache[List].version \in Nat
      BY <1>0, <2>0, Numbers
    <3>3. reader[r].floor <= settled[reader[r].item]
      BY <2>0 DEF ReaderOK
    <3>4. reader[r].step = "store" /\ reader[r].item \in Guarded => reader[r].got >= reader[r].floor
      BY <2>0 DEF ReaderOK, LoadOK
    <3>5. reader[r].step = "read" => cache[List].version >= reader[r].floor
      BY <2>0 DEF ReaderOK
    <3> QED
      BY <2>0, <3>1, <3>2, <3>3, <3>4, <3>5 DEF Becomes
  <2>5. LoadOK(r)'
    <3>1. CASE x.step = "query"
      BY <1>0, <2>0, <3>1, Numbers DEF Becomes, LoadOK
    <3>2. CASE x.step = "store"
      <4>1. /\ reader[r].step = "query" /\ x.floor = reader[r].floor
            /\ x.item = reader[r].item /\ x.gen = reader[r].gen
            /\ x.allGen = reader[r].allGen /\ x.got = db[x.item]
        BY <3>2 DEF Becomes
      <4>2. Acceptable(x.item, x.got)
        BY <2>0, <4>1 DEF Acceptable
      <4>3. x.got >= x.floor
        BY <2>0, <4>1 DEF ReaderOK
      <4>4. Acceptable(reader[r].item, reader[r].got)'
        BY <1>0, <4>2 DEF Acceptable, Owed
      <4>5. /\ x.item \in Guarded => x.gen <= gen[x.item]
            /\ x.item \in Guarded /\ x.item \in Channels => x.allGen <= allGen
        BY <2>0, <4>1 DEF ReaderOK, LoadOK
      <4> QED
        BY <1>0, <4>3, <4>4, <4>5 DEF LoadOK
    <3>3. CASE x.step \notin {"query", "store"}
      BY <3>3 DEF LoadOK
    <3> QED
      BY <3>1, <3>2, <3>3
  <2> QED
    BY <1>0, <2>1, <2>2, <2>3, <2>4, <2>5 DEF ReaderOK
<1> QED
  BY <1>1, <1>2, <1>5, <1>7, <1>8 DEF CacheInv

\* An entry that goes out of date is no longer answered; a list that does keeps
\* its version for those who are about to read it.
LEMMA ExpireKeeps ==
  ASSUME CacheInv, NEW i \in Items, Expire(i)
  PROVE  CacheInv'
<1> USE ItemKinds
<1>0. /\ TypeOK /\ db' = db /\ gen' = gen /\ allGen' = allGen /\ writer' = writer
      /\ settled' = settled /\ writes' = writes /\ reader' = reader /\ mutex' = mutex
      /\ cache' = [cache EXCEPT ![i] = Outdated(i)]
  BY DEF CacheInv, Expire
<1>1. TypeOK'
  <2>1. cache' \in [Items -> Entry]
    BY <1>0, OutdatedType DEF TypeOK
  <2> QED
    BY <1>0, <2>1 DEF TypeOK
<1>2. cache'[List].version = cache[List].version
  BY <1>0 DEF TypeOK, Outdated
<1>3. ASSUME NEW j \in Guarded
      PROVE  EntryOK(j)'
  <2>1. cache'[j].fresh => cache'[j] = cache[j]
    BY <1>0 DEF TypeOK, Outdated
  <2> QED
    BY <1>0, <2>1 DEF CacheInv, EntryOK, Acceptable, Owed
<1>4. ASSUME NEW q \in Readers
      PROVE  ReaderOK(q)'
  <2>1. LoadOK(q)'
    BY <1>0 DEF CacheInv, ReaderOK, LoadOK, Acceptable, Owed, Unchanged
  <2> QED
    BY <1>0, <1>2, <2>1 DEF CacheInv, ReaderOK
<1> QED
  BY <1>0, <1>1, <1>3, <1>4 DEF CacheInv

\* A commit makes entries out of date, but owes their invalidation.
LEMMA CommitKeeps ==
  ASSUME CacheInv, NEW w \in Writers, NEW S \in Changes, Commit(w, S)
  PROVE  CacheInv'
<1> USE ItemKinds
<1>0. /\ TypeOK /\ gen' = gen /\ allGen' = allGen /\ cache' = cache
      /\ settled' = settled /\ writes' = writes + 1 /\ reader' = reader /\ mutex' = mutex
      /\ db' = [i \in Items |-> IF i \in S THEN db[i] + 1 ELSE db[i]]
      /\ writer' = [writer EXCEPT ![w] = S] /\ writer[w] = {}
  BY DEF CacheInv, Commit
<1>1. S \subseteq Items
  BY DEF Changes, Items, Guarded
<1>2. TypeOK'
  <2>1. db' \in [Items -> Nat]
    BY <1>0 DEF TypeOK
  <2>2. writer' \in [Writers -> SUBSET Items]
    BY <1>0, <1>1 DEF TypeOK
  <2> QED
    BY <1>0, <2>1, <2>2 DEF TypeOK
<1>3. \A i \in Items : db[i] <= db'[i] /\ settled'[i] <= db'[i]
  BY <1>0, Numbers DEF CacheInv
<1>4. ASSUME NEW i \in Items
      PROVE  /\ i \in S => Owed(i)'
             /\ Owed(i) => Owed(i)'
  BY <1>0 DEF Owed, TypeOK
<1>5. ASSUME NEW i \in Items, NEW v, Acceptable(i, v)
      PROVE  Acceptable(i, v)'
  <2>1. Owed(i)' \/ (db'[i] = db[i] /\ ~Owed(i))
    BY <1>0, <1>4
  <2> QED
    BY <1>0, <1>5, <2>1 DEF Acceptable
<1>6. ASSUME NEW j \in Guarded
      PROVE  EntryOK(j)'
  BY <1>0, <1>5 DEF CacheInv, EntryOK
<1>7. ASSUME NEW q \in Readers
      PROVE  ReaderOK(q)'
  <2>1. reader[q].item \in Items /\ ReaderOK(q)
    BY <1>0, Numbers DEF CacheInv
  <2>2. Unchanged(q)' <=> Unchanged(q)
    BY <1>0 DEF Unchanged
  <2>3. Acceptable(reader[q].item, reader[q].got) => Acceptable(reader[q].item, reader[q].got)'
    <3>1. Acceptable(reader[q].item, reader[q].got)' <=>
            /\ reader[q].got = db'[reader[q].item] \/ Owed(reader[q].item)'
            /\ reader[q].got >= settled[reader[q].item]
      BY <1>0 DEF Acceptable, Owed
    <3> QED
      BY <1>0, <1>4, <2>1, <3>1 DEF Acceptable, Owed
  <2>4. LoadOK(q)'
    BY <1>0, <2>1, <2>2, <2>3 DEF ReaderOK, LoadOK
  <2> QED
    BY <1>0, <2>1, <2>4 DEF ReaderOK
<1> QED
  BY <1>2, <1>3, <1>6, <1>7 DEF CacheInv

\* An invalidation of the items S forbids those who loaded them before to store.
Forbids(S) ==
  /\ gen' \in [Guarded -> Nat] /\ allGen' \in Nat
  /\ \A i \in Guarded : gen[i] <= gen'[i]
  /\ allGen <= allGen'
  /\ \A i \in S \cap Guarded : gen[i] < gen'[i] \/ (i \in Channels /\ allGen < allGen')

LEMMA SettleKeeps ==
  ASSUME CacheInv, NEW w \in Writers, NEW S \in SUBSET Items, Settle(w, S), Forbids(S)
  PROVE  CacheInv'
<1> USE ItemKinds
<1>0. /\ TypeOK /\ db' = db /\ mutex' = mutex /\ reader' = reader /\ writes' = writes
      /\ cache' = [i \in Items |-> IF i \in S THEN Outdated(i) ELSE cache[i]]
      /\ writer' = [writer EXCEPT ![w] = @ \ S]
      /\ settled' = [i \in Items |-> IF i \in S THEN db[i] ELSE settled[i]]
  BY DEF CacheInv, Settle
<1>1. TypeOK'
  BY <1>0, SettleType DEF TypeOK, Forbids
<1>2. \A i \in Items : settled[i] <= settled'[i] /\ settled'[i] <= db'[i]
  BY <1>0, Numbers DEF CacheInv
<1>3. \A i \in Items \ S : /\ settled'[i] = settled[i] /\ cache'[i] = cache[i]
                          /\ Owed(i) => Owed(i)'
  BY <1>0 DEF Owed, TypeOK
<1>4. cache'[List].version = cache[List].version
  BY <1>0 DEF TypeOK, Outdated
<1>5. ASSUME NEW j \in Guarded
      PROVE  EntryOK(j)'
  <2>1. CASE j \in S
    BY <1>0, <2>1 DEF EntryOK, Outdated
  <2>2. CASE j \notin S
    BY <1>0, <1>3, <2>2 DEF CacheInv, EntryOK, Acceptable
  <2> QED
    BY <2>1, <2>2
<1>6. ASSUME NEW q \in Readers
      PROVE  ReaderOK(q)'
  <2> DEFINE i == reader[q].item
  <2>0. /\ ReaderOK(q) /\ i \in Items /\ reader[q].floor \in Nat
        /\ reader[q].gen \in Nat /\ reader[q].allGen \in Nat /\ reader[q].got \in Nat
        /\ settled[i] \in Nat /\ settled'[i] \in Nat
    BY <1>0, <1>1, Numbers DEF CacheInv, TypeOK
  <2>1. reader[q].floor <= settled'[i]
    BY <1>2, <2>0 DEF ReaderOK
  <2>2. i \in Guarded =>
          /\ gen[i] \in Nat /\ gen'[i] \in Nat /\ gen[i] <= gen'[i]
          /\ allGen \in Nat /\ allGen' \in Nat /\ allGen <= allGen'
          /\ i \in S => gen[i] < gen'[i] \/ (i \in Channels /\ allGen < allGen')
    BY <1>0, Numbers DEF Forbids
  <2>3. reader[q].step \in {"query", "store"} /\ i \in Guarded =>
          reader[q].gen <= gen[i] /\ (i \in Channels => reader[q].allGen <= allGen)
    BY <2>0 DEF ReaderOK, LoadOK
  <2>4. ASSUME reader[q].step = "store", i \in Guarded, Unchanged(q)'
        PROVE  i \notin S /\ Unchanged(q)
    <3>1. gen'[i] = reader[q].gen /\ (i \in Channels => allGen' = reader[q].allGen)
      BY <1>0, <2>4 DEF Unchanged
    <3> QED
      BY <2>0, <2>2, <2>3, <2>4, <3>1 DEF Unchanged
  <2>5. ASSUME reader[q].step = "store", i \in Guarded, Unchanged(q)'
        PROVE  Acceptable(i, reader[q].got)'
    <3>1. i \in Items \ S /\ Acceptable(i, reader[q].got)
      BY <2>0, <2>4, <2>5 DEF ReaderOK, LoadOK
    <3> QED
      BY <1>0, <1>3, <3>1 DEF Acceptable, Owed
  <2>6. LoadOK(q)'
    <3>1. reader[q].step = "store" /\ i \in Guarded => reader[q].got >= reader[q].floor
      BY <2>0 DEF ReaderOK, LoadOK
    <3>2. reader[q].step \in {"query", "store"} /\ i \in Guarded =>
            reader[q].gen <= gen'[i] /\ (i \in Channels => reader[q].allGen <= allGen')
      BY <2>0, <2>2, <2>3
    <3> QED
      BY <1>0, <2>5, <3>1, <3>2 DEF LoadOK
  <2> QED
    BY <1>0, <1>4, <2>0, <2>1, <2>6 DEF ReaderOK
<1> QED
  BY <1>1, <1>2, <1>5, <1>6 DEF CacheInv

LEMMA InvalidateKeeps ==
  ASSUME CacheInv, NEW w \in Writers, Invalidate(w)
  PROVE  CacheInv'
<1> USE ItemKinds
<1>0. TypeOK /\ allGen \in Nat /\ \A i \in Guarded : gen[i] \in Nat
  BY Numbers DEF CacheInv
<1>1. CASE InvalidateCache(w)
  <2>1. Forbids({List})
    BY <1>0, <1>1 DEF InvalidateCache, Forbids, TypeOK
  <2> QED
    BY <1>1, <2>1, SettleKeeps DEF InvalidateCache
<1>2. ASSUME NEW c \in Channels, InvalidateAPIKeysCache(w, c)
      PROVE  CacheInv'
  <2>1. Forbids({c})
    BY <1>0, <1>2 DEF InvalidateAPIKeysCache, Forbids, TypeOK
  <2> QED
    BY <1>2, <2>1, SettleKeeps DEF InvalidateAPIKeysCache
<1>3. CASE InvalidateAllAPIKeysCache(w)
  <2>1. Forbids(Channels)
    BY <1>0, <1>3 DEF InvalidateAllAPIKeysCache, Forbids, TypeOK
  <2> QED
    BY <1>3, <2>1, SettleKeeps DEF InvalidateAllAPIKeysCache
<1>4. CASE InvalidateCooldownCache(w)
  <2>1. Forbids(Cooldowns)
    BY <1>0, <1>4 DEF InvalidateCooldownCache, Forbids, TypeOK
  <2> QED
    BY <1>4, <2>1, SettleKeeps DEF InvalidateCooldownCache
<1> QED
  BY <1>1, <1>2, <1>3, <1>4 DEF Invalidate

LEMMA InvNext ==
  ASSUME CacheInv, [Next]_vars
  PROVE  CacheInv'
<1>1. ASSUME NEW r \in Readers,
             \/ \E i \in Asks[r] : Ask(r, i)
             \/ LockRefresh(r) \/ GiveUp(r) \/ QueryFails(r) \/ FallbackFails(r) \/ Lookup(r)
      PROVE  CacheInv'
  <2>1. Asks[r] \subseteq Items
    BY AsksAssumption
  <2> QED
    BY <1>1, <2>1, ReaderMoves, ReaderKeeps
<1>2. ASSUME NEW i \in Items, Expire(i)
      PROVE  CacheInv'
  BY <1>2, ExpireKeeps
<1>3. ASSUME NEW w \in Writers, NEW S \in Changes, Commit(w, S)
      PROVE  CacheInv'
  BY <1>3, CommitKeeps
<1>4. ASSUME NEW w \in Writers, Invalidate(w)
      PROVE  CacheInv'
  BY <1>4, InvalidateKeeps
<1>5. CASE UNCHANGED vars
  BY <1>5 DEF vars, CacheInv, TypeOK, EntryOK, ReaderOK, LoadOK, Acceptable, Owed, Unchanged
<1> QED
  BY <1>1, <1>2, <1>3, <1>4, <1>5 DEF Next

-----------------------------------------------------------------------------
(* Theorems *)

LEMMA CacheCorrect == Spec => [](TypeOK /\ StaleOnlyWhileOwed /\ ReadsAreSettled)
<1>1. CacheInv => TypeOK /\ StaleOnlyWhileOwed /\ ReadsAreSettled
  BY DEF CacheInv, EntryOK, Acceptable, ReaderOK, StaleOnlyWhileOwed, ReadsAreSettled
<1> QED
  BY <1>1, InvInit, InvNext, PTL DEF Spec

\* Every variable keeps its type, for any readers, writers and channels.
THEOREM TypeCorrect == Spec => []TypeOK
BY CacheCorrect, PTL

\* What is cached of the list and of the API keys is the newest, or the writer
\* that changed it is about to invalidate it.
THEOREM StaleWhileOwed == Spec => []StaleOnlyWhileOwed
BY CacheCorrect, PTL

\* A request is answered with what was settled when it came, or something newer.
THEOREM ReadsSettled == Spec => []ReadsAreSettled
BY CacheCorrect, PTL
=============================================================================
