----------------------------- MODULE ChannelCache -----------------------------
(***************************************************************************)
(* The read-through caches between ccLoad's request path and its database  *)
(* (src/internal/storage/cache.go, used through src/internal/app/server.go):*)
(* the list of enabled channels, the API keys of each channel, and the     *)
(* tables of cooldowns.  A writer commits to the database and then         *)
(* invalidates; a reader that misses queries the database without a lock   *)
(* and stores what it got.  So a commit and its invalidation can both fall *)
(* between a query and the store of its result; generations exist to       *)
(* refuse that store.                                                      *)
(*                                                                         *)
(* The contents of an item are its version in the database.  The two       *)
(* queries of refreshCache are one step: the second can only see more.     *)
(***************************************************************************)
EXTENDS Naturals, FiniteSets

CONSTANTS
  Readers,    \* goroutines that route requests
  Writers,    \* goroutines that change channels
  Channels,   \* channels (items: their API keys)
  List,       \* the item of the channel list
  Cooldowns,  \* the cooldown tables (of channels, keys and models)
  Asks,       \* reader -> the items it asks for (bound: in the code any)
  MaxWrites   \* bound: commits in one behaviour

ASSUME ItemsAssumption ==
  /\ List \notin Channels \cup Cooldowns
  /\ Channels \cap Cooldowns = {}
  /\ \A c \in Channels : Channels # {c}   \* at least two, if any
  /\ "nobody" \notin Readers
  /\ MaxWrites \in Nat

VARIABLES
  db,       \* item -> version in the database
  cache,    \* item -> cached version, and whether it is within its TTL
  gen,      \* c.generation, c.apiKeysGeneration[channel]
  allGen,   \* c.apiKeysAllGen
  mutex,    \* the reader that holds c.refreshMutex, if any
  reader,   \* what each reader does
  writer,   \* the items each writer has changed and not invalidated
  writes,   \* commits so far (only to bound them)
  settled   \* history: item -> newest version whose invalidation is over

vars == <<db, cache, gen, allGen, mutex, reader, writer, writes, settled>>

-----------------------------------------------------------------------------
Guarded == {List} \cup Channels   \* the items with a generation
Items   == Guarded \cup Cooldowns
Nobody  == "nobody"

ASSUME AsksAssumption == Asks \in [Readers -> SUBSET Items]

Entry == [version : Nat, fresh : BOOLEAN]

Steps == {"idle", "check", "lock", "recheck", "query", "store", "read",
          "fallback", "done"}

\* got is the version queried, and in the end the version returned.
Reader == [step : Steps, item : Items, floor : Nat, gen : Nat, allGen : Nat, got : Nat]

Owed(i) == \E w \in Writers : i \in writer[w]

-----------------------------------------------------------------------------
(* Readers *)

\* What a reader keeps in hand: the generations it noted and the version it got.
Holds(r, s, g, ag, version) ==
  reader' = [reader EXCEPT ![r] =
    [step |-> s, item |-> reader[r].item, floor |-> reader[r].floor,
     gen |-> g, allGen |-> ag, got |-> version]]

Goes(r, s) == Holds(r, s, 0, 0, 0)

Returns(r, version) == Holds(r, "done", 0, 0, version)

\* A request asks for item i.
Ask(r, i) ==
  /\ reader[r].step \in {"idle", "done"}
  /\ reader' = [reader EXCEPT ![r] =
       [step |-> "check", item |-> i, floor |-> settled[i], gen |-> 0, allGen |-> 0, got |-> 0]]
  /\ UNCHANGED <<db, cache, gen, allGen, mutex, writer, writes, settled>>

\* refreshIfNeeded: the first look, without c.refreshMutex.
CheckList(r) ==
  /\ reader[r].step = "check" /\ reader[r].item = List
  /\ Goes(r, IF cache[List].fresh THEN "read" ELSE "lock")
  /\ UNCHANGED <<db, cache, gen, allGen, mutex, writer, writes, settled>>

LockRefresh(r) ==
  /\ reader[r].step = "lock"
  /\ mutex = Nobody
  /\ mutex' = r
  /\ Goes(r, "recheck")
  /\ UNCHANGED <<db, cache, gen, allGen, writer, writes, settled>>

\* Somebody else has refreshed the list.
FoundFresh(r) ==
  /\ reader[r].step = "recheck"
  /\ cache[List].fresh
  /\ mutex' = Nobody
  /\ Goes(r, "read")
  /\ UNCHANGED <<db, cache, gen, allGen, writer, writes, settled>>

\* Mutant of FoundStale: a refresh that starts over does not note the generation
\* again.
FoundStale_OldGeneration(r) ==
  /\ reader[r].step = "recheck"
  /\ ~cache[List].fresh
  /\ Goes(r, "query")
  /\ UNCHANGED <<db, cache, gen, allGen, mutex, writer, writes, settled>>

FoundStale(r) ==
  /\ reader[r].step = "recheck"
  /\ ~cache[List].fresh
  /\ Holds(r, "query", gen[List], 0, 0)
  /\ UNCHANGED <<db, cache, gen, allGen, mutex, writer, writes, settled>>

\* The request is cancelled while it refreshes the list.
GiveUp(r) ==
  /\ reader[r].step = "recheck"
  /\ mutex' = Nobody
  /\ Goes(r, "idle")
  /\ UNCHANGED <<db, cache, gen, allGen, writer, writes, settled>>

\* The cooldown tables have no generation.
GenOf(i) == IF i \in Guarded THEN gen[i] ELSE 0

\* cachedAPIKeys and GetAll*Cooldowns: a hit returns at once, a miss notes the
\* generations.
CheckEntry(r) ==
  /\ reader[r].step = "check" /\ reader[r].item # List
  /\ IF cache[reader[r].item].fresh
       THEN Returns(r, cache[reader[r].item].version)
       ELSE Holds(r, "query", GenOf(reader[r].item), allGen, 0)
  /\ UNCHANGED <<db, cache, gen, allGen, mutex, writer, writes, settled>>

\* The query of the database, with no lock of the cache held.
Query(r) ==
  /\ reader[r].step = "query"
  /\ Holds(r, "store", reader[r].gen, reader[r].allGen, db[reader[r].item])
  /\ UNCHANGED <<db, cache, gen, allGen, mutex, writer, writes, settled>>

QueryFails(r) ==
  /\ reader[r].step = "query"
  /\ mutex' = IF mutex = r THEN Nobody ELSE mutex
  /\ Goes(r, "fallback")
  /\ UNCHANGED <<db, cache, gen, allGen, writer, writes, settled>>

Stored(r) ==
  [cache EXCEPT ![reader[r].item] = [version |-> reader[r].got, fresh |-> TRUE]]

\* Mutant of Unchanged: the generation of all API keys is forgotten.
Unchanged_OneChannel(r) == gen[reader[r].item] = reader[r].gen

\* Nothing was invalidated since the reader looked at the generations.
Unchanged(r) ==
  /\ gen[reader[r].item] = reader[r].gen
  /\ reader[r].item \in Channels => allGen = reader[r].allGen

\* refreshCache: publish the list, or start over.
PublishList(r) ==
  /\ reader[r].step = "store" /\ reader[r].item = List
  /\ IF Unchanged(r)
       THEN cache' = Stored(r) /\ mutex' = Nobody /\ Goes(r, "read")
       ELSE UNCHANGED <<cache, mutex>> /\ Goes(r, "recheck")
  /\ UNCHANGED <<db, gen, allGen, writer, writes, settled>>

\* The list is read under a lock of its own, after refreshIfNeeded.
ReadList(r) ==
  /\ reader[r].step = "read"
  /\ Returns(r, cache[List].version)
  /\ UNCHANGED <<db, cache, gen, allGen, mutex, writer, writes, settled>>

\* cachedAPIKeys: what was queried is returned, also when it is not stored.
StoreKeys(r) ==
  /\ reader[r].step = "store" /\ reader[r].item \in Channels
  /\ cache' = IF Unchanged(r) THEN Stored(r) ELSE cache
  /\ Returns(r, reader[r].got)
  /\ UNCHANGED <<db, gen, allGen, mutex, writer, writes, settled>>

\* GetAllChannelCooldowns, GetAllKeyCooldowns, GetAllModelCooldowns.
StoreCooldowns(r) ==
  /\ reader[r].step = "store" /\ reader[r].item \in Cooldowns
  /\ cache' = Stored(r)
  /\ Returns(r, reader[r].got)
  /\ UNCHANGED <<db, gen, allGen, mutex, writer, writes, settled>>

\* The caller asks the database itself after an error.
Fallback(r) ==
  /\ reader[r].step = "fallback"
  /\ Returns(r, db[reader[r].item])
  /\ UNCHANGED <<db, cache, gen, allGen, mutex, writer, writes, settled>>

FallbackFails(r) ==
  /\ reader[r].step = "fallback"
  /\ Goes(r, "idle")
  /\ UNCHANGED <<db, cache, gen, allGen, mutex, writer, writes, settled>>

\* A list that is out of date may still be read by those who found it fresh; no
\* other entry is.
Outdated(i) == [version |-> IF i = List THEN cache[i].version ELSE 0, fresh |-> FALSE]

\* lastUpdate is longer ago than the TTL.
Expire(i) ==
  /\ cache[i].fresh
  /\ cache' = [cache EXCEPT ![i] = Outdated(i)]
  /\ UNCHANGED <<db, gen, allGen, mutex, reader, writer, writes, settled>>

-----------------------------------------------------------------------------
(* Writers.  Handlers invalidate in different orders, some in a defer.       *)

\* What one handler changes: a channel and its keys, its cooldowns (columns of
\* the API keys, and the cooldown tables), only the list, several channels at
\* once (deletion), or everything (an import).
Changes ==
  {{List, c} : c \in Channels} \cup {{c} \cup Cooldowns : c \in Channels}
    \cup {{List}, {List} \cup Channels, Items}

Commit(w, S) ==
  /\ writer[w] = {}
  /\ writes < MaxWrites
  /\ writes' = writes + 1
  /\ db' = [i \in Items |-> IF i \in S THEN db[i] + 1 ELSE db[i]]
  /\ writer' = [writer EXCEPT ![w] = S]
  /\ UNCHANGED <<cache, gen, allGen, mutex, reader, settled>>

\* The invalidation of the items S is over.
Settle(w, S) ==
  /\ cache' = [i \in Items |-> IF i \in S THEN Outdated(i) ELSE cache[i]]
  /\ writer' = [writer EXCEPT ![w] = @ \ S]
  /\ settled' = [i \in Items |-> IF i \in S THEN db[i] ELSE settled[i]]
  /\ UNCHANGED <<db, mutex, reader, writes>>

InvalidateCache(w) ==
  /\ List \in writer[w]
  /\ gen' = [gen EXCEPT ![List] = @ + 1]
  /\ Settle(w, {List})
  /\ UNCHANGED allGen

InvalidateAPIKeysCache(w, c) ==
  /\ c \in writer[w]
  /\ ~(Channels \subseteq writer[w])
  /\ gen' = [gen EXCEPT ![c] = @ + 1]
  /\ Settle(w, {c})
  /\ UNCHANGED allGen

\* Mutant of InvalidateAllAPIKeysCache: the entries go, the generation stays.
InvalidateAllAPIKeysCache_NoGeneration(w) ==
  /\ Channels # {} /\ Channels \subseteq writer[w]
  /\ Settle(w, Channels)
  /\ UNCHANGED <<gen, allGen>>

InvalidateAllAPIKeysCache(w) ==
  /\ Channels # {} /\ Channels \subseteq writer[w]
  /\ allGen' = allGen + 1
  /\ Settle(w, Channels)
  /\ UNCHANGED gen

InvalidateCooldownCache(w) ==
  /\ writer[w] \cap Cooldowns # {}
  /\ Settle(w, Cooldowns)
  /\ UNCHANGED <<gen, allGen>>

-----------------------------------------------------------------------------
(* Specification *)

Init ==
  /\ db = [i \in Items |-> 0]
  /\ cache = [i \in Items |-> [version |-> 0, fresh |-> FALSE]]
  /\ gen = [i \in Guarded |-> 0]
  /\ allGen = 0
  /\ mutex = Nobody
  /\ reader = [r \in Readers |-> [step |-> "idle", item |-> List, floor |-> 0,
                                  gen |-> 0, allGen |-> 0, got |-> 0]]
  /\ writer = [w \in Writers |-> {}]
  /\ writes = 0
  /\ settled = [i \in Items |-> 0]

Lookup(r) ==
  \/ CheckList(r) \/ FoundFresh(r) \/ FoundStale(r)
  \/ CheckEntry(r)
  \/ Query(r)
  \/ PublishList(r) \/ ReadList(r)
  \/ StoreKeys(r) \/ StoreCooldowns(r)
  \/ Fallback(r)

Invalidate(w) ==
  \/ InvalidateCache(w)
  \/ \E c \in Channels : InvalidateAPIKeysCache(w, c)
  \/ InvalidateAllAPIKeysCache(w)
  \/ InvalidateCooldownCache(w)

Next ==
  \/ \E r \in Readers : \E i \in Asks[r] : Ask(r, i)
  \/ \E r \in Readers : LockRefresh(r) \/ GiveUp(r) \/ QueryFails(r) \/ FallbackFails(r) \/ Lookup(r)
  \/ \E i \in Items : Expire(i)
  \/ \E w \in Writers, S \in Changes : Commit(w, S)
  \/ \E w \in Writers : Invalidate(w)

Spec == Init /\ [][Next]_vars

\* Goroutines run on, and sync.Mutex does not starve a goroutine that waits.
Fairness == \A r \in Readers : WF_vars(Lookup(r)) /\ SF_vars(LockRefresh(r))

LiveSpec == Spec /\ Fairness

-----------------------------------------------------------------------------
(* Properties *)

TypeOK ==
  /\ db \in [Items -> Nat]
  /\ cache \in [Items -> Entry]
  /\ gen \in [Guarded -> Nat]
  /\ allGen \in Nat
  /\ mutex \in Readers \cup {Nobody}
  /\ reader \in [Readers -> Reader]
  /\ writer \in [Writers -> SUBSET Items]
  /\ writes \in Nat
  /\ settled \in [Items -> Nat]

\* The channel list and the API keys are cached out of date only while the
\* writer that changed them is still about to invalidate them, however queries,
\* commits, invalidations and stores interleave.
StaleOnlyWhileOwed ==
  \A i \in Guarded : cache[i].fresh => cache[i].version = db[i] \/ Owed(i)

\* A request that asks for the list or for API keys after an invalidation of
\* them returned sees at least what was in the database at that time.
ReadsAreSettled ==
  \A r \in Readers :
    reader[r].step = "done" /\ reader[r].item \in Guarded
      => reader[r].got >= reader[r].floor

\* "Refresh the caches, so that the next request does not hit stale data"
\* (handleProxySuccess, after clearing cooldowns): the same of the cooldowns.
CooldownReadsAreSettled ==
  \A r \in Readers :
    reader[r].step = "done" /\ reader[r].item \in Cooldowns
      => reader[r].got >= reader[r].floor

\* A lookup returns: the readers that wait for one refresh, or repeat theirs,
\* get their answer once the writers rest.
LookupsReturn ==
  \A r \in Readers : reader[r].step # "idle" ~> reader[r].step \in {"idle", "done"}
=============================================================================
