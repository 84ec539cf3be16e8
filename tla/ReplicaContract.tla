--------------------------- MODULE ReplicaContract ---------------------------
(***************************************************************************)
(* What ccLoad's hybrid storage promises about its two databases, without  *)
(* the queue and the worker: SQLite is the source of truth, the primary is *)
(* a copy that lags behind (hybrid_store.go, the comment on HybridStore).  *)
(* A row may differ between them only while somebody is responsible for    *)
(* it, and copying one row never spoils a row nobody is responsible for.   *)
(***************************************************************************)
CONSTANTS
  Entities,  \* what is replicated: channels
  Rows       \* the rows an entity can have, the absent one included

VARIABLES
  source,  \* SQLite
  copy,    \* the primary
  stale    \* the entities somebody still has to bring to the primary

contractVars == <<source, copy, stale>>

ContractInit ==
  /\ source \in [Entities -> Rows]
  /\ copy \in [Entities -> Rows]
  /\ stale \in SUBSET Entities
  /\ \A e \in Entities \ stale : copy[e] = source[e]

\* A request commits a new row of e (one channel at a time, as HybridReplica).
Commit(e) ==
  /\ \E r \in Rows : source' = [source EXCEPT ![e] = r]
  /\ stale \cup {e} \subseteq stale'
  /\ stale' \subseteq Entities
  /\ UNCHANGED copy

\* The replication goes on: it writes rows of stale entities, or lets go of
\* entities that are up to date, or takes responsibility for more of them.
Replicate ==
  /\ copy' \in [Entities -> Rows]
  /\ stale' \in SUBSET Entities
  /\ \A e \in Entities \ stale : copy'[e] = copy[e]
  /\ \A e \in Entities \ stale' : copy'[e] = source[e]
  /\ UNCHANGED source

ContractNext == (\E e \in Entities : Commit(e)) \/ Replicate

ContractSpec == ContractInit /\ [][ContractNext]_contractVars
=============================================================================
