---------------------------- MODULE EngramTable ----------------------------
(***************************************************************************)
(* mrag/store/engram_table.py: one adapter's memories in RAM, a dict from  *)
(* context hash to payload and the flag that lets evict_stale skip a scan. *)
(* A table is a value here; the modules that own tables keep them in their *)
(* variables.  A payload is the record of mrag/schema/payload.py without   *)
(* its source label, which nothing reads back.                             *)
(***************************************************************************)
EXTENDS Decay, FiniteSets, Functions

CONSTANTS Keys,         \* context hashes
          Texts,        \* memory strings
          NoText,       \* stands for the text a generic Engram does not have
          Tags,
          Metadata,     \* non-empty metadata dicts
          NoMetadata,   \* the empty metadata dict
          Policy,       \* the decay policy of every table of the manager
          Absent        \* what a lookup that misses returns

ASSUME PolicyAssumption == IsPolicy(Policy)
ASSUME SentinelAssumption == NoText \notin Texts /\ NoMetadata \notin Metadata

Payload ==
  [text : Texts \cup {NoText}, salience : Int, affect : Int, age : Int,
   tags : SUBSET Tags, metadata : Metadata \cup {NoMetadata}]

\* Contents of a table: a function on some of the keys.
IsContents(store) == DOMAIN store \subseteq Keys /\ store \in [DOMAIN store -> Payload]
IsTable(table) ==
  /\ table \in [store : {table.store}, needsEviction : BOOLEAN]
  /\ IsContents(table.store)

ValueAt(store, key) == IF key \in DOMAIN store THEN store[key] ELSE Absent

With(store, key, payload) ==
  [k \in DOMAIN store \cup {key} |-> IF k = key THEN payload ELSE store[k]]
Without(store, S) == Restrict(store, DOMAIN store \ S)

Get(table, key) == ValueAt(table.store, key)

Put(table, key, payload) ==
  [store |-> With(table.store, key, payload), needsEviction |-> TRUE]

\* Mutant: the entries age and the flag stays as it was.
TickQuietly(table, steps) ==
  [table EXCEPT !.store =
     [k \in DOMAIN @ |-> [@[k] EXCEPT !.age = @ + IF steps > 0 THEN steps ELSE 0]]]

Tick(table, steps) ==
  IF steps > 0
  THEN [store |-> [k \in DOMAIN table.store |-> [table.store[k] EXCEPT !.age = @ + steps]],
        needsEviction |-> TRUE]
  ELSE table

Stale(store, threshold) ==
  {k \in DOMAIN store : IsEvictable(Policy, store[k].salience, store[k].age, threshold)}

\* Mutant: the flag is cleared although nothing was scanned away.
EvictNothing(table, threshold) == [table EXCEPT !.needsEviction = FALSE]

\* Mutant: the flag stays, so that the next sweep scans again.
EvictAndLookAgain(table, threshold) ==
  [table EXCEPT !.store = Without(@, IF table.needsEviction THEN Stale(@, threshold) ELSE {})]

EvictStale(table, threshold) ==
  IF table.needsEviction
  THEN [store |-> Without(table.store, Stale(table.store, threshold)), needsEviction |-> FALSE]
  ELSE table

EvictedCount(table, threshold) ==
  IF table.needsEviction THEN Cardinality(Stale(table.store, threshold)) ELSE 0
=============================================================================
