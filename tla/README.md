# A TLA+ model of mRAG

mRAG keeps short text memories ("engrams") per adapter, ages them, drops the
ones that have decayed, and hands the best ones to a language model. This
directory holds TLA+ modules that model it, the TLC configurations that check
them, and TLAPS proofs of what matters most about its core. Every definition
is a translation of the Python code; `PROJECT.json` maps each to its lines.

## The system

| component | source | state | operations |
|---|---|---|---|
| decay policies | `mrag/router/decay.py` | none (pure) | decayed salience, eviction test, steps until eviction, days to steps |
| payload | `mrag/schema/payload.py` | text, salience, affect, age, tags, metadata | its own decayed salience |
| `EngRamTable` | `mrag/store/engram_table.py` | dict of hash to payload, `_needs_eviction` | put, get, tick, evict_stale, top_by_salience |
| `SqliteBackend` | `mrag/store/sqlite_backend.py` | one database per adapter | load, save, delete |
| `EngRamManager` | `mrag/store/manager.py` | ordered dict of at most `max_loaded` tables | mount, unmount, unmount_all, write, get, tick, evict |
| `BridgeInterface` | `mrag/bridge/interface.py` | a manager | trigger, cross trigger, PIDX sync, shutdown |
| `AffectRouter` | `mrag/router/affect_router.py` | none (pure) | mean affect to a band, band to a label |
| `NgramHasher` | `mrag/hash/ngram_hasher.py` | none (pure) | tokens to a lookup key, text similarity |
| HTTP API | `api.py` | a bridge, the time of the last tick, counters | queries, writes, updates, ticks, sync |
| `PrefetchCoordinator` | `mrag/prefetch/coordinator.py` | `_pending`, daemon threads | hint, background mount |
| MCP server | `mrag_mcp.py` | a bridge of its own, or HTTP | the same calls from another process |
| re-key migration | `rekey_migration.py` | the databases | rewrite every key |

A query goes API -> bridge -> manager -> table; the manager takes the table
from RAM or loads it, saving and dropping the least recently used one when its
slots are full. Databases are written only then, and at a clean exit. The
endpoints for deletes and updates reach past the manager into a table. The
coordinator's threads, and the pool that serves requests, share the manager
with no lock around it. A second process may hold tables of the same databases.

What is hard here, and what each part has to get right:

- **decay**: a table of powers that ends at age 1000, a prediction by rounded
  logarithms, a clock in days rounded to steps packet by packet. A memory must
  never gain value with age, and a prediction must be tight.
- **table**: a flag decides whether a sweep looks at all; it must be raised by
  everything that can make a memory stale. Ticks and sweeps loop over the live dict, which
  other threads may change meanwhile.
- **manager and backend**: saves and loads may fail between two updates of the
  dict; the process may end at any time. Slots, recency order and databases
  must stay in step, and no memory may change except by its own adapter's calls.
- **bridge and API**: writes behind the flag, several thresholds on one table,
  a clock that is applied late, and by several requests at once, a validator
  that can turn a response into an error.
- **threads**: a table may leave the dict while another thread holds it; a hint
  carries a label, and the coordinator has to find the adapter in it.
- **processes, migration, hasher**: overwritten rows, repeated calls, a rewrite
  that skips rows, characters that need more bits than their place in a token
  has, tokens that do not fit their field.

`PROJECT.json` lists the hazards at their lines, each with the properties that
would catch it, or the reason there is none yet.

## Modules

| module | models | runs |
|---|---|---|
| `Decay` | the policies and the conversion of days, as operators | |
| `MemoryAging` | one memory growing old under one policy and threshold, PIDX packet by packet | aging |
| `EngramTable` | a table as a value, its methods as operators | |
| `TableThreads` | one table under several threads, a memory at a time | table_threads |
| `SqliteBackend` | a database as a function of its rows; load and save | |
| `MemoryStore` | abstract: what the broker promises its callers | |
| `EngRamManager` | the LRU manager, one public call a step; refines `MemoryStore` | manager_upsert |
| `LruOrder` | `EngRamManager` with a history of uses | manager |
| `AffectRouter` | the bands of a mean affect, and the label, as operators | |
| `Bridge` | the bridge's calls as outcomes on the manager's state | |
| `ApiServer` | the endpoints and the automatic tick over `Bridge` | api, hit_is_live |
| `ApiTime` | `ApiServer` with a wall clock and a pool of threads whose queries overlap | api_time, ages_in_real_time |
| `SharedDatabases` | `ApiServer` and the MCP server's own bridge on the same databases | processes |
| `NgramHasher` | a text's tokens, its key, and the similarity of two texts, as operators | |
| `RekeyMigration` | the migration script beside a manager, with the keys `NgramHasher` makes | rekey |
| `ThreadedManager` | mount and `_prefetch_worker` split where threads switch, and the hints that start them | threads, lost_write |

The `MC` modules only give constants their values. Eight modules hold proofs:

| module | proves |
|---|---|
| `StoreTheorems` | lemmas on sequences read as orders, tables, finite maps, powers and payloads |
| `FoldTheorems` | induction over the numbers and along the fold of a sequence or a finite set |
| `EngRamManager_proofs` | theorems about `EngRamManager`, and what each of its methods may do to a state |
| `OrderAndRekey_proofs` | the eviction order, the migration, and the hasher it runs on |
| `MemoryAging_proofs` | decay, prediction and the drift of the clock |
| `ThreadedManager_proofs` | the threads |
| `ApiTime_proofs` | the tick and the clock, and what the bridge's calls may do to a state |
| `ApiServer_proofs` | `ApiServer` and `SharedDatabases` |

**Data.** A salience is a whole number of units (`One` of them is 1.0), a
threshold is counted in the same units, and what a salience decays to is an
exact fraction `[num, den]`. Only floating-point rounding is lost. Texts, hashes, tags
and metadata are model values, but where something is computed from them: in
`NgramHasher` and the migration a text is the sequence of its code points and a key
is made from its tokens, and in `ThreadedManager` an adapter's name is the sequence of the
pieces between its underscores, so that one may end like a band. `NoText` stands for the `text` that a generic
`Engram` does not have, and metadata exists because a row has no column for it.
A table is `[store, needsEviction]`, a database the partial function of its
rows. `source` labels are left out, as nothing reads them back.

**Calls that raise.** An internal method maps a state to the set of its
outcomes, each a state and whether the method returned. `AndThen` runs the
next method on those that did. So `Mount` is: touch, or evict (drop, then
save, which may raise when the table is already gone from the dict) and then
load (which may raise too). `Faults` says whether the disk may fail at all;
a table that holds a generic engram fails to save in any case.

**State.** `order` and `tables` are the ordered dict `_tables`, `disk` the
databases, `ret` what the last call returned. In `ApiServer`, `idle` is the
time since `_last_tick_mono`. In `ThreadedManager`, tables are objects with an
identity (`objects`), and each thread has a place in `mount` (`at`), the adapter it
mounts, the object it holds and the rows it has read.

**The abstract store.** `MemoryStore` has, per adapter, the live memories and
the ones a restart would find. A call affects the adapter it names; any other
one may at most be checkpointed. A call that raises may take one adapter back
to what was saved; a crash takes all of them back. `EngRamManager` maps `live`
to the table if it is in RAM and to the rows otherwise, `saved` to the rows.
It leaves open what the code leaves open: a sweep may spare stale memories (the
flag), a checkpoint may bring removed ones back (the upsert) and
drops metadata.

**The bridge.** A response keeps its direct hit, its affect band and whether it
validates. Ties
in a ranking, and the similarity of texts, are open choices. Every request of `ApiServer` is
one step; a query whose text has no key ends, after its tick, in `QueryUnhashable`.
Requests that overlap are the subject of three modules: `ApiTime` for the tick and the clock,
`TableThreads` for what happens inside one table, and
`ThreadedManager`, on whose smaller alphabet (write, prefetch) the races of
mount show already.

**Time.** `_auto_tick` holds no lock: in `ApiTime` each thread has its own `query`, and the
test of the clock, each call that ticks or sweeps one table, the reset of the clock and the
answer are steps of their own. `clock` is all the
time there was, `since` notes when each memory got into RAM and how old it was, `raced`
whether requests have overlapped yet. A new process starts its clock anew. A call of the
manager is one step there, but once requests have overlapped it may also end as a disturbed
call does (`Disturbed`): it raises, or has aged only some of the memories (`CutTicks`), or has
dropped more or fewer than are stale and cleared the flag over what has aged since
(`CutSweeps`). `_auto_tick` swallows what such a call raises and resets the clock all the same.
So no property says of overlapping requests that time is not lost or that what is served is live:
the code promises neither.

**One table.** `TableThreads` takes such calls apart. Since CPython 3.11 threads switch at calls and at
the ends of a loop's passes, so `put` and a delete are one step, `tick` and the scan of `evict_stale` one for
each memory, and the removals one each. The loops go over the live dict: they raise once its size is another
than at the beginning, never see a deleted key, see a new one last, and may miss a key that an insertion has moved when
it rebuilt the dict. `log` has what each running call began with and what others have touched since,
`unswept` what was touched since the last whole sweep began.

**Processes.** `useHttp` says whether the MCP server is a mere client, `local` holds the
tables of its own bridge otherwise, `asked` the requests
it has sent to the HTTP server. A tool call is one step on the local bridge and, if
that raises, one more when the server gets to the request. The tool does not wait in the
model, so a request may outlive its patience; it may also be refused, or end
with the server. Saves of the two processes do not overlap: each is one transaction. For a text that
cannot be hashed (`NoKey`) the local hasher raises before anything is mounted; such a call goes to the server, too,
whose hasher raises in turn: a query's after the tick.

**Hasher and migration.** A token has up to 37 bits and is kept as a low part of sixteen and
what lies above it. `NewKey` is the hasher's key of each text, partial because some tokens
do not fit the signed field they are packed into; the digest is taken to be injective, and
`str.lower` is a parameter. `reading` holds the rows the script has read; the rewrite is one
transaction. Tags are encoded once too often, and the model keeps what is left
of them: characters. The manager beside it only writes, under the key of the text, and saves;
rows with a key of an older hasher are in the databases from the start (`OldRows`).

**Threads.** The interpreter may switch between any two bytecodes, so each
operation on the ordered dict is one step: the test, `move_to_end`, the
subscript, the test for room, `popitem`, the two ends of the loop that
collects a table's rows, the commit, the select, the assignment. An object nobody
refers to is `Free` again, which keeps the state finite.

## Runs

| run | question | bounds |
|---|---|---|
| aging | is the prediction tight, does decay never turn back, how far can rounding put the age off | every kind of policy, a lookup table of 4 powers, whose end ages cross; 4 packets of 7 sizes, with ties both ways and a negative one |
| manager | does the manager implement the store, under failing saves and loads; slots; flag; who is evicted | 3 adapters, 2 slots: a victim, a survivor and a newcomer; 1 key, ages to 1, 2 thresholds, one of which keeps what is fresh |
| api | do requests ever fail, do they keep to their adapter | 2 adapters, 1 slot, boosts up and down beyond the range, updates out of range, both orders of a cross query |
| api_time | how often can time be counted, how much of it is lost, does the tick disturb the order, whose threshold decides | 2 adapters, 2 slots, 2 queries at once, an interval of 2, 5 units of time: two ticks with a remainder; one memory, written in the first 2, which the default threshold drops after a step and the adapters' own after two |
| table_threads | what may become of a table that several threads tick, sweep and change at once | 3 memories, 2 threads, a memory one step from the threshold; one that is skipped, one touched and one left alone |
| processes | what two processes can do to each other's memories, and is a call repeated that was done | 2 adapters, 1 slot each, 1 key, disks that fail, 1 request at a time at the server, one tick; the tool with a bridge, without, and set up anew after its end |
| rekey | what does a rewrite leave, what does it drop, and what does a query find then | 1 adapter, 4 rows, 2 old keys; 2 texts with one key, one with the same letters, 2 that have no key; some 200 queries of up to 4 letters in both cases |
| threads | what survives every interleaving | 2 threads that may both write and prefetch, 2 adapters, one called like a label of the other, 1 slot, 1 key, every band |

Symmetry in the adapters is used where no liveness is checked and the
constants treat adapters alike. The bounds are named constants (`MaxAge`,
`MaxSyncs`, `MaxIdle`, `MaxAsked`, `MaxClock`, `LastWrite`, `LeastSalience`, `MaxRows`, `Asked`, `Threads`), or a
commented guard or definition (`ThreadedManager!WriteMemory`, `ApiTime!Write`, `RekeyMigration!OldRows`). Deadlock is checked except in
aging, which stops at its bound. A table has few
operations that look at more than one entry, so one key is enough (three in table_threads and where rows
collide); what matters is how tables, slots and databases interact, and two slots
with three adapters show every case of the recency order (a use in between, the oldest
unmounted, a failed load). In `ApiTime` one memory is enough because each ages for itself, and
two threads show both ways to count time twice (two that test before either resets, and a
slow one that resets last); a table leaves RAM only with a restart there, and the theorems cover
evictions (with three adapters the run takes too long). The texts of rekey are the classes the hasher tells apart:
one byte, two, beyond U+00FF, beyond U+7FFF, and fewer than three characters.

What the passing runs show:

- `PredictionIsTight`: before the predicted step a memory is kept, after it it
  is gone; only at an exact tie does it stay one step longer. `DecayNeverRises`.
- `DriftPerSync`: n packets put the age at most n half steps off.
- `SlotsRespected`, `TypeOK`: at most `max_loaded` tables, and an order that
  names exactly those, after any failure.
- `CleanMeansSwept`: a clear flag can be trusted, by the manager's own calls.
- `RefinesMemoryStore`: LRU, slots and loading are invisible, failures take
  back one adapter's unsaved changes at most.
- `EvictsLeastRecent`: the victim is the one table used longest ago.
- `NoRequestFails`: sweep, clamps and the limit of a boost together keep every
  out-of-range salience out of responses, while writes are in range.
- `OthersUntouched`: a request never drops or alters a live memory of another adapter.
- `NoTimeTwice`: as long as no requests overlap, no memory is older than all the time there
  was. `OvercountIsBounded`: if they do, no time is counted more than once by one
  thread, twice by the next, and so on: three times with two threads (more than twice does
  happen within the bounds), and disturbed calls do not make it more.
- `LosesLessThanHalf`: as long as no requests overlap, the remainders a tick throws away are
  less than half of the time, for a memory that stays in RAM. If they do overlap, a tick that was
  cut short may cost a memory all of its time.
- `TickLeavesOrder`: undisturbed, the tick is no use of a table.
- `OwnThresholdDecides`: a query sweeps with the default threshold, but the tick before it
  has swept with the adapter's own and cleared the flag, so the query drops nothing more.
  `FindsNothingStale`: and no query, whether it ticks or not, serves anything that is stale by the
  adapter's own threshold (updates aside, see hit_is_live). Both as long as no requests overlap.
- `UntouchedAsAlone`: a tick or a sweep does to the memories that no other thread touches or moves just
  what it does alone, if it returns; if it raises, to some of them, and only because others interfered.
- `LeftAloneIsLive`: when the flag is clear, what is stale has been touched since the last whole
  sweep began. `RemovesLiveOnlyIfTouched`: a sweep takes a live memory only if
  its key has been touched meanwhile.
- `RowsSurvive`: the key of a row that reached a database stays, whichever process saves next. It
  stays because `save` only upserts, which `sqlite_backend.py:125` denies (manager_upsert); the row's
  content may be overwritten by an older copy. `RepeatedOnlyIfUndone`: the fallback
  repeats only what had no effect. `SharedTypeOK`: each process keeps its own slots.
- `FoundByHash`, `LosesToMoreSalient`: a rewritten database holds only memories under
  their own key, and a text is dropped only for another one, a row of which is at least as salient as
  some row of its own. `MostSalientStays`: where the rows of each text have one salience, what
  stays is as salient as any row with its key.
- `LatinTextsKeepApart`, `HitsAreRight`, `SimilarityIsJaccard`: among texts of characters up to
  U+00FF the packing keeps apart what differs in more than case: none takes another's row,
  a query hits its own text and no other, and the similarity is that of the trigrams.
- `SkipsExactly`: which texts have no key, and so no row after a rewrite, in terms of their
  characters and not of bits.
- `TypeOK` of the threads says too that a hint never mounts an adapter that does not exist:
  what the router appended to a name is what the coordinator takes off, and no more.
- `OverrunIsBounded`: a race costs at most one slot for each thread beyond the first.
- `PendingIsRunning`: a pending name has exactly one worker.
- `SafeInTurns`: nothing is lost while threads do not overlap.
- `PrefetchEnds` (liveness): every name leaves `_pending`, even if mount raises.

**Fairness.** Only `PrefetchEnds` needs it: weak fairness of each thread's steps.
The interpreter schedules every runnable thread, and no step of mount
waits for another thread (the coordinator's lock guards single
steps). Nobody is obliged to call: requests and hints have no fairness.

Four runs show the code at odds with what its comments say:

- manager_upsert: `save` claims to replace all rows but only upserts: memories
  that were evicted or deleted come back with the next mount.
- hit_is_live: updates do not raise the flag, so a query serves a memory that
  has no salience left as "guaranteed live".
- ages_in_real_time: the tick applies the whole time since the last tick,
  so a memory written after an idle period is aged by time before its birth.
- lost_write: a prefetch evicts the table a caller is about to write into.

Divergences met on the way that have no run:

- Manager and backend: a table leaves the dict before it is saved (`manager.py:58`), so a save that raises loses it,
  though the module's own text (`manager.py:5`) says it is saved before it is freed (in `MemoryStore`
  that is `Fail`); `unmount_all` stops at the first table it cannot save; a generic `Engram` cannot be saved.
- Table: `evict_stale` clears the flag whatever its threshold was, so a later sweep with a
  higher threshold returns at once.
- Overlapping requests: a put or a delete makes another thread's tick raise before it has reached
  every memory (`engram_table.py:67`), `api.py:93` swallows it and `api.py:104` resets the clock, so the others
  never get that time; a sweep deletes by key what has been written since its
  scan (`engram_table.py:83`), and clears the flag over what another thread has aged since (`engram_table.py:84`), so that a
  query may serve stale memories as "guaranteed live" (`interface.py:117`).
- Decay: at an exact tie `steps_until_eviction` names a step at which the memory is not yet evictable
  (`tests/test_decay.py:59` says it is); a negative age reads the lookup table
  from its end; PIDX packets of under half a day never age anything.
- Thresholds: queries sweep with the default threshold adapters that `PER_ADAPTER_THRESHOLD` gives a lower one.
- Migration: it deletes rows whose text it cannot hash, mangles tags, and deletes what was saved
  since it read. "Keep the higher-salience entry" (`rekey_migration.py:61`) holds between two texts at a time; a
  second row of a text replaces the first unasked. Of A with salience 3, A with 1 and B with 2, all with one key and met
  in this order, B stays; met in the order A(3), B(2), A(1), it is A(1).

`_auto_tick` promises decay "since last call" (`api.py:64`), but queries that overlap apply
the same time once each, and a slow one sets the clock back. The hasher does not work "on any
text" (`ngram_hasher.py:116`): a character beyond U+7FFF before the last two, or two
characters like "éé", make `struct.pack` raise, so that such a memory cannot be written and a
query for it fails after its tick has taken place. Nor are its tokens 32-bit or its keys
"unique" (`ngram_hasher.py:101`): "wez" and "weź" share one, as do texts that differ in
case. `_text_to_key` says it finds "the dominant N-gram hash" (`api.py:433`) and hashes the whole
sequence; its "empty" key is never used, as `tokenize_text` never returns an empty list.
Without xxhash another digest is used, and databases written with it have other keys.
`hash_hit_rate` of `/stats` counts every query that finds any memory with a salience above 0,
hit or not, and its evictions leave out those of ticks.

## Proofs

The theorems hold for every value of the constants: any number of adapters,
slots, threads and requests, any payloads, thresholds, policies, faults and bounds.

| module | theorem | says |
|---|---|---|
| `EngRamManager_proofs` | `Soundness` | `Spec => []SoundSt(St)`, the inductive invariant |
| | `TypeCorrect`, `SlotsAreRespected` | `TypeOK`, `SlotsRespected` |
| | `CleanFlagIsTrusted` | `CleanMeansSwept` |
| | `Refinement` | the manager implements `MemoryStore` |
| `OrderAndRekey_proofs` | `OrderIsRecency` | the order of the dict is the order of last use |
| | `LeastRecentIsEvicted` | `EvictsLeastRecent` |
| | `RekeySound` | the inductive invariant of the migration beside a manager |
| | `RekeyTypeCorrect`, `EachIsFoundByHash` | `RekeyTypeOK`, `FoundByHash` |
| | `NothingGivesWayToLess`, `MostSalientIsKept` | `LosesToMoreSalient`, `MostSalientStays` |
| | `LatinTextsAreKept`, `QueriesHitTheirOwn` | `LatinTextsKeepApart`, `HitsAreRight`, for Latin texts of any length |
| | `RankingIsOfTrigrams` | `SimilarityIsJaccard` |
| | `SkippedAreKnown` | `SkipsExactly`, for texts of any characters and length |
| `MemoryAging_proofs` | `DriftIsBounded` | `DriftPerSync`, for packets of any size and sign |
| | `PredictionIsExact` | `PredictionIsTight`, for every policy and length of the lookup table |
| | `EvictableForGood` | what may be evicted may be evicted ever after |
| | `WorthNeverRises` | `DecayNeverRises`, if no salience is negative |
| `ThreadedManager_proofs` | `Soundness` | the inductive invariant of the interleaved mounts |
| | `TypeCorrect`, `OverrunBounded` | `TypeOK`, `OverrunIsBounded` |
| | `PendingIsTrue`, `TurnsAreSafe` | `PendingIsRunning`, `SafeInTurns` |
| `ApiTime_proofs` | `TimeSound` | the inductive invariant of the tick and the clock |
| | `NoTimeIsCountedTwice`, `LosesLess` | `NoTimeTwice`, `LosesLessThanHalf`, while no two requests overlap |
| | `OvercountHasABound` | `OvercountIsBounded`, for any number of threads that disturb each other |
| | `OrderIsLeft` | `TickLeavesOrder` |
| | `OwnThresholdCounts`, `FoundIsLive` | `OwnThresholdDecides`, `FindsNothingStale`, while no two requests overlap |
| `ApiServer_proofs` | `ApiTypeCorrect` | `ApiTypeOK` |
| | `RequestsDoNotFail` | `NoRequestFails`, if saves and loads do not fail and writes are fit |
| | `OthersAreUntouched` | `OthersUntouched`, if saves do not fail and writes are plain |
| | `SharedSound` | the inductive invariant of the two processes |
| | `SharedTypeCorrect`, `RowsAreNeverLost` | `SharedTypeOK`, `RowsSurvive` |
| | `FallbackRepeatsNothing` | `RepeatedOnlyIfUndone` |

### How each is argued

**The manager.** `SoundSt` strengthens the properties with what they rest on:
the order lists the domain of `tables` without repetition (so that dropping
the first frees exactly one slot and removing a name removes it once), there
are at most `MaxLoaded`, every table and database is well-formed, and each
table's flag can be trusted. It is stated of a state record, so it holds in
the middle of a call too: lemmas give, for each internal method (`Drop`,
`DropAndSave`, `Touch`, `LoadTable`, `Mount`, `Flushed`, `FlushAll`), what
every outcome does to the order and to each adapter's memories: kept, saved
or lost. The theorems follow by one case per public call. For the refinement
the same lemmas are read as steps of `MemoryStore`: kept or saved is
`Settled`, and lost by one adapter is `Fail`.

**The eviction order.** `EvictsLeastRecent` is an action property about the history
`recent`. The invariant is `RecentOK`: of any two adapters in RAM, the one that comes before the
other in the dict's order comes before it in `recent`, so the first of the dict was used longest ago. A call that drops
an adapter in the middle, a load that fails after the drop, and a mount after which the name
moves to the end each keep that; a call that raises is told from one that returns by `ret`,
which is why `RaiseAssumption` is needed.

**Decay.** `DriftPerSync` is inductive as it stands, because each packet is rounded for itself.
The rest is arithmetic over `AgingInv` (the types, and a lookup table that reaches from the
first power to the last, of the policy that uses it): a power falls with its
exponent, by induction; the lookup table and the formula beyond its end agree where they
meet; a memory worth less than a threshold now is worth less at any later age, the
linear policy stopping at zero. `WorthNeverRises` needs saliences that are not negative, as decay
brings a negative one up towards zero; `EvictableForGood` does not, as thresholds are
positive, and so says of every memory that no later packet revives it.

**Threads.** `Sound` has three parts. `ThreadsOK`: each thread has in its locals what the
statement it stands at reads. `DictOK`: order and dict name the same adapters, each once,
and only objects. `StoreOK`: what the dict or a thread refers to is a table, so none of it is free.
`PendingIsRunning` is then inductive. So is `OverrunIsBounded`, because it counts the threads on their
way to a slot with those in the dict: a thread that passes the test for room does so with
fewer than `MaxLoaded` tables in the dict, and others on their way are fewer than the threads.
`SafeInTurns` is not. `Turns` strengthens it: while at most one thread is inside `mount`, no two
adapters share an object, the dict is within its slots, what was written is where the next mount
looks or with the thread that saves it, and each place in `mount` knows what has been tested
(`InTurn`): no name is in the dict between the miss and the insertion, and the rows
a save gathers are those of the object.

**The clock.** Of every state, overlapping and disturbed requests, restarts, failures and
evictions included, `TimeInv` says: `SoundSt`; a query's `now` lies in the past and its names are
adapters (`ClockOK`); the history covers what is in RAM (`SinceOK`). The rest (`Undisturbed`) it says as long
as no requests have overlapped, so that at most one thread is inside the tick and no call is disturbed:
the remainders thrown away add up to less than half of the time (`HalfCounted`, `HalfKept`);
every memory the running tick has not reached
is no older than the time up to the last tick, and every other no older than that and the
steps of this tick, which end before its `now` (`Counted`); and a tick names each
adapter in RAM once (`InTurn`). `NoTimeTwice` and `LosesLessThanHalf` follow. The tick leaves the
order as it was because it touches the adapters in that very order: after each touch
the sequence is rotated by one, which `InTurn` records. `CleanIsLive` says what
a clear flag means, again while no requests have overlapped, to a query that sweeps with another threshold:
the table was last swept with the adapter's own, so nothing in it is stale by that. It holds
because every sweep uses a threshold at least as high (`OverrideAssumption`), and gives
`FindsNothingStale`. `OwnThresholdDecides` follows from `InTurn`, whose last part says that
all flags are clear after the second loop.

**Counted too often.** For `OvercountIsBounded` the invariant looks at single units of time.
`Covered` says that for each adapter there is a ledger: how often each unit `u` so far was counted, such that
no memory of the adapter is older than the sum. A unit is counted by a query that ticks and has it among its
steps. It must have compared its clock while the last tick lay before `u`, and between two resets to before
`u` each thread can do so once. Such a reset needs a query that looked at the clock before `u` existed and has
not reset yet (`Lagging`), which is one less with each. So with `n` counts made, `c` threads that may still
count `u` before the next reset (`Counting`) and `m` that lag, `2n + 2c + m(2N - m + 1)` never exceeds
`N(N + 1)` (`Room`). A thread that lags does not count: hence `1 + 2 + ... + N` and not `N` squared. The sum
of the ledger is bounded by induction over the time. A disturbed call counts a
unit no more often than a whole one.

**No request fails.** `FitSt` says of every memory in RAM and on disk that it has a text and no
metadata, that its salience is no more than 1, its affect within [-1, 1] and its age not negative; and that a
table whose flag is clear has no salience below 0. There is no lower bound on a salience, as packets
lower it without one (`handle_pidx_sync`). But they raise the flag, the query that
builds a response sweeps first, and what decays to a threshold above 0 is itself above 0 under every policy. So a response is built of
saliences between 0 and 1, the mean of its affects lies within [-1, 1] and has a band, and neither the
bridge nor the router raises.

**Bridge, API, processes.** Lemmas give for each call of the bridge what all its outcomes
keep: `SoundSt`, and that no row leaves a database. The calls that loop (the tick over all
adapters, the cross query, a list of hints) do so by induction along their fold.
`SharedInv` is the soundness of both processes' tables over the same databases: a
save of one changes only databases, and `SoundSt` relates no table to its database.

**Other adapters.** `OthersUntouched` needs to know that a row holds all of a memory, and that the
save of a victim does not fail: a failed one loses it, a generic `Engram` fails, and
metadata have no column. So the theorem assumes that saves do not fail and that what is written has a text and no
metadata, as `api.py` builds it; loads may fail. `PlainSt` says that all memories stay so, through ticks,
boosts and updates too. `Spares` is the property as a relation of two states. It is transitive, as a
memory that is the same is no more stale than it was, and so is followed through every round of a cross
query, which may sweep a table, push it out and load it again.

**Migration.** `RekeyInv` is `SoundSt`, databases and tables that are finite (the script folds over
rows) and whose memories have texts (`IsStored`; that they stay so is read off the manager's refinement
of `MemoryStore`), and well-formed rows of one adapter at most in hand. The loop that fills `new_map` has the invariant
`PlacedSoFar`: every entry is a row under its text's own key, and of each row met so far
(`Stands`) the text is there, or gives way to another text with the key, a row of which is at least as salient
as some row of its own (`GivesWay`); and where no text with the key has rows of different salience
(`EachOnce`), the entry is as salient as the row. Without `EachOnce` it is not: a row replaces a more
salient one of its own text without a look.

**Hasher.** A token is put together with `|`, a sum over the bits from the twenty-first down. `OrIsSum` gives its
partial sums; where one number has no bits the other's are left (`OrKeepsHigh`), and those of a number below
are added (`OrAddsLow`). So `|` of bytes that do not overlap is their sum (`OrOfBytes`), and the token of three
characters up to U+00FF has a byte for each: equal tokens are equal trigrams (`TrigramTells`), and a text of three
characters or more can be read off its tokens (`LongTextsDiffer`). A shorter one is decoded from the UTF-8 in
its only token (`Decoded`), in which a missing byte is 0 and no letter's. That a short text has never the
token of a trigram (`ShortIsNotTrigram`) is due to case: the bytes 194 and 195, with which UTF-8 begins a character
from U+0080 to U+00FF, are the capitals Â and Ã if read as characters, and a text in lower case has neither.
Together: Latin texts have the same key if and only if they are the same but for case (`KeysAreRight`), and
the properties follow from what `RewriteEffect` says of a rewrite. For `SkippedAreKnown` the signed field is what
matters: a bit from the fifteenth of the high part up is set by the first character of a trigram alone
(`OrStaysBelow`), and by the fourth byte of a short text, which is below 128 just if it is a zero or an ASCII character.

**Induction.** tlapm cannot instantiate a theorem that takes an operator as a parameter, but
can take one from an `INSTANCE` of a module that declares the operator as a constant. `FoldTheorems`
is such a module. `Numbers` (induction over exponents), `Gathering` (the cross query), `Ageing` and
`Pruning` (the tick) and `Placing` (`new_map`) are its instances, each with its own step and predicate.

### What is assumed

The assumptions are named in the modules, and TLC evaluates them in the runs.

- `max_loaded`, the interval, the size of the lookup table and of an answer are positive; payloads, steps,
  thresholds and request bodies have their types (`InputAssumption`, `BodyAssumption`,
  `RequestAssumption`, `DeltasAssumption`, `AgingAssumption`); policies decay by a proper fraction or a
  positive rate, or not at all (`IsPolicy`), as the classes of `decay.py` describe them.
- Sentinels and marks of the model are none of the values they stand beside
  (`SentinelAssumption`, `MarkAssumption`, `FreeAssumption`, `ResultAssumption`, `RaiseAssumption`).
- Thresholds of single adapters are positive and no higher than the default (`OverrideAssumption`):
  `api.py:109` introduces them to lower it, and every entry does.
- The pool, the threads and the adapters of the coordinator are finite (`PoolAssumption`,
  `ThreadAssumption`, `NameAssumption`), and so is the number of keys from older hashers (`OldKeysAssumption`).
- Texts are sequences of code points (`TextsAssumption`), every row has one (`RowsAssumption`: the column is `NOT
  NULL`), and their lower case has no lone surrogates (`FoldedAssumption`: sqlite keeps texts as UTF-8, and
  `str.lower` makes none). Of `str.lower`, which is a parameter, it is assumed that it maps each character from U+0001 to
  U+00FF to one such character that is neither Â nor Ã (`LowerAssumption`), which is so in Python. A text with
  U+0000 is not Latin in the sense of the properties: "a" and "a" with a U+0000 after it share a key.
- `RequestsDoNotFail` covers affects of the whole range [-1, 1] and so every edge of a band, where the run
  has affects of 1 only. It assumes what the property is about: saves and loads that do not fail, payloads that are
  fit when they are written, thresholds above 0; further that there are finitely many keys (a response takes the best
  of them), and that the mark `Raised` is none of the replies. `ApiServer.cfg` gives the constants such values, and
  `OthersAreUntouched` says what it assumes in the same way.
- In `ApiTime` time comes from the clock alone, and memories are written new (`ClockAlone`): a
  packet or a payload's own age is time that the clock knows nothing of.

### What is model-checked only

- `PrefetchEnds`: liveness under fairness is out of the prover's reach.
- The properties of `TableThreads`. What they say of a table that is left alone is proved of `Tick` and
  `EvictStale` as they are used in the other modules, one step each.
- The four violations, which are about single behaviours.
- What calls return, beyond whether they raised: `ret` is read by the eviction order only.

## Not modelled

- The counters of `/stats`: nothing else reads them.
- Endpoints other than queries that overlap, with one another and inside mount, beyond what
  `ThreadedManager` has: writes and prefetches.
- Inside one table, updates in place and reads beside ticks and sweeps; interleavings inside two tables at once.
- Tools of the MCP server that only read (`memory_stats`, `list_adapters`), and the wording of answers.
- `NgramHasher.hash_context`, which only the benchmark and tests use; the digests themselves.
- Bands and label formats a caller may give the router: nothing in the repository does.
- A payload that is written with a negative age: nothing in the repository does.
- Floating-point rounding.
- Scripts and examples, which only use the library.

## What is left

Every component that changes state is modelled, and each invariant and action property of the passing runs is
proved, those of `TableThreads` excepted. `PrefetchEnds`, the one liveness property, is model-checked. Left open
is what texts beyond Latin share a key: "wez" and "weź" do, and the properties say of such texts only which of
them have a key at all.
