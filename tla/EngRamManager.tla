--------------------------- MODULE EngRamManager ---------------------------
(***************************************************************************)
(* mrag/store/manager.py: at most MaxLoaded adapter tables in RAM, the     *)
(* least recently used one saved and dropped when another is needed.  The  *)
(* module follows the code in being sequential: one public call is one     *)
(* step.  A call may raise half-way, and what it did until then stays: an  *)
(* outcome is the state an internal method leaves and whether it returned  *)
(* (ok) or raised.                                                         *)
(***************************************************************************)
EXTENDS SqliteBackend, SequencesExt

CONSTANTS Adapters,
          MaxLoaded,            \* max_loaded
          Payloads,             \* payloads callers write
          Steps,                \* step counts callers tick by
          Thresholds,           \* thresholds callers sweep with
          MaxAge,               \* bound: no memory is aged past it
          Faults,               \* which of "save", "load" the disk may fail
          Done, Raised, Crashed \* results of calls that return nothing

ASSUME MaxLoadedAssumption == MaxLoaded \in Nat \ {0}
ASSUME InputAssumption ==
  Payloads \subseteq Payload /\ Steps \subseteq Int /\ Thresholds \subseteq Int

VARIABLES order,        \* keys of _tables, least recently used first
          tables,       \* _tables: a function from the adapters in RAM
          disk,         \* each adapter's database
          ret           \* what the last call returned

vars == <<order, tables, disk, ret>>

St == [order |-> order, tables |-> tables, disk |-> disk]
Commit(st) == order' = st.order /\ tables' = st.tables /\ disk' = st.disk

Returns(st) == [st |-> st, ok |-> TRUE]
Raises(st) == [st |-> st, ok |-> FALSE]

\* An adapter's memories as a caller would see them.
Memories(a) == IF a \in DOMAIN tables THEN tables[a].store ELSE disk[a]

----------------------------------------------------------------------------
(* Internal methods: the outcomes each may have in a state. *)

\* Mutant: the recency order keeps a name that has no table any more.
DropKeepingOrder(st, a) == [st EXCEPT !.tables = Restrict(@, DOMAIN @ \ {a})]

Drop(st, a) ==
  [st EXCEPT !.order = RemoveFirst(@, a), !.tables = Restrict(@, DOMAIN @ \ {a})]

MayFail(table) == "save" \in Faults \/ ~Saveable(table)

\* The table leaves the dict first and is saved next: if save raises, the
\* only copy of what it held is gone.
DropAndSave(st, a) ==
  LET table == st.tables[a]
      gone == Drop(st, a)
  IN  {o \in {Returns([gone EXCEPT !.disk[a] = Save(@, table)]), Raises(gone)} :
         IF o.ok THEN Saveable(table) ELSE MayFail(table)}

\* Mutant: the victim is dropped and not saved.
DropLru(st) == {Returns(Drop(st, Head(st.order)))}

EvictLru(st) == DropAndSave(st, Head(st.order))

\* Mutant: a table that is found does not move to the end.
LeaveInPlace(st, a) == st

Touch(st, a) == [st EXCEPT !.order = Append(RemoveFirst(@, a), a)]

\* Mutant: an empty table takes the slot before the load has succeeded.
MountThenLoad(st, a) ==
  LET taken == [st EXCEPT !.order = Append(@, a),
                          !.tables = [b \in DOMAIN @ \cup {a} |->
                                        IF b = a THEN Load(NoRows) ELSE @[b]]]
  IN  {o \in {Returns([taken EXCEPT !.tables[a] = Load(st.disk[a])]), Raises(taken)} :
         o.ok \/ "load" \in Faults}

LoadTable(st, a) ==
  {o \in {Returns([st EXCEPT !.order = Append(@, a),
                             !.tables = [b \in DOMAIN @ \cup {a} |->
                                           IF b = a THEN Load(st.disk[a]) ELSE @[b]]]),
          Raises(st)} :
     o.ok \/ "load" \in Faults}

\* The outcomes of running Op after one of those in Before that returned.
AndThen(Before, Op(_)) ==
  {o \in Before : ~o.ok} \cup UNION {Op(o.st) : o \in {b \in Before : b.ok}}

\* Mutant: an off-by-one in the test for a free slot.
MountOneTooMany(st, a) ==
  IF a \in DOMAIN st.tables THEN {Returns(Touch(st, a))}
  ELSE IF Len(st.order) > MaxLoaded
       THEN AndThen(EvictLru(st), LAMBDA s : LoadTable(s, a))
       ELSE LoadTable(st, a)

Mount(st, a) ==
  IF a \in DOMAIN st.tables THEN {Returns(Touch(st, a))}
  ELSE IF Len(st.order) >= MaxLoaded
       THEN AndThen(EvictLru(st), LAMBDA s : LoadTable(s, a))
       ELSE LoadTable(st, a)

\* The n least recently used tables saved and dropped.
Flushed(st, n) ==
  LET gone == {st.order[i] : i \in 1..n}
  IN  [order |-> SubSeq(st.order, n + 1, Len(st.order)),
       tables |-> Restrict(st.tables, DOMAIN st.tables \ gone),
       disk |-> [a \in Adapters |-> IF a \in gone THEN Save(st.disk[a], st.tables[a])
                                                  ELSE st.disk[a]]]

\* unmount_all stops at the first save that raises: the tables before that
\* one are saved, that one is lost and the ones after it stay mounted.
FlushAll(st) ==
  LET n == Len(st.order)
      table(i) == st.tables[st.order[i]]
      SavedTo(j) == \A i \in 1..j : Saveable(table(i))
  IN  {o \in {Returns(Flushed(st, n))} : SavedTo(n)}
        \cup {Raises(Drop(Flushed(st, j - 1), st.order[j])) :
                 j \in {i \in 1..n : SavedTo(i - 1) /\ MayFail(table(i))}}

----------------------------------------------------------------------------
(* The public calls. *)

Init ==
  /\ order = <<>>
  /\ tables = [a \in {} |-> Absent]
  /\ disk = [a \in Adapters |-> NoRows]
  /\ ret = Done

\* Mount a, apply Change to its table and return Result of what it was.
OnTable(a, Change(_), Result(_)) ==
  \E m \in Mount(St, a) :
    \/ /\ m.ok
       /\ Commit([m.st EXCEPT !.tables[a] = Change(@)])
       /\ ret' = Result(m.st.tables[a])
    \/ /\ ~m.ok
       /\ Commit(m.st)
       /\ ret' = Raised

WriteMemory(a, k, p) ==
  OnTable(a, LAMBDA t : Put(t, k, p), LAMBDA t : Done)

GetMemory(a, k) ==
  OnTable(a, LAMBDA t : t, LAMBDA t : [adapter |-> a, key |-> k, value |-> Get(t, k)])

TickAdapter(a, steps) ==
  /\ \A k \in DOMAIN Memories(a) : Memories(a)[k].age + steps <= MaxAge
  /\ OnTable(a, LAMBDA t : Tick(t, steps), LAMBDA t : Done)

EvictStaleFrom(a, threshold) ==
  OnTable(a, LAMBDA t : EvictStale(t, threshold),
          LAMBDA t : [adapter |-> a, threshold |-> threshold,
                      count |-> EvictedCount(t, threshold)])

Finish(outcomes) ==
  \E o \in outcomes : Commit(o.st) /\ ret' = IF o.ok THEN Done ELSE Raised

Unmount(a) ==
  IF a \in DOMAIN tables THEN Finish(DropAndSave(St, a)) ELSE Finish({Returns(St)})

UnmountAll == Finish(FlushAll(St))

\* SqliteBackend.delete, "used when an NPC is fully retired".  It looks at
\* no table: an adapter still in RAM is written again when it is unmounted.
Retire(a) ==
  /\ disk' = [disk EXCEPT ![a] = NoRows]
  /\ ret' = Done
  /\ UNCHANGED <<order, tables>>

\* The process ends without shutdown: the databases are what remains.
Crash ==
  /\ order' = <<>>
  /\ tables' = [a \in {} |-> Absent]
  /\ ret' = Crashed
  /\ UNCHANGED disk

\* The calls that need a's table, and so mount it.
Use(a) ==
  \/ \E k \in Keys : GetMemory(a, k) \/ \E p \in Payloads : WriteMemory(a, k, p)
  \/ \E steps \in Steps : TickAdapter(a, steps)
  \/ \E threshold \in Thresholds : EvictStaleFrom(a, threshold)

Release == (\E a \in Adapters : Unmount(a) \/ Retire(a)) \/ UnmountAll \/ Crash

Next == (\E a \in Adapters : Use(a)) \/ Release

Spec == Init /\ [][Next]_vars

----------------------------------------------------------------------------
(* Properties. *)

\* The dict and its recency order name the same adapters, each once.
TypeOK ==
  /\ order \in Seq(Adapters)
  /\ DOMAIN tables = ToSet(order)
  /\ \A a \in DOMAIN tables : IsTable(tables[a])
  /\ DOMAIN disk = Adapters
  /\ \A a \in Adapters : IsContents(disk[a])

\* manager.py: "Keeps at most max_loaded EngRamTable instances in system
\* RAM at once", whatever mounts, saves and loads fail on the way; each
\* table counts once, so there is never a second copy in the order.
SlotsRespected ==
  /\ Cardinality(DOMAIN tables) <= MaxLoaded
  /\ Len(order) = Cardinality(DOMAIN tables)

\* evict_stale may trust its flag: a table whose flag is clear was swept
\* since it last changed, so under the threshold of that sweep nothing in
\* it is stale.  Every other call that can make a memory stale must raise
\* the flag, and a table that comes back from disk must come back flagged.
CleanMeansSwept ==
  \A a \in DOMAIN tables :
    ~tables[a].needsEviction =>
      \E threshold \in Thresholds : Stale(tables[a].store, threshold) = {}

\* The manager is the memory store of MemoryStore: LRU, slots and loading
\* are invisible except for what a raise or a crash may take back.
Store == INSTANCE MemoryStore WITH
           live <- [a \in Adapters |-> Memories(a)],
           saved <- disk
RefinesMemoryStore == Store!Spec

\* The adapters whose table left RAM in this step, other than by a crash.
Freed == IF ret' = Crashed THEN {} ELSE DOMAIN tables \ DOMAIN tables'

\* sqlite_backend.py:124-125: save will "Persist the entire EngRamTable back
\* to SQLite. Replaces all rows".  The database of a table that left RAM
\* without a raise has the rows of that table and no others.
SaveReplacesAllRows ==
  [][ret' # Raised => \A a \in Freed : disk'[a] = Rows(tables[a].store)]_vars
=============================================================================
