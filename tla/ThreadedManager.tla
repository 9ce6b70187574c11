--------------------------- MODULE ThreadedManager -------------------------
(***************************************************************************)
(* Threads in one EngRamManager, with no lock around it: the daemon        *)
(* threads of mrag/prefetch/coordinator.py mount adapters in the very      *)
(* manager that requests use, and api.py serves requests from a pool.      *)
(* mount and _evict_lru (mrag/store/manager.py) run one bytecode-sized     *)
(* step at a time, interleaved by the interpreter: each operation on the   *)
(* dict is one step, so are the read and the write of a database, and a    *)
(* table is an object that threads may still hold when the dict has        *)
(* forgotten it.  The disk works; what raises is the dict, on a key that   *)
(* another thread took away.                                               *)
(***************************************************************************)
EXTENDS SqliteBackend, SequencesExt, AffectRouter

CONSTANTS Adapters,     \* names, as AffectRouter has them
          MaxLoaded,    \* max_loaded
          Payloads,     \* payloads requests write
          Threads,      \* bound: threads at work at once
          Callers,      \* those that serve requests: one, or api.py's pool
          Free          \* marks an object nobody refers to

ASSUME MaxLoadedAssumption == MaxLoaded \in Nat \ {0}
ASSUME ThreadAssumption == IsFiniteSet(Threads) /\ Threads # {} /\ Callers \subseteq Threads
ASSUME NameAssumption == Adapters \subseteq Seq(STRING) /\ IsFiniteSet(Adapters)

\* What api.py builds from a request has a text and no metadata.
ASSUME RequestAssumption ==
  Payloads \subseteq Payload /\ \A p \in Payloads : p.text # NoText /\ p.metadata = NoMetadata
ASSUME MarkAssumption ==
  /\ Absent \notin [key : Keys, payload : Payloads]
  /\ Free \notin [store : UNION {[S -> Payload] : S \in SUBSET Keys}, needsEviction : BOOLEAN]

VARIABLES order,        \* keys of _tables, least recently used first
          tables,       \* _tables: from adapters in RAM to objects
          objects,      \* the table behind each object; Free if it has none
          disk,
          pending,      \* _pending
          at,           \* each thread's place in mount, or in what surrounds it
          on,           \* the adapter each thread mounts
          victim,       \* the adapter each thread took out of the dict
          held,         \* the object each thread holds
          rows,         \* what each thread has read from the table it saves
          write,        \* key and payload of each thread's write_memory; Absent if it prefetches
          last,         \* history: what was last put into each adapter's memories
          raced         \* history: two threads have been at work at once

dict == <<order, tables>>
store == <<objects, disk>>
locals == <<on, victim, held, rows, write>>
history == <<last, raced>>
vars == <<dict, store, pending, at, locals, history>>

\* More objects than the dict and the threads can refer to.
Objects == 1..(Cardinality(Adapters) + Cardinality(Threads))
None == 0

Busy == {t \in Threads : at[t] # "idle"}

Init ==
  /\ order = <<>> /\ tables = [a \in {} |-> None]
  /\ objects = [i \in Objects |-> Free]
  /\ disk = [a \in Adapters |-> NoRows]
  /\ pending = {}
  /\ at = [t \in Threads |-> "idle"]
  /\ on = [t \in Threads |-> Absent]
  /\ victim = [t \in Threads |-> Absent]
  /\ held = [t \in Threads |-> None]
  /\ rows = [t \in Threads |-> NoRows]
  /\ write = [t \in Threads |-> Absent]
  /\ last = [a \in Adapters |-> NoRows]
  /\ raced = FALSE

Goto(t, place) == at' = [at EXCEPT ![t] = place]

\* Objects that no one refers to any more are as good as new.
Collect(live) == [i \in Objects |-> IF i \in live THEN objects[i] ELSE Free]
Referred == Range(tables) \cup Range(held)

Prefetching(t) == t \in Busy /\ write[t] = Absent

\* Mutant: the name stays in _pending when mount raises.
RaiseQuietly(t) ==
  /\ Goto(t, "idle")
  /\ on' = [on EXCEPT ![t] = Absent]
  /\ held' = [held EXCEPT ![t] = None]
  /\ rows' = [rows EXCEPT ![t] = NoRows]
  /\ write' = [write EXCEPT ![t] = Absent]
  /\ UNCHANGED <<dict, store, pending, victim, history>>

\* mount raises: a request ends here, a prefetch thread runs its finally.
Raise(t) ==
  /\ Goto(t, IF Prefetching(t) THEN "finally" ELSE "idle")
  /\ on' = IF Prefetching(t) THEN on ELSE [on EXCEPT ![t] = Absent]
  /\ held' = [held EXCEPT ![t] = None]
  /\ rows' = [rows EXCEPT ![t] = NoRows]
  /\ write' = [write EXCEPT ![t] = Absent]
  /\ UNCHANGED <<dict, store, pending, victim, history>>

----------------------------------------------------------------------------
(* mount *)

Lookup(t) ==
  /\ at[t] = "lookup"
  /\ Goto(t, IF on[t] \in DOMAIN tables THEN "touch" ELSE "room")
  /\ UNCHANGED <<dict, store, pending, locals, history>>

Touch(t) ==
  /\ at[t] = "touch"
  /\ IF on[t] \in DOMAIN tables
     THEN /\ order' = Append(RemoveFirst(order, on[t]), on[t])
          /\ Goto(t, "fetch")
          /\ UNCHANGED <<tables, store, pending, locals, history>>
     ELSE Raise(t)

Fetch(t) ==
  /\ at[t] = "fetch"
  /\ IF on[t] \in DOMAIN tables
     THEN /\ held' = [held EXCEPT ![t] = tables[on[t]]]
          /\ Goto(t, "mounted")
          /\ UNCHANGED <<dict, store, pending, on, victim, rows, write, history>>
     ELSE Raise(t)

\* Mutant: an off-by-one in the test for a free slot.
RoomForOneMore(t) ==
  /\ at[t] = "room"
  /\ Goto(t, IF Len(order) > MaxLoaded THEN "evict" ELSE "load")
  /\ UNCHANGED <<dict, store, pending, locals, history>>

Room(t) ==
  /\ at[t] = "room"
  /\ Goto(t, IF Len(order) >= MaxLoaded THEN "evict" ELSE "load")
  /\ UNCHANGED <<dict, store, pending, locals, history>>

Evict(t) ==
  /\ at[t] = "evict"
  /\ IF order # <<>>
     THEN /\ victim' = [victim EXCEPT ![t] = Head(order)]
          /\ held' = [held EXCEPT ![t] = tables[Head(order)]]
          /\ order' = Tail(order)
          /\ tables' = Restrict(tables, DOMAIN tables \ {Head(order)})
          /\ Goto(t, "save")
          /\ UNCHANGED <<store, pending, on, rows, write, history>>
     ELSE Raise(t)

\* save goes through the dict of the table ...
Save1(t) ==
  /\ at[t] = "save"
  /\ rows' = [rows EXCEPT ![t] = objects[held[t]].store]
  /\ Goto(t, "gather")
  /\ UNCHANGED <<dict, store, pending, on, victim, held, write, history>>

\* ... and raises when a key was added on the way.
Save2(t) ==
  /\ at[t] = "gather"
  /\ IF DOMAIN rows[t] = DOMAIN objects[held[t]].store
     THEN /\ rows' = [rows EXCEPT ![t] = Rows(objects[held[t]].store)]
          /\ held' = [held EXCEPT ![t] = None]
          /\ objects' = Collect(Range(tables) \cup Range(held'))
          /\ Goto(t, "commit")
          /\ UNCHANGED <<dict, disk, pending, on, victim, write, history>>
     ELSE Raise(t)

\* Mutant: the rows are never committed.
CommitNothing(t) ==
  /\ at[t] = "commit"
  /\ victim' = [victim EXCEPT ![t] = Absent]
  /\ rows' = [rows EXCEPT ![t] = NoRows]
  /\ Goto(t, "load")
  /\ UNCHANGED <<dict, store, pending, on, held, write, history>>

Save3(t) ==
  /\ at[t] = "commit"
  /\ disk' = [disk EXCEPT ![victim[t]] = Upserted(@, rows[t])]
  /\ victim' = [victim EXCEPT ![t] = Absent]
  /\ rows' = [rows EXCEPT ![t] = NoRows]
  /\ Goto(t, "load")
  /\ UNCHANGED <<dict, objects, pending, on, held, write, history>>

\* load fills a new object from the rows it finds.
LoadRows(t) ==
  /\ at[t] = "load"
  /\ LET new == CHOOSE i \in Objects : i \notin Referred
     IN  /\ objects' = [Collect(Referred) EXCEPT ![new] = Load(disk[on[t]])]
         /\ held' = [held EXCEPT ![t] = new]
  /\ Goto(t, "install")
  /\ UNCHANGED <<dict, disk, pending, on, victim, rows, write, history>>

\* Mutant: an adapter that is in the order gets a second place in it.
InstallLast(t) ==
  /\ at[t] = "install"
  /\ order' = Append(order, on[t])
  /\ tables' = [a \in DOMAIN tables \cup {on[t]} |-> IF a = on[t] THEN held[t] ELSE tables[a]]
  /\ Goto(t, "mounted")
  /\ UNCHANGED <<store, pending, locals, history>>

\* Assigning to a key of an ordered dict: one that is there keeps its place.
Install(t) ==
  /\ at[t] = "install"
  /\ order' = IF on[t] \in DOMAIN tables THEN order ELSE Append(order, on[t])
  /\ tables' = [a \in DOMAIN tables \cup {on[t]} |-> IF a = on[t] THEN held[t] ELSE tables[a]]
  /\ Goto(t, "mounted")
  /\ UNCHANGED <<store, pending, locals, history>>

Mount(t) ==
  \/ Lookup(t) \/ Touch(t) \/ Fetch(t) \/ Room(t) \/ Evict(t)
  \/ Save1(t) \/ Save2(t) \/ Save3(t) \/ LoadRows(t) \/ Install(t)

----------------------------------------------------------------------------
(* What surrounds mount. *)

Start(t, a) ==
  /\ at[t] = "idle"
  /\ Goto(t, "lookup")
  /\ on' = [on EXCEPT ![t] = a]
  /\ raced' = (raced \/ Busy # {})

\* write_memory: mount ...
WriteMemory(t, a, k, p) ==
  /\ t \in Callers
  /\ ValueAt(last[a], k) # p    \* bound: what was written last is not written again
  /\ Start(t, a)
  /\ write' = [write EXCEPT ![t] = [key |-> k, payload |-> p]]
  /\ UNCHANGED <<dict, store, pending, victim, held, rows, last>>

\* ... then put, into the object that mount returned.
PutMounted(t) ==
  /\ at[t] = "mounted" /\ ~Prefetching(t)
  /\ held' = [held EXCEPT ![t] = None]
  /\ objects' = [i \in Objects |->
                   IF i \notin Range(tables) \cup Range(held') THEN Free
                   ELSE IF i = held[t] THEN Put(objects[i], write[t].key, write[t].payload)
                   ELSE objects[i]]
  /\ last' = [last EXCEPT ![on[t]] = With(@, write[t].key, write[t].payload)]
  /\ on' = [on EXCEPT ![t] = Absent]
  /\ write' = [write EXCEPT ![t] = Absent]
  /\ Goto(t, "idle")
  /\ UNCHANGED <<dict, disk, pending, victim, rows, raced>>

\* Mutant: a name that is queued already gets a second thread.
ScheduleAgain(t, a) ==
  /\ pending' = pending \cup {a}
  /\ Start(t, a)
  /\ UNCHANGED <<dict, store, victim, held, rows, write, last>>

\* _schedule, for a name that is not queued: a new thread t, at any moment.
Schedule(t, a) ==
  /\ a \notin pending
  /\ pending' = pending \cup {a}
  /\ Start(t, a)
  /\ UNCHANGED <<dict, store, victim, held, rows, write, last>>

\* The coordinator's own list of the bands.
BandSuffixes == {"warm", "cordial", "neutral", "guarded", "hostile"}

\* One suffix is taken off, whatever it is part of.
StripBand(label) == IF Last(label) \in BandSuffixes THEN Front(label) ELSE label

\* The hook that handle_trigger calls, with the label it has routed to ...
Hint(t, label) == Schedule(t, StripBand(label))

\* ... and the entry for a bare name.
HintRaw(t, a) == Schedule(t, a)

\* The worker drops what mount returned.
Prefetched(t) ==
  /\ at[t] = "mounted" /\ Prefetching(t)
  /\ held' = [held EXCEPT ![t] = None]
  /\ objects' = Collect(Range(tables) \cup Range(held'))
  /\ Goto(t, "finally")
  /\ UNCHANGED <<dict, disk, pending, on, victim, rows, write, history>>

Discard(t) ==
  /\ at[t] = "finally"
  /\ pending' = pending \ {on[t]}
  /\ on' = [on EXCEPT ![t] = Absent]
  /\ Goto(t, "idle")
  /\ UNCHANGED <<dict, store, victim, held, rows, write, history>>

Work(t) == Mount(t) \/ PutMounted(t) \/ Prefetched(t) \/ Discard(t)

Next ==
  \E t \in Threads :
    \/ \E a \in Adapters, k \in Keys, p \in Payloads : WriteMemory(t, a, k, p)
    \/ \E a \in Adapters : HintRaw(t, a) \/ \E band \in BandNames : Hint(t, Label(a, band))
    \/ Work(t)

\* The interpreter gives every thread its turn; no one is obliged to call.
Spec == Init /\ [][Next]_vars /\ \A t \in Threads : WF_vars(Work(t))

----------------------------------------------------------------------------
(* Properties. *)

Places == {"idle", "lookup", "touch", "fetch", "room", "evict", "save", "gather",
           "commit", "load", "install", "mounted", "finally"}

\* Every reference in the dict or in a thread that needs one leads to a
\* table, and the order names the adapters of the dict, each once.
TypeOK ==
  /\ at \in [Threads -> Places]
  /\ pending \subseteq Adapters
  /\ DOMAIN tables = ToSet(order) /\ Len(order) = Cardinality(DOMAIN tables)
  /\ \A i \in Referred \ {None} : i \in Objects /\ objects[i] # Free /\ IsTable(objects[i])
  /\ \A a \in Adapters : IsContents(disk[a])

\* A race may cost slots, but not without limit: each thread beyond the
\* first adds at most one table to max_loaded, counting those on their way.
OverrunIsBounded ==
  Len(order) + Cardinality({t \in Threads : at[t] \in {"save", "gather", "commit", "load", "install"}})
    < MaxLoaded + Cardinality(Threads)

\* _pending is what its users take it for: a name is in it exactly while a
\* thread is prefetching that adapter, and then only one is.
PendingIsRunning ==
  LET workers == {t \in Threads : Prefetching(t)}
  IN  /\ pending = {on[t] : t \in workers}
      /\ \A t, u \in workers : on[t] = on[u] => t = u

\* Every queued name leaves _pending in the end, whatever mount ran into:
\* the adapter can be prefetched again.
PrefetchEnds == \A a \in Adapters : a \in pending ~> a \notin pending

\* The adapter's memories as its next mount would find them.
Visible(a) == IF a \in DOMAIN tables THEN objects[tables[a]].store ELSE disk[a]

\* With no thread at work, every write that returned can be read back.
AllWritesVisible ==
  Busy = {} => \A a \in Adapters : \A k \in DOMAIN last[a] : ValueAt(Visible(a), k) = last[a][k]

\* Prefetching in turns is harmless: as long as no two threads were ever at
\* work at once, nothing is lost and no slot is overrun.
SafeInTurns == ~raced => AllWritesVisible /\ (Busy = {} => Len(order) <= MaxLoaded)

\* coordinator.py:24-26: without the coordinator "handle_trigger() mounts
\* on-demand with no functional difference, only a latency cost"; wired in,
\* it makes no such difference either, and no write is lost.
NoFunctionalDifference == AllWritesVisible
=============================================================================
