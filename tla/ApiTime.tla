------------------------------ MODULE ApiTime ------------------------------
(***************************************************************************)
(* _auto_tick of api.py against the wall clock, with queries that overlap: *)
(* FastAPI serves them from a pool of threads, and the test of the clock,  *)
(* the calls that age and sweep one table after the other, and the reset   *)
(* of the clock are steps with nothing to hold them together.  A call of   *)
(* the manager is one step, and has the outcome it has alone as long as no *)
(* two requests have overlapped; once they have, it may also have one that *)
(* other threads leave of it (TableThreads and ThreadedManager split the   *)
(* calls).  No caller ages memories here, so that every step of age comes  *)
(* from a tick and can be held against the time that passed; and every     *)
(* text asked for has a key.                                               *)
(***************************************************************************)
EXTENDS ApiServer

CONSTANTS Threads,      \* bound: queries served at once
          MaxClock,     \* bound: the time considered
          LastWrite,    \* bound: when the last memory is written
          Free          \* a thread with no query to serve

ASSUME ClockAlone ==
  Steps = {} /\ Deltas = {} /\ MaxIdle = MaxClock /\ \A p \in Payloads : p.age = 0
ASSUME ResultAssumption == Done # Raised
ASSUME PoolAssumption == IsFiniteSet(Threads) /\ Threads # {}

\* The places of a query, with its locals there: before it compares the
\* clock, in the loops of the tick, and before it is answered.
TickQuery == [at : {"tick"}, now : Nat, steps : Nat \ {0}, names : Seq(Adapters), calls : Nat]
Queries == [at : {"compare"}, now : Nat] \cup TickQuery \cup [at : {"handle"}, ticked : BOOLEAN]

ASSUME FreeAssumption == Free \notin Queries

VARIABLES clock,        \* time since the first start
          query,        \* the query each thread serves, and its locals
          since,        \* history: when each memory in RAM got there, and its age then
          raced         \* a request has come while a query was served

pool == <<clock, query>>
timeVars == <<order, tables, disk, ret, idle, clock, query, since, raced>>

Serving == {t \in Threads : query[t] # Free}
LastTick == clock - idle

TimeInit ==
  /\ ApiInit
  /\ clock = 0
  /\ query = [t \in Threads |-> Free]
  /\ since = [a \in Adapters |-> NoRows]
  /\ raced = FALSE

\* What is in RAM with a step, and was not before, is noted.
Noted ==
  since' = [a \in Adapters |->
    [k \in IF a \in DOMAIN tables' THEN DOMAIN tables'[a].store ELSE {} |->
       IF k \in DOMAIN since[a] THEN since[a][k]
       ELSE [time |-> clock, age |-> tables'[a].store[k].age]]]

Goto(t, q) == query' = [query EXCEPT ![t] = q]

TimedPass == clock < MaxClock /\ Pass /\ clock' = clock + 1 /\ UNCHANGED <<query, since, raced>>

\* A query comes in; _auto_tick looks at the clock first.  Which adapter is
\* asked for matters at the end only.
Arrive(t) ==
  /\ query[t] = Free
  /\ Goto(t, [at |-> "compare", now |-> clock])
  /\ raced' = (raced \/ Serving # {})
  /\ UNCHANGED <<vars, idle, clock, since>>

Comparing(t) == query[t] # Free /\ query[t].at = "compare"

\* The adapters in RAM are listed, and work on them begins.
Listed(t, steps) ==
  Goto(t, [at |-> "tick", now |-> query[t].now, steps |-> steps, names |-> order, calls |-> 0])

Unticked(t) == Goto(t, [at |-> "handle", ticked |-> FALSE])

\* Mutant: a part of a step counts as a whole one.
CompareRoundingUp(t) ==
  LET elapsed == query[t].now - LastTick
  IN  /\ Comparing(t)
      /\ IF elapsed < Interval THEN Unticked(t) ELSE Listed(t, (elapsed + Interval - 1) \div Interval)
      /\ UNCHANGED <<vars, idle, clock, since, raced>>

\* Mutant: the clock is reset by every query, also by one that does not tick.
CompareAndReset(t) ==
  LET elapsed == query[t].now - LastTick
  IN  /\ Comparing(t)
      /\ IF elapsed < Interval
         THEN Unticked(t) /\ idle' = clock - query[t].now
         ELSE Listed(t, elapsed \div Interval) /\ UNCHANGED idle
      /\ UNCHANGED <<vars, clock, since, raced>>

\* Either not enough time has passed, or whole steps of it are applied.
Compare(t) ==
  LET elapsed == query[t].now - LastTick
  IN  /\ Comparing(t)
      /\ IF elapsed < Interval THEN Unticked(t) ELSE Listed(t, elapsed \div Interval)
      /\ UNCHANGED <<vars, idle, clock, since, raced>>

\* Mutant: the list is worked off from its other end.
LatestFirst(q) == q.names[Len(q.names) - (q.calls % Len(q.names))]

\* The loops go through the list twice: to tick, then to sweep.
Named(q) == q.names[(q.calls % Len(q.names)) + 1]

\* Only the memories under these keys have aged.
Older(store, aged, steps) ==
  [k \in DOMAIN store |-> [store[k] EXCEPT !.age = @ + IF k \in aged THEN steps ELSE 0]]

\* What is left of a tick that other threads disturb: their put or delete
\* makes the loop over the memories raise, or miss some, before all are aged
\* and the flag is raised.
CutTicks(table, steps) ==
  {[store |-> Older(table.store, aged, steps), needsEviction |-> flag] :
     aged \in SUBSET DOMAIN table.store, flag \in {table.needsEviction, TRUE}}

\* And of a sweep: its scan or a delete raises, or it drops by the scan what
\* has been written since, and clears the flag whatever has been aged since.
CutSweeps(table) ==
  {[store |-> Without(table.store, dropped), needsEviction |-> flag] :
     dropped \in SUBSET DOMAIN table.store, flag \in {table.needsEviction, FALSE}}

\* Such a call of the manager; its mount may raise as well, without a fault.
\* Requests that overlapped once are taken to disturb any call from then on.
Disturbed(st, a, Tables(_)) ==
  IF raced
  THEN {Raises(st)} \cup AndThen(Mount(st, a), LAMBDA s :
                            {Returns([s EXCEPT !.tables[a] = table]) : table \in Tables(s.tables[a])})
  ELSE {}

\* One call of a loop; what it raises is swallowed.  An adapter that has left
\* RAM is mounted again for it.
Visit(t) ==
  LET q == query[t]
      a == Named(q)
      Ticks(table) == Tick(table, q.steps)
      Sweeps(table) == EvictStale(table, ThresholdOf(a))
  IN  /\ q # Free /\ q.at = "tick" /\ q.calls < 2 * Len(q.names)
      /\ \E o \in IF q.calls < Len(q.names)
                   THEN Mounted(St, a, Ticks)
                          \cup Disturbed(St, a, LAMBDA table : CutTicks(table, q.steps))
                   ELSE Mounted(St, a, Sweeps) \cup Disturbed(St, a, CutSweeps) :
           Commit(o.st)
      /\ Goto(t, [q EXCEPT !.calls = @ + 1])
      /\ Noted
      /\ UNCHANGED <<ret, idle, clock, raced>>

\* Mutant: the clock is not reset.
NoReset(t) ==
  /\ query[t] # Free /\ query[t].at = "tick" /\ query[t].calls = 2 * Len(query[t].names)
  /\ Goto(t, [at |-> "handle", ticked |-> TRUE])
  /\ UNCHANGED <<vars, idle, clock, since, raced>>

\* _last_tick_mono = now: whatever other threads have set it to meanwhile.
Reset(t) ==
  LET q == query[t]
  IN  /\ q # Free /\ q.at = "tick" /\ q.calls = 2 * Len(q.names)
      /\ idle' = clock - q.now
      /\ Goto(t, [at |-> "handle", ticked |-> TRUE])
      /\ UNCHANGED <<vars, clock, since, raced>>

\* What the response says is left to ApiServer.  Disturbed, the query may
\* raise, and read after a tick that came behind its sweep.
Answer(t, a) ==
  /\ query[t] # Free /\ query[t].at = "handle"
  /\ \/ \E k \in Keys : \E o \in HandleTrigger(St, a, k) :
          Commit(o.st) /\ ret' = IF o.ok THEN Done ELSE Raised
     \/ \E o \in Disturbed(St, a, CutSweeps) :
          Commit(o.st) /\ ret' \in IF o.ok THEN {Done, Raised} ELSE {Raised}
  /\ Goto(t, Free)
  /\ Noted
  /\ UNCHANGED <<idle, clock, raced>>

Serve(t) == Compare(t) \/ Visit(t) \/ Reset(t) \/ \E a \in Adapters : Answer(t, a)

\* Bound: one memory at a time, as each ages for itself; the tables of the
\* other adapters are there for the slots they take.
Write(a, k, p) ==
  /\ clock <= LastWrite /\ \A b \in Adapters : Memories(b) = NoRows
  /\ PostMemory(a, k, p)
  /\ raced' = (raced \/ Serving # {})
  /\ Noted
  /\ UNCHANGED pool

\* A new process: the threads of the old one are gone.
TimedRestart ==
  /\ Restart
  /\ query' = [t \in Threads |-> Free]
  /\ Noted
  /\ UNCHANGED <<clock, raced>>

TimeNext ==
  \/ TimedPass \/ TimedRestart
  \/ \E a \in Adapters, k \in Keys, p \in Payloads : Write(a, k, p)
  \/ \E t \in Threads : Arrive(t) \/ Serve(t)

TimeSpec == TimeInit /\ [][TimeNext]_timeVars

----------------------------------------------------------------------------
(* Properties. *)

AgeOf(a, k) == Memories(a)[k].age
\* By how much a memory in RAM has aged there.
Gain(a, k) == AgeOf(a, k) - since[a][k].age

\* As long as no request ever came while a query was served, no time is
\* counted twice, whatever queries, restarts and evictions do: a memory, in
\* RAM or on disk, is never older in steps than all the time there was.
NoTimeTwice ==
  ~raced => \A a \in Adapters : \A k \in DOMAIN Memories(a) : AgeOf(a, k) * Interval <= clock

\* Queries that overlap see the same time twice, and one that is slow sets
\* the clock back for the others; but no unit of time is counted more than
\* once by one thread, twice by the next one, and so on.
OvercountIsBounded ==
  LET N == Cardinality(Threads)
  IN  \A a \in Adapters : \A k \in DOMAIN Memories(a) :
        AgeOf(a, k) * Interval <= clock * ((N * (N + 1)) \div 2)

\* The remainder a tick throws away is less than the steps it applies: as
\* long as no two requests overlap, what stays in RAM ages by half of the
\* time up to the last tick at least, through evictions, ticks and queries.
\* (Disturbed, a tick may leave a memory all of its time: TableThreads.)
LosesLessThanHalf ==
  ~raced => \A a \in Adapters : \A k \in DOMAIN since[a] :
    2 * Gain(a, k) * Interval >= LastTick - since[a][k].time

\* The tick is no use of an adapter: undisturbed, it leaves the tables in
\* the order of their last use, and so the query that follows takes the
\* slot it needs from the right one.
TickLeavesOrder ==
  ~raced => \A t \in Serving : query[t].at = "tick" /\ query[t].calls = 2 * Len(query[t].names) =>
              order = query[t].names

\* The adapter whose query a step answers is the one used last.
Answered(t, a) ==
  query[t].at = "handle" /\ query'[t] = Free /\ ret' = Done /\ order' # <<>> /\ a = order'[Len(order')]

\* An adapter's own threshold is the one that counts after a tick: the tick
\* has swept the table with it, so the query that ticked, though it sweeps
\* with the default threshold, drops nothing more from a table in RAM
\* (api.py:108-109: "a lower threshold so core observations persist longer").
OwnThresholdDecides ==
  [][~raced => \A t \in Serving, a \in DOMAIN tables :
       Answered(t, a) /\ query[t].ticked => DOMAIN tables'[a].store = DOMAIN tables[a].store]_timeVars

\* interface.py:117: "if hit is present, it is guaranteed live and valid".
\* It is, by the threshold of its own adapter, as long as no two requests
\* overlap: whatever ticks, writes, evictions and restarts came before, and
\* whichever threshold the sweep had that last cleared the flag.
FindsNothingStale ==
  [][~raced => \A t \in Serving, a \in DOMAIN tables' :
       Answered(t, a) => Stale(tables'[a].store, ThresholdOf(a)) = {}]_timeVars

\* api.py:67-68: the tick "keeps salience drifting in real time".  A memory
\* then ages no faster than the time it has been in RAM.
AgesInRealTime ==
  \A a \in Adapters : \A k \in DOMAIN since[a] : Gain(a, k) * Interval <= clock - since[a][k].time
=============================================================================
