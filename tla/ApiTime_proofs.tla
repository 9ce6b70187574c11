---------------------------- MODULE ApiTime_proofs -----------------------------
(***************************************************************************)
(* Proofs about ApiTime, for every number of threads, adapters, keys and   *)
(* slots, every length of a tick's interval, every decay policy and every  *)
(* choice of disk faults.                                                  *)
(***************************************************************************)
EXTENDS ApiTime, EngRamManager_proofs

----------------------------------------------------------------------------
(* The inductive invariant, in parts. *)

\* The clock never runs behind the last tick; a query has looked at it
\* before, and works on its list at most twice.
ClockOK ==
  /\ clock \in Nat /\ idle \in Nat /\ idle <= clock
  /\ query \in [Threads -> Queries \cup {Free}]
  /\ \A t \in Serving : /\ query[t].at # "handle" => query[t].now <= clock
                        /\ query[t].at = "tick" => query[t].calls <= 2 * Len(query[t].names)

InRam(a) == IF a \in DOMAIN tables THEN DOMAIN tables[a].store ELSE {}

\* The history tells of what is in RAM, and nothing in RAM grows younger.
SinceOK ==
  /\ since \in [Adapters -> {since[a] : a \in Adapters}]
  /\ \A a \in Adapters : DOMAIN since[a] = InRam(a)
  /\ \A a \in Adapters : \A k \in InRam(a) :
       since[a][k].time \in 0..clock /\ since[a][k].age \in Int /\ Gain(a, k) >= 0

\* What stays in RAM has aged by half of the time up to the last tick.
HalfKept ==
  \A a \in Adapters : \A k \in DOMAIN since[a] :
    2 * Gain(a, k) * Interval >= LastTick - since[a][k].time

\* The adapters a query has ticked so far.
Ticked(q) == {q.names[i] : i \in {j \in 1..Len(q.names) : j <= q.calls}}

\* The steps a query has still to apply to an adapter of its list.
Due(q, a) == IF a \in Ticked(q) THEN 0 ELSE q.steps

\* For each query that ticks: what was in RAM before it looked at the clock
\* is on its list, and with the steps that are due has aged by half of the
\* time up to then.
HalfCounted ==
  \A t \in Serving : query[t].at = "tick" =>
    \A a \in Adapters : \A k \in InRam(a) : since[a][k].time < query[t].now =>
      /\ a \in ToSet(query[t].names)
      /\ 2 * ((Gain(a, k) + Due(query[t], a)) * Interval) >= query[t].now - since[a][k].time

\* The memories of an adapter, in RAM and on disk, are younger than the
\* time given.
Younger(contents, time) == \A k \in DOMAIN contents : contents[k].age * Interval <= time
Within(st, a, time) == Younger(View(st, a), time) /\ Younger(st.disk[a], time)

\* As long as queries do not overlap: ages stay behind the last tick, but
\* for the steps of the tick that runs, and these behind its clock.
Counted ==
  /\ \A t, u \in Serving : t = u
  /\ \A a \in Adapters :
       (\A t \in Serving : query[t].at = "tick" => a \notin Ticked(query[t]))
         => Within(St, a, LastTick)
  /\ \A t \in Serving : query[t].at = "tick" =>
       /\ LastTick + query[t].steps * Interval <= query[t].now
       /\ \A a \in Adapters : Within(St, a, LastTick + query[t].steps * Interval)

\* The position in a list that a call of the loops is about.
Turn(names, calls) == (calls % Len(names)) + 1

\* As long as queries do not overlap: the tables in RAM are those listed,
\* each call moves the foremost to the end, and what was swept is clear.
InTurn ==
  \A t \in Serving :
    /\ query[t].at = "tick" =>
         /\ Lists(query[t].names, DOMAIN tables)
         /\ \A i \in 1..Len(order) : order[i] = query[t].names[Turn(query[t].names, query[t].calls + i - 1)]
         /\ \A i \in 1..Len(query[t].names) :
              i <= query[t].calls - Len(query[t].names) => ~tables[query[t].names[i]].needsEviction
    /\ query[t].at = "handle" /\ query[t].ticked => \A a \in DOMAIN tables : ~tables[a].needsEviction

\* What holds as long as no two requests have overlapped.
Undisturbed == HalfKept /\ HalfCounted /\ Counted /\ InTurn

TimeInv ==
  /\ SoundSt(St) /\ ClockOK /\ SinceOK
  /\ ~raced => Undisturbed

----------------------------------------------------------------------------
(* What the manager's methods do to ages. *)

\* A row has the age of the payload it was made from, and the rows of a
\* save are those of the table or were there before.
LEMMA SavedYounger ==
  ASSUME NEW old, IsContents(old), NEW contents, IsContents(contents), NEW time,
         Younger(old, time), Younger(contents, time)
  PROVE  Younger(Upserted(old, Rows(contents)), time)
<1>1. \A p \in Payload : Row(p).age = p.age
  BY DEF Row, Payload
<1>2. \A k \in DOMAIN contents : Rows(contents)[k].age = contents[k].age
  BY <1>1 DEF Rows, IsContents
<1>3. DOMAIN Rows(contents) = DOMAIN contents
  BY DEF Rows
<1> QED
  BY <1>2, <1>3 DEF Younger, Upserted

\* Whether its table is kept, saved or lost, an adapter's memories get no
\* older.
LEMMA StaysWithin ==
  ASSUME NEW st, SoundSt(st), NEW t, NEW a \in Adapters,
         Kept(st, t, a) \/ Saved(st, t, a) \/ Lost(st, t, a),
         NEW time, Within(st, a, time)
  PROVE  Within(t, a, time)
<1>1. IsContents(View(st, a)) /\ IsContents(st.disk[a])
  BY DEF SoundSt, View, IsTable
<1>2. Younger(Upserted(st.disk[a], Rows(View(st, a))), time)
  BY <1>1, SavedYounger DEF Within
<1> QED
  BY <1>2 DEF Within, Kept, Saved, Lost

\* mount makes no memory older, returned or raised.
LEMMA MountStaysWithin ==
  ASSUME NEW st, SoundSt(st), NEW a \in Adapters, NEW m \in Mount(st, a),
         NEW b \in Adapters, NEW time, Within(st, b, time)
  PROVE  Within(m.st, b, time)
<1>1. Kept(st, m.st, b) \/ Saved(st, m.st, b) \/ Lost(st, m.st, b)
  BY MountEffect DEF Failed, KeptOrSaved
<1> QED
  BY <1>1, StaysWithin

\* From st to t the memories of a have aged by n at the most, the others not
\* at all, and none has grown younger; what is in RAM in both has been there
\* all the time.
MayAge(st, t, a, n) ==
  /\ SoundSt(t)
  /\ \A b \in Adapters : \A time \in Int : Within(st, b, time) =>
       Within(t, b, IF b = a THEN time + n * Interval ELSE time)
  /\ \A b \in DOMAIN st.tables \cap DOMAIN t.tables : \A k \in DOMAIN t.tables[b].store :
       /\ k \in DOMAIN st.tables[b].store
       /\ t.tables[b].store[k].age >= st.tables[b].store[k].age

\* And those of a that are in RAM in both have aged by n, neither more nor less.
Aged(st, t, a, n) ==
  /\ MayAge(st, t, a, n)
  /\ \A b \in DOMAIN st.tables \cap DOMAIN t.tables : \A k \in DOMAIN t.tables[b].store :
       t.tables[b].store[k].age = st.tables[b].store[k].age + IF b = a THEN n ELSE 0

\* A bound on ages may be raised.
LEMMA WithinMore ==
  ASSUME NEW st, SoundSt(st), NEW a \in Adapters, NEW x \in Int, NEW y \in Int, x <= y,
         Within(st, a, x)
  PROVE  Within(st, a, y)
<1>1. IsContents(View(st, a)) /\ IsContents(st.disk[a])
  BY DEF SoundSt, View, IsTable
<1>2. \A c : IsContents(c) => \A k \in DOMAIN c : c[k].age * Interval \in Int
  BY IntervalAssumption DEF IsContents, Payload
<1> QED
  BY <1>1, <1>2 DEF Within, Younger

\* A mount that raises was of an adapter that is not in RAM, and is not now.
LEMMA RaiseAged ==
  ASSUME NEW st, SoundSt(st), NEW a \in Adapters, NEW m \in Mount(st, a), ~m.ok, NEW n \in Nat
  PROVE  Aged(st, m.st, a, n)
<1>1. a \notin DOMAIN st.tables
  BY DEF Mount, Returns
<1>2. SoundSt(m.st) /\ Carried(st, m.st, a)
  BY MountEffect
<1>3. ASSUME NEW b \in Adapters, NEW time \in Int, Within(st, b, time)
      PROVE  Within(m.st, b, IF b = a THEN time + n * Interval ELSE time)
  <2>1. Within(m.st, b, time)
    BY <1>3, MountStaysWithin
  <2>2. n * Interval \in Nat
    BY IntervalAssumption
  <2> QED
    BY <1>2, <2>1, <2>2, WithinMore
<1>4. \A b \in DOMAIN st.tables \cap DOMAIN m.st.tables :
        b # a /\ m.st.tables[b] = st.tables[b]
  BY <1>1, <1>2 DEF Carried
<1>5. \A b \in DOMAIN st.tables : \A k \in DOMAIN st.tables[b].store :
        st.tables[b].store[k].age \in Int
  BY DEF SoundSt, IsTable, IsContents, Payload
<1> QED
  BY <1>2, <1>3, <1>4, <1>5 DEF MayAge, Aged

\* A mount that returns, and a change of the table that drops memories or
\* makes them older by up to n.
LEMMA ChangeMayAge ==
  ASSUME NEW st, SoundSt(st), NEW a \in Adapters, NEW m \in Mount(st, a), m.ok, NEW n \in Nat,
         NEW table, IsTable(table),
         \A k \in DOMAIN table.store : /\ k \in DOMAIN m.st.tables[a].store
                                       /\ table.store[k].age >= m.st.tables[a].store[k].age
                                       /\ table.store[k].age <= m.st.tables[a].store[k].age + n,
         NEW t, t = [m.st EXCEPT !.tables[a] = table]
  PROVE  /\ MayAge(st, t, a, n)
         /\ DOMAIN t.tables = DOMAIN m.st.tables
         /\ \A b \in DOMAIN t.tables : t.tables[b] = IF b = a THEN table ELSE m.st.tables[b]
<1>1. SoundSt(m.st) /\ a \in DOMAIN m.st.tables /\ Carried(st, m.st, a)
  BY MountEffect
<1>2. /\ SoundSt(t) /\ View(t, a) = table.store
      /\ \A b \in Adapters : t.disk[b] = m.st.disk[b]
      /\ \A b \in Adapters \ {a} : Kept(m.st, t, b)
  BY <1>1, ChangeTable
<1>3. ASSUME NEW b \in Adapters, NEW time \in Int, Within(st, b, time)
      PROVE  Within(t, b, IF b = a THEN time + n * Interval ELSE time)
  <2>1. Within(m.st, b, time)
    BY <1>3, MountStaysWithin
  <2>2. CASE b # a
    BY <1>2, <2>1, <2>2 DEF Within, Kept
  <2>3. CASE b = a
    <3>1. \A k \in DOMAIN m.st.tables[a].store : m.st.tables[a].store[k].age \in Int
      BY <1>1 DEF SoundSt, IsTable, IsContents, Payload
    <3>2. \A x, y \in Int : x * Interval <= time /\ y <= x + n => y * Interval <= time + n * Interval
      BY IntervalAssumption
    <3>3. Younger(m.st.tables[a].store, time)
      BY <1>1, <2>1, <2>3 DEF Within, View
    <3>4. Younger(table.store, time + n * Interval)
      <4>1. \A k \in DOMAIN table.store : table.store[k].age \in Int
        BY DEF IsTable, IsContents, Payload
      <4> QED
        BY <3>1, <3>2, <3>3, <4>1 DEF Younger
    <3>5. Within(m.st, a, time + n * Interval)
      <4>1. n * Interval \in Nat
        BY IntervalAssumption
      <4> QED
        BY <1>1, <2>1, <2>3, <4>1, WithinMore
    <3> QED
      BY <1>2, <2>3, <3>4, <3>5 DEF Within
  <2> QED
    BY <2>2, <2>3
<1>4. /\ DOMAIN t.tables = DOMAIN m.st.tables
      /\ \A b \in DOMAIN t.tables : t.tables[b] = IF b = a THEN table ELSE m.st.tables[b]
  BY <1>1 DEF SoundSt
<1>5. \A b \in DOMAIN st.tables \cap DOMAIN m.st.tables : m.st.tables[b] = st.tables[b]
  BY <1>1 DEF Carried
<1>6. \A b \in DOMAIN st.tables : \A k \in DOMAIN st.tables[b].store :
        st.tables[b].store[k].age \in Int
  BY DEF SoundSt, IsTable, IsContents, Payload
<1>7. ASSUME NEW b \in DOMAIN st.tables \cap DOMAIN t.tables, NEW k \in DOMAIN t.tables[b].store
      PROVE  /\ k \in DOMAIN st.tables[b].store
             /\ t.tables[b].store[k].age >= st.tables[b].store[k].age
  <2>1. CASE b = a
    BY <1>1, <1>4, <1>5, <2>1
  <2>2. CASE b # a
    BY <1>4, <1>5, <1>6, <2>2
  <2> QED
    BY <2>1, <2>2
<1> QED
  BY <1>2, <1>3, <1>4, <1>7 DEF MayAge

\* If the change makes each memory it keeps older by n, so has the call.
LEMMA ChangeAged ==
  ASSUME NEW st, SoundSt(st), NEW a \in Adapters, NEW m \in Mount(st, a), m.ok, NEW n \in Nat,
         NEW table, IsTable(table),
         \A k \in DOMAIN table.store : /\ k \in DOMAIN m.st.tables[a].store
                                       /\ table.store[k].age = m.st.tables[a].store[k].age + n,
         NEW t, t = [m.st EXCEPT !.tables[a] = table]
  PROVE  Aged(st, t, a, n)
<1>1. SoundSt(m.st) /\ a \in DOMAIN m.st.tables /\ Carried(st, m.st, a)
  BY MountEffect
<1>2. \A k \in DOMAIN m.st.tables[a].store : m.st.tables[a].store[k].age \in Int
  BY <1>1 DEF SoundSt, IsTable, IsContents, Payload
<1>3. \A k \in DOMAIN table.store : /\ table.store[k].age >= m.st.tables[a].store[k].age
                                    /\ table.store[k].age <= m.st.tables[a].store[k].age + n
  BY <1>2
<1>4. /\ MayAge(st, t, a, n)
      /\ DOMAIN t.tables = DOMAIN m.st.tables
      /\ \A b \in DOMAIN t.tables : t.tables[b] = IF b = a THEN table ELSE m.st.tables[b]
  BY <1>3, ChangeMayAge
<1>5. \A b \in DOMAIN st.tables \cap DOMAIN m.st.tables : m.st.tables[b] = st.tables[b]
  BY <1>1 DEF Carried
<1>6. \A b \in DOMAIN st.tables : \A k \in DOMAIN st.tables[b].store :
        st.tables[b].store[k].age \in Int
  BY DEF SoundSt, IsTable, IsContents, Payload
<1>7. ASSUME NEW b \in DOMAIN st.tables \cap DOMAIN t.tables, NEW k \in DOMAIN t.tables[b].store
      PROVE  t.tables[b].store[k].age = st.tables[b].store[k].age + IF b = a THEN n ELSE 0
  <2>1. CASE b = a
    BY <1>1, <1>4, <1>5, <2>1
  <2>2. CASE b # a
    <3>1. t.tables[b] = st.tables[b]
      BY <1>4, <1>5, <2>2
    <3> QED
      BY <1>6, <2>2, <3>1
  <2> QED
    BY <2>1, <2>2
<1> QED
  BY <1>4, <1>7 DEF Aged

\* A state with one table ticked, or swept, and the outcomes of a call that
\* mounts the table and does so.
TickedIn(st, a, steps) == [st EXCEPT !.tables[a] = Tick(@, steps)]
SweptIn(st, a, threshold) == [st EXCEPT !.tables[a] = EvictStale(@, threshold)]
Ticks(st, a, steps) == Mounted(st, a, LAMBDA table : Tick(table, steps))
Sweeps(st, a, threshold) == Mounted(st, a, LAMBDA table : EvictStale(table, threshold))

\* Either the table was mounted and ticked, or the mount raised.
LEMMA TickOutcome ==
  ASSUME NEW st, NEW a, NEW steps, NEW o \in Ticks(st, a, steps)
  PROVE  \E m \in Mount(st, a) : o.st = IF m.ok THEN TickedIn(m.st, a, steps) ELSE m.st
<1>1. \/ o \in Mount(st, a) /\ ~o.ok
      \/ \E m \in Mount(st, a) : m.ok /\ o = Returns(TickedIn(m.st, a, steps))
  BY DEF Ticks, Mounted, AndThen, InTable, TickedIn
<1>2. \A s : Returns(s).st = s
  BY DEF Returns
<1> QED
  BY <1>1, <1>2

\* Either the table was mounted and swept, or the mount raised.
LEMMA SweepOutcome ==
  ASSUME NEW st, NEW a, NEW threshold, NEW o \in Sweeps(st, a, threshold)
  PROVE  \E m \in Mount(st, a) : o.st = IF m.ok THEN SweptIn(m.st, a, threshold) ELSE m.st
<1>1. \/ o \in Mount(st, a) /\ ~o.ok
      \/ \E m \in Mount(st, a) : m.ok /\ o = Returns(SweptIn(m.st, a, threshold))
  BY DEF Sweeps, Mounted, AndThen, InTable, SweptIn
<1>2. \A s : Returns(s).st = s
  BY DEF Returns
<1> QED
  BY <1>1, <1>2

\* A query leaves what its sweep left, whether its response validates or not.
LEMMA TriggerOutcome ==
  ASSUME NEW st, NEW a, NEW hash, NEW o \in HandleTrigger(st, a, hash)
  PROVE  \E m \in Mount(st, a) : o.st = IF m.ok THEN SweptIn(m.st, a, EvictionThreshold) ELSE m.st
<1>1. \A s, memories, hit : \A x \in Respond(s, memories, hit) : x.st = s
  BY DEF Respond, Answers, Raises
<1>2. \E swept \in Swept(st, a) : o.st = swept.st
  <2>1. \/ o \in Swept(st, a)
        \/ \E swept \in Swept(st, a) : \E memories, hit : o \in Respond(swept.st, memories, hit)
    BY DEF HandleTrigger, AndThen
  <2> QED
    BY <1>1, <2>1
<1>3. PICK swept \in Sweeps(st, a, EvictionThreshold) : o.st = swept.st
  BY <1>2 DEF Swept, Sweeps
<1> QED
  BY <1>3, SweepOutcome

\* A table that is ticked keeps its keys, each older by the steps.
LEMMA TickAges ==
  ASSUME NEW table, IsTable(table), NEW steps \in Nat
  PROVE  \A k \in DOMAIN Tick(table, steps).store :
           /\ k \in DOMAIN table.store
           /\ Tick(table, steps).store[k].age = table.store[k].age + steps
<1>1. \A k \in DOMAIN table.store : table.store[k] \in Payload
  BY DEF IsTable, IsContents
<1>2. \A p \in Payload : p.age \in Int /\ [p EXCEPT !.age = @ + steps].age = p.age + steps
  BY DEF Payload
<1> QED
  BY <1>1, <1>2 DEF Tick

\* A table that is swept keeps some of its keys, none older.
LEMMA EvictAges ==
  ASSUME NEW table, IsTable(table), NEW threshold
  PROVE  \A k \in DOMAIN EvictStale(table, threshold).store :
           /\ k \in DOMAIN table.store
           /\ EvictStale(table, threshold).store[k].age = table.store[k].age + 0
<1>1. \A k \in DOMAIN table.store : table.store[k].age \in Int
  BY DEF IsTable, IsContents, Payload
<1>2. DOMAIN Without(table.store, Stale(table.store, threshold)) \subseteq DOMAIN table.store
  BY DEF Without, Restrict
<1> QED
  BY <1>1, <1>2 DEF EvictStale, Without, Restrict

\* An outcome of a call that ticks a table.
LEMMA TickedAged ==
  ASSUME NEW st, SoundSt(st), NEW a \in Adapters, NEW steps \in Nat,
         NEW o \in Ticks(st, a, steps)
  PROVE  Aged(st, o.st, a, steps)
<1>1. PICK m \in Mount(st, a) : o.st = IF m.ok THEN TickedIn(m.st, a, steps) ELSE m.st
  BY TickOutcome
<1>2. CASE m.ok
  <2> DEFINE table == Tick(m.st.tables[a], steps)
  <2>1. IsTable(m.st.tables[a])
    BY <1>2, MountEffect DEF SoundSt
  <2>2. o.st = [m.st EXCEPT !.tables[a] = table]
    BY <1>1, <1>2 DEF TickedIn
  <2>3. /\ IsTable(table)
        /\ \A k \in DOMAIN table.store : /\ k \in DOMAIN m.st.tables[a].store
                                         /\ table.store[k].age = m.st.tables[a].store[k].age + steps
    BY <2>1, TickIsTable, TickAges
  <2> HIDE DEF table
  <2> QED
    BY <1>2, <2>2, <2>3, ChangeAged
<1>3. CASE ~m.ok
  BY <1>1, <1>3, RaiseAged
<1> QED
  BY <1>2, <1>3

\* A mount followed by a sweep.
LEMMA SweptAged ==
  ASSUME NEW st, SoundSt(st), NEW a \in Adapters, NEW threshold, NEW m \in Mount(st, a),
         NEW t, t = IF m.ok THEN SweptIn(m.st, a, threshold) ELSE m.st
  PROVE  Aged(st, t, a, 0)
<1>1. CASE m.ok
  <2> DEFINE table == EvictStale(m.st.tables[a], threshold)
  <2>1. IsTable(m.st.tables[a])
    BY <1>1, MountEffect DEF SoundSt
  <2>2. t = [m.st EXCEPT !.tables[a] = table]
    BY <1>1 DEF SweptIn
  <2>3. /\ IsTable(table)
        /\ \A k \in DOMAIN table.store : /\ k \in DOMAIN m.st.tables[a].store
                                         /\ table.store[k].age = m.st.tables[a].store[k].age + 0
    BY <2>1, EvictIsTable, EvictAges
  <2> HIDE DEF table
  <2> QED
    BY <1>1, <2>2, <2>3, ChangeAged
<1>2. CASE ~m.ok
  BY <1>2, RaiseAged
<1> QED
  BY <1>1, <1>2

----------------------------------------------------------------------------
(* Calls that other threads disturb. *)

CutTicked(st, a, steps) == Disturbed(st, a, LAMBDA table : CutTicks(table, steps))
CutSwept(st, a) == Disturbed(st, a, CutSweeps)

\* A tick that is cut short has not happened, or mounted the table and left
\* something of it.
LEMMA CutTickOutcome ==
  ASSUME NEW st, NEW a, NEW steps, NEW o \in CutTicked(st, a, steps)
  PROVE  /\ raced
         /\ \/ o.st = st
            \/ \E m \in Mount(st, a) :
                 \/ ~m.ok /\ o.st = m.st
                 \/ m.ok /\ \E table \in CutTicks(m.st.tables[a], steps) :
                      o.st = [m.st EXCEPT !.tables[a] = table]
<1>1. /\ raced
      /\ \/ o = Raises(st)
         \/ o \in Mount(st, a) /\ ~o.ok
         \/ \E m \in Mount(st, a) : m.ok /\ \E table \in CutTicks(m.st.tables[a], steps) :
              o = Returns([m.st EXCEPT !.tables[a] = table])
  BY DEF CutTicked, Disturbed, AndThen
<1>2. \A s : Returns(s).st = s /\ Raises(s).st = s
  BY DEF Returns, Raises
<1> QED
  BY <1>1, <1>2

\* So has a sweep.
LEMMA CutSweepOutcome ==
  ASSUME NEW st, NEW a, NEW o \in CutSwept(st, a)
  PROVE  /\ raced
         /\ \/ o.st = st
            \/ \E m \in Mount(st, a) :
                 \/ ~m.ok /\ o.st = m.st
                 \/ m.ok /\ \E table \in CutSweeps(m.st.tables[a]) :
                      o.st = [m.st EXCEPT !.tables[a] = table]
<1>1. /\ raced
      /\ \/ o = Raises(st)
         \/ o \in Mount(st, a) /\ ~o.ok
         \/ \E m \in Mount(st, a) : m.ok /\ \E table \in CutSweeps(m.st.tables[a]) :
              o = Returns([m.st EXCEPT !.tables[a] = table])
  BY DEF CutSwept, Disturbed, AndThen
<1>2. \A s : Returns(s).st = s /\ Raises(s).st = s
  BY DEF Returns, Raises
<1> QED
  BY <1>1, <1>2

\* Some memories of the table have aged by the steps, the others not.
LEMMA CutTickAges ==
  ASSUME NEW table, IsTable(table), NEW steps \in Nat, NEW new \in CutTicks(table, steps)
  PROVE  /\ IsTable(new)
         /\ \A k \in DOMAIN new.store : /\ k \in DOMAIN table.store
                                         /\ new.store[k].age >= table.store[k].age
                                         /\ new.store[k].age <= table.store[k].age + steps
<1>1. PICK aged \in SUBSET DOMAIN table.store, flag \in {table.needsEviction, TRUE} :
        new = [store |-> Older(table.store, aged, steps), needsEviction |-> flag]
  BY DEF CutTicks
<1>2. IsContents(table.store) /\ flag \in BOOLEAN
  BY DEF IsTable
<1>3. ASSUME NEW p \in Payload, NEW n \in Nat
      PROVE  [p EXCEPT !.age = @ + n] \in Payload /\ [p EXCEPT !.age = @ + n].age = p.age + n /\ p.age \in Int
  BY DEF Payload
<1> DEFINE grown == Older(table.store, aged, steps)
<1>4. ASSUME NEW k \in DOMAIN table.store
      PROVE  /\ grown[k] \in Payload
             /\ grown[k].age >= table.store[k].age /\ grown[k].age <= table.store[k].age + steps
  <2>1. table.store[k] \in Payload
    BY <1>2 DEF IsContents
  <2>2. PICK n \in Nat : n = (IF k \in aged THEN steps ELSE 0)
    OBVIOUS
  <2>3. grown[k] = [table.store[k] EXCEPT !.age = @ + n]
    BY <2>2 DEF Older
  <2> HIDE DEF grown
  <2> QED
    BY <1>3, <2>1, <2>2, <2>3
<1>5. DOMAIN grown = DOMAIN table.store /\ grown \in [DOMAIN grown -> Payload]
  BY <1>4 DEF Older
<1>6. new = [store |-> grown, needsEviction |-> flag]
  BY <1>1
<1> HIDE DEF grown
<1>7. IsContents(grown)
  BY <1>2, <1>5 DEF IsContents
<1> QED
  BY <1>2, <1>4, <1>5, <1>6, <1>7 DEF IsTable

\* Some memories of the table are gone, and none is older.
LEMMA CutSweepAges ==
  ASSUME NEW table, IsTable(table), NEW new \in CutSweeps(table)
  PROVE  /\ IsTable(new)
         /\ \A k \in DOMAIN new.store : /\ k \in DOMAIN table.store
                                         /\ new.store[k].age >= table.store[k].age
                                         /\ new.store[k].age <= table.store[k].age + 0
<1>1. PICK dropped \in SUBSET DOMAIN table.store, flag \in {table.needsEviction, FALSE} :
        new = [store |-> Without(table.store, dropped), needsEviction |-> flag]
  BY DEF CutSweeps
<1>2. IsContents(table.store) /\ flag \in BOOLEAN
  BY DEF IsTable
<1>3. \A k \in DOMAIN table.store : table.store[k].age \in Int
  BY <1>2 DEF IsContents, Payload
<1>4. IsContents(Without(table.store, dropped))
  BY <1>2 DEF IsContents, Without, Restrict
<1>5. \A k \in DOMAIN Without(table.store, dropped) :
        k \in DOMAIN table.store /\ Without(table.store, dropped)[k] = table.store[k]
  BY DEF Without, Restrict
<1> QED
  BY <1>1, <1>2, <1>3, <1>4, <1>5 DEF IsTable

\* A call that did nothing.
LEMMA NothingMayAge ==
  ASSUME NEW st, SoundSt(st), NEW a \in Adapters, NEW n \in Nat
  PROVE  MayAge(st, st, a, n)
<1>1. n * Interval \in Nat
  BY IntervalAssumption
<1>2. ASSUME NEW b \in Adapters, NEW time \in Int, Within(st, b, time)
      PROVE  Within(st, b, IF b = a THEN time + n * Interval ELSE time)
  BY <1>1, <1>2, WithinMore
<1>3. \A b \in DOMAIN st.tables : \A k \in DOMAIN st.tables[b].store :
        st.tables[b].store[k].age \in Int
  BY DEF SoundSt, IsTable, IsContents, Payload
<1> QED
  BY <1>2, <1>3 DEF MayAge

\* What a disturbed tick does to ages.
LEMMA CutTickMayAge ==
  ASSUME NEW st, SoundSt(st), NEW a \in Adapters, NEW steps \in Nat, NEW o \in CutTicked(st, a, steps)
  PROVE  MayAge(st, o.st, a, steps)
<1>1. \/ o.st = st
      \/ \E m \in Mount(st, a) :
           \/ ~m.ok /\ o.st = m.st
           \/ m.ok /\ \E table \in CutTicks(m.st.tables[a], steps) :
                o.st = [m.st EXCEPT !.tables[a] = table]
  BY CutTickOutcome
<1>2. CASE o.st = st
  BY <1>2, NothingMayAge
<1>3. ASSUME NEW m \in Mount(st, a), ~m.ok, o.st = m.st PROVE MayAge(st, o.st, a, steps)
  BY <1>3, RaiseAged DEF Aged
<1>4. ASSUME NEW m \in Mount(st, a), m.ok, NEW table \in CutTicks(m.st.tables[a], steps),
             o.st = [m.st EXCEPT !.tables[a] = table]
      PROVE  MayAge(st, o.st, a, steps)
  <2>1. IsTable(m.st.tables[a])
    BY <1>4, MountEffect DEF SoundSt
  <2> QED
    BY <1>4, <2>1, CutTickAges, ChangeMayAge
<1> QED
  BY <1>1, <1>2, <1>3, <1>4

\* What a disturbed sweep does to ages: nothing.
LEMMA CutSweepMayAge ==
  ASSUME NEW st, SoundSt(st), NEW a \in Adapters, NEW o \in CutSwept(st, a)
  PROVE  MayAge(st, o.st, a, 0)
<1>1. \/ o.st = st
      \/ \E m \in Mount(st, a) :
           \/ ~m.ok /\ o.st = m.st
           \/ m.ok /\ \E table \in CutSweeps(m.st.tables[a]) :
                o.st = [m.st EXCEPT !.tables[a] = table]
  BY CutSweepOutcome
<1>2. CASE o.st = st
  BY <1>2, NothingMayAge
<1>3. ASSUME NEW m \in Mount(st, a), ~m.ok, o.st = m.st PROVE MayAge(st, o.st, a, 0)
  BY <1>3, RaiseAged DEF Aged
<1>4. ASSUME NEW m \in Mount(st, a), m.ok, NEW table \in CutSweeps(m.st.tables[a]),
             o.st = [m.st EXCEPT !.tables[a] = table]
      PROVE  MayAge(st, o.st, a, 0)
  <2>1. IsTable(m.st.tables[a])
    BY <1>4, MountEffect DEF SoundSt
  <2> QED
    BY <1>4, <2>1, CutSweepAges, ChangeMayAge
<1> QED
  BY <1>1, <1>2, <1>3, <1>4

----------------------------------------------------------------------------
(* The steps of a query. *)

\* A query has visited an adapter of its list in this step, the state is st
\* now, and the memories of the adapter are older by n, or by less if other
\* threads disturbed it.
Visited(t, st, n) ==
  LET q == query[t]
  IN  /\ t \in Serving /\ q.at = "tick" /\ q.calls < 2 * Len(q.names)
      /\ n = IF q.calls < Len(q.names) THEN q.steps ELSE 0
      /\ Named(q) \in Adapters
      /\ MayAge(St, st, Named(q), n)
      /\ ~raced => Aged(St, st, Named(q), n)
      /\ Commit(st) /\ query' = [query EXCEPT ![t] = [q EXCEPT !.calls = @ + 1]]

\* The position that a call of the loops is about is one of the list.
LEMMA NamedIsListed ==
  ASSUME NEW names \in Seq(Adapters), NEW calls \in Nat, calls < 2 * Len(names)
  PROVE  /\ Len(names) \in Nat \ {0}
         /\ Turn(names, calls) \in 1..Len(names)
         /\ names[Turn(names, calls)] \in Adapters
         /\ Turn(names, calls) = IF calls < Len(names) THEN calls + 1 ELSE calls + 1 - Len(names)
<1> DEFINE n == Len(names)
<1>1. n \in Nat \ {0}
  BY LenProperties
<1>2. \A i \in 1..n : names[i] \in Adapters
  BY ElementOfSeq
<1> HIDE DEF n
<1>3. calls < n => calls % n = calls
  BY <1>1
<1>4. calls >= n /\ calls < 2 * n => calls % n = calls - n
  BY <1>1
<1>5. calls < 2 * n
  BY DEF n
<1>6. calls % n = IF calls < n THEN calls ELSE calls - n
  BY <1>1, <1>3, <1>4, <1>5
<1>7. Turn(names, calls) = (calls % n) + 1
  BY DEF Turn, n
<1>8. Turn(names, calls) \in 1..n
  BY <1>1, <1>5, <1>6, <1>7
<1> QED
  BY <1>1, <1>2, <1>5, <1>6, <1>7, <1>8 DEF n

\* A call of the loops visits.
LEMMA VisitVisits ==
  ASSUME TimeInv, NEW t \in Threads, Visit(t)
  PROVE  \E st, n : Visited(t, st, n)
<1> DEFINE q == query[t]
           a == Named(q)
<1>1. /\ t \in Serving /\ q \in TickQuery /\ q.calls < 2 * Len(q.names)
      /\ query' = [query EXCEPT ![t] = [q EXCEPT !.calls = @ + 1]]
  BY DEF Visit, Serving, TimeInv, ClockOK, Queries, TickQuery, Goto
<1>2. a \in Adapters
  BY <1>1, NamedIsListed DEF TickQuery, Named, Turn
<1>3. CASE q.calls < Len(q.names)
  <2>1. PICK o \in Ticks(St, a, q.steps) \cup CutTicked(St, a, q.steps) : Commit(o.st)
    BY <1>3 DEF Visit, Ticks, CutTicked
  <2>2. q.steps \in Nat
    BY <1>1 DEF TickQuery
  <2>3. MayAge(St, o.st, a, q.steps) /\ (~raced => Aged(St, o.st, a, q.steps))
    <3>1. o \in Ticks(St, a, q.steps) => Aged(St, o.st, a, q.steps)
      BY <1>2, <2>2, TickedAged DEF TimeInv
    <3>2. o \in CutTicked(St, a, q.steps) => raced /\ MayAge(St, o.st, a, q.steps)
      BY <1>2, <2>2, CutTickOutcome, CutTickMayAge DEF TimeInv
    <3> QED
      BY <2>1, <3>1, <3>2 DEF Aged
  <2> QED
    BY <1>1, <1>2, <1>3, <2>1, <2>3 DEF Visited, TickQuery
<1>4. CASE ~(q.calls < Len(q.names))
  <2>1. PICK o \in Sweeps(St, a, ThresholdOf(a)) \cup CutSwept(St, a) : Commit(o.st)
    BY <1>4 DEF Visit, Sweeps, CutSwept
  <2>2. o \in Sweeps(St, a, ThresholdOf(a)) => Aged(St, o.st, a, 0)
    <3>1. ASSUME o \in Sweeps(St, a, ThresholdOf(a))
          PROVE  \E m \in Mount(St, a) : o.st = IF m.ok THEN SweptIn(m.st, a, ThresholdOf(a)) ELSE m.st
      BY <3>1, SweepOutcome
    <3> QED
      BY <1>2, <3>1, SweptAged DEF TimeInv
  <2>3. MayAge(St, o.st, a, 0) /\ (~raced => Aged(St, o.st, a, 0))
    <3>1. o \in CutSwept(St, a) => raced /\ MayAge(St, o.st, a, 0)
      BY <1>2, CutSweepOutcome, CutSweepMayAge DEF TimeInv
    <3> QED
      BY <2>1, <2>2, <3>1 DEF Aged
  <2> QED
    BY <1>1, <1>2, <1>4, <2>1, <2>3 DEF Visited, TickQuery
<1> QED
  BY <1>3, <1>4

----------------------------------------------------------------------------
(* The history. *)

\* Halves of the time counted, compared.
LEMMA Halves ==
  \A g, h \in Int : /\ 2 * g * Interval = 2 * (g * Interval)
                    /\ g <= h => 2 * (g * Interval) <= 2 * (h * Interval)
                    /\ g >= 0 => 2 * (g * Interval) >= 0
BY IntervalAssumption

\* A memory in RAM has an age, and has gained by a whole number of steps.
LEMMA GainIsInt ==
  ASSUME SoundSt(St), SinceOK
  PROVE  \A a \in Adapters : \A k \in InRam(a) :
           /\ a \in DOMAIN tables /\ k \in DOMAIN tables[a].store
           /\ AgeOf(a, k) = tables[a].store[k].age /\ AgeOf(a, k) \in Int
           /\ Gain(a, k) = AgeOf(a, k) - since[a][k].age /\ Gain(a, k) \in Nat
<1> SUFFICES ASSUME NEW a \in Adapters, NEW k \in InRam(a)
             PROVE  /\ a \in DOMAIN tables /\ k \in DOMAIN tables[a].store
                    /\ AgeOf(a, k) = tables[a].store[k].age /\ AgeOf(a, k) \in Int
                    /\ Gain(a, k) = AgeOf(a, k) - since[a][k].age /\ Gain(a, k) \in Nat
  OBVIOUS
<1>1. a \in DOMAIN tables /\ k \in DOMAIN tables[a].store
  BY DEF InRam
<1>2. AgeOf(a, k) = tables[a].store[k].age /\ tables[a].store[k] \in Payload
  BY <1>1 DEF AgeOf, Memories, SoundSt, St, IsTable, IsContents
<1>3. AgeOf(a, k) \in Int
  BY <1>2 DEF Payload
<1>4. Gain(a, k) = AgeOf(a, k) - since[a][k].age
  BY DEF Gain
<1>5. since[a][k].age \in Int /\ Gain(a, k) >= 0
  BY DEF SinceOK
<1> QED
  BY <1>1, <1>2, <1>3, <1>4, <1>5

\* In this step, what stays in RAM of a has aged by n, of the others not at
\* all, and what has come to RAM is noted with the time.
Grew(a, n) ==
  \A b \in Adapters : \A k \in InRam(b)' :
    \/ /\ k \in InRam(b) /\ since'[b][k] = since[b][k]
       /\ Gain(b, k)' = Gain(b, k) + IF b = a THEN n ELSE 0
    \/ since'[b][k].time = clock /\ Gain(b, k)' = 0

\* Noting keeps the history true to what is in RAM, if none of it has grown
\* younger.
LEMMA NotedSince ==
  ASSUME SoundSt(St), SinceOK, clock \in Nat, SoundSt(St'), Noted, clock' = clock,
         \A b \in DOMAIN tables \cap DOMAIN tables' :
           \A k \in DOMAIN tables[b].store \cap DOMAIN tables'[b].store :
             tables'[b].store[k].age >= tables[b].store[k].age
  PROVE  /\ SinceOK'
         /\ \A b \in Adapters : \A k \in InRam(b)' :
              \/ /\ k \in InRam(b) /\ since'[b][k] = since[b][k]
                 /\ Gain(b, k)' = Gain(b, k) + (tables'[b].store[k].age - tables[b].store[k].age)
              \/ since'[b][k].time = clock /\ Gain(b, k)' = 0
<1>1. /\ DOMAIN since' = Adapters
      /\ \A b \in Adapters : DOMAIN since'[b] = InRam(b)'
      /\ \A b \in Adapters : \A k \in InRam(b)' :
           since'[b][k] = IF k \in InRam(b) THEN since[b][k]
                          ELSE [time |-> clock, age |-> tables'[b].store[k].age]
  BY DEF Noted, InRam, SinceOK
<1>2. \A b \in Adapters : \A k \in InRam(b)' :
        /\ b \in DOMAIN tables' /\ k \in DOMAIN tables'[b].store
        /\ AgeOf(b, k)' = tables'[b].store[k].age /\ tables'[b].store[k] \in Payload
  BY DEF InRam, AgeOf, Memories, SoundSt, St, IsTable, IsContents
<1>3. ASSUME NEW b \in Adapters, NEW k \in InRam(b)', k \in InRam(b)
      PROVE  /\ Gain(b, k)' = Gain(b, k) + (tables'[b].store[k].age - tables[b].store[k].age)
             /\ since'[b][k] = since[b][k]
             /\ since'[b][k].time \in 0..clock /\ since'[b][k].age \in Int /\ Gain(b, k)' >= 0
  <2>1. /\ b \in DOMAIN tables /\ k \in DOMAIN tables[b].store
        /\ AgeOf(b, k) = tables[b].store[k].age /\ AgeOf(b, k) \in Int
        /\ Gain(b, k) = AgeOf(b, k) - since[b][k].age /\ Gain(b, k) \in Nat
    BY <1>3, GainIsInt
  <2>2. tables'[b].store[k].age >= tables[b].store[k].age /\ tables'[b].store[k].age \in Int
    <3>1. tables'[b].store[k].age >= tables[b].store[k].age
      BY <1>2, <2>1
    <3> QED
      BY <1>2, <3>1 DEF Payload
  <2>3. since'[b][k] = since[b][k]
    BY <1>1, <1>3
  <2>4. Gain(b, k)' = tables'[b].store[k].age - since[b][k].age
    BY <1>2, <2>3 DEF Gain
  <2>5. since[b][k].time \in 0..clock /\ since[b][k].age \in Int
    BY <1>3 DEF SinceOK
  <2> QED
    BY <2>1, <2>2, <2>3, <2>4, <2>5
<1>4. ASSUME NEW b \in Adapters, NEW k \in InRam(b)', k \notin InRam(b)
      PROVE  /\ since'[b][k].time = clock /\ Gain(b, k)' = 0
             /\ since'[b][k].time \in 0..clock /\ since'[b][k].age \in Int /\ Gain(b, k)' >= 0
  <2>1. since'[b][k].time = clock /\ since'[b][k].age = tables'[b].store[k].age
    <3>1. since'[b][k] = [time |-> clock, age |-> tables'[b].store[k].age]
      BY <1>1, <1>4
    <3> QED
      BY <3>1
  <2>2. tables'[b].store[k].age \in Int
    BY <1>2 DEF Payload
  <2>3. Gain(b, k)' = tables'[b].store[k].age - since'[b][k].age
    BY <1>2 DEF Gain
  <2> QED
    BY <2>1, <2>2, <2>3
<1>5. since' \in [Adapters -> {since'[b] : b \in Adapters}]
  <2>1. since' = [b \in Adapters |-> since'[b]]
    BY DEF Noted
  <2> QED
    BY <2>1
<1>6. SinceOK'
  BY <1>1, <1>3, <1>4, <1>5 DEF SinceOK
<1> QED
  BY <1>3, <1>4, <1>6

\* And it tells how much of it has grown by the steps of a call.
LEMMA NotedGrew ==
  ASSUME SoundSt(St), SinceOK, clock \in Nat, SoundSt(St'), Noted, clock' = clock,
         NEW a, NEW n \in Nat,
         \A b \in DOMAIN tables \cap DOMAIN tables' :
           \A k \in DOMAIN tables[b].store \cap DOMAIN tables'[b].store :
             tables'[b].store[k].age = tables[b].store[k].age + IF b = a THEN n ELSE 0
  PROVE  SinceOK' /\ Grew(a, n)
<1>1. \A b \in DOMAIN tables : \A k \in DOMAIN tables[b].store : tables[b].store[k].age \in Int
  BY DEF SoundSt, St, IsTable, IsContents, Payload
<1>2. \A b \in DOMAIN tables \cap DOMAIN tables' :
        \A k \in DOMAIN tables[b].store \cap DOMAIN tables'[b].store :
          /\ tables'[b].store[k].age >= tables[b].store[k].age
          /\ tables'[b].store[k].age - tables[b].store[k].age = IF b = a THEN n ELSE 0
  BY <1>1
<1>3. /\ SinceOK'
      /\ \A b \in Adapters : \A k \in InRam(b)' :
           \/ /\ k \in InRam(b) /\ since'[b][k] = since[b][k]
              /\ Gain(b, k)' = Gain(b, k) + (tables'[b].store[k].age - tables[b].store[k].age)
           \/ since'[b][k].time = clock /\ Gain(b, k)' = 0
  BY <1>2, NotedSince
<1>4. ASSUME NEW b \in Adapters, NEW k \in InRam(b)', k \in InRam(b)
      PROVE  tables'[b].store[k].age - tables[b].store[k].age = IF b = a THEN n ELSE 0
  <2>1. b \in DOMAIN tables \cap DOMAIN tables' /\ k \in DOMAIN tables[b].store \cap DOMAIN tables'[b].store
    BY <1>4 DEF InRam
  <2> QED
    BY <1>2, <2>1
<1> QED
  BY <1>3, <1>4 DEF Grew

\* Steps that leave the tables and the history alone.
LEMMA UnchangedSince ==
  ASSUME SinceOK, UNCHANGED <<vars, since>>, clock \in Nat, clock' \in Nat, clock <= clock'
  PROVE  SinceOK' /\ \A a \in Adapters : InRam(a)' = InRam(a) /\ \A k : Gain(a, k)' = Gain(a, k)
<1>1. tables' = tables /\ disk' = disk /\ since' = since
  BY DEF vars
<1>2. \A a, k : InRam(a)' = InRam(a) /\ Gain(a, k)' = Gain(a, k)
  BY <1>1 DEF InRam, Gain, AgeOf, Memories
<1>3. SinceOK'
  BY <1>1, <1>2 DEF SinceOK
<1> QED
  BY <1>2, <1>3

----------------------------------------------------------------------------
(* Half of the time is counted. *)

\* Ticking one more adapter of the list takes the steps that were due to it.
LEMMA DueToTheNext ==
  ASSUME NEW q \in TickQuery, q.calls < 2 * Len(q.names),
         NEW p, p = [q EXCEPT !.calls = @ + 1],
         NEW n, n = IF q.calls < Len(q.names) THEN q.steps ELSE 0
  PROVE  /\ p \in TickQuery /\ p.calls = q.calls + 1
         /\ p.now = q.now /\ p.steps = q.steps /\ p.names = q.names
         /\ Ticked(p) = IF q.calls < Len(q.names) THEN Ticked(q) \cup {Named(q)} ELSE Ticked(q)
         /\ \A a : /\ Due(q, a) \in Nat /\ Due(p, a) \in Nat
                   /\ Due(q, a) <= Due(p, a) + IF a = Named(q) THEN n ELSE 0
<1>1. /\ p \in TickQuery /\ p.calls = q.calls + 1
      /\ p.now = q.now /\ p.steps = q.steps /\ p.names = q.names
  BY DEF TickQuery
<1>2. /\ Len(q.names) \in Nat \ {0} /\ q.calls \in Nat /\ q.steps \in Nat
      /\ Turn(q.names, q.calls) = IF q.calls < Len(q.names) THEN q.calls + 1
                                                            ELSE q.calls + 1 - Len(q.names)
      /\ Named(q) = q.names[Turn(q.names, q.calls)]
  BY NamedIsListed DEF TickQuery, Named, Turn
<1>3. Ticked(p) = IF q.calls < Len(q.names) THEN Ticked(q) \cup {Named(q)} ELSE Ticked(q)
  <2>1. CASE q.calls < Len(q.names)
    BY <1>1, <1>2, <2>1 DEF Ticked
  <2>2. CASE ~(q.calls < Len(q.names))
    BY <1>1, <1>2, <2>2 DEF Ticked
  <2> QED
    BY <2>1, <2>2
<1>4. ASSUME NEW a
      PROVE  /\ Due(q, a) \in Nat /\ Due(p, a) \in Nat
             /\ Due(q, a) <= Due(p, a) + IF a = Named(q) THEN n ELSE 0
  BY <1>1, <1>2, <1>3 DEF Due
<1> QED
  BY <1>1, <1>3, <1>4

\* At the end of the list nothing is due to anyone on it.
LEMMA NothingDue ==
  ASSUME NEW q \in TickQuery, q.calls = 2 * Len(q.names)
  PROVE  \A a \in ToSet(q.names) : a \in Ticked(q) /\ Due(q, a) = 0
<1>1. Len(q.names) \in Nat /\ ToSet(q.names) = {q.names[i] : i \in 1..Len(q.names)}
  BY LenProperties DEF TickQuery, ToSet
<1> QED
  BY <1>1 DEF Ticked, Due

\* HalfCounted of one query.
HalfOf(q) ==
  \A a \in Adapters : \A k \in InRam(a) : since[a][k].time < q.now =>
    /\ a \in ToSet(q.names)
    /\ 2 * ((Gain(a, k) + Due(q, a)) * Interval) >= q.now - since[a][k].time

\* What is in RAM has grown, and less is due: still half of the time counts.
LEMMA GrewHalf ==
  ASSUME SoundSt(St), SinceOK, clock \in Nat, NEW a, NEW n \in Nat, Grew(a, n),
         NEW q \in TickQuery, q.now <= clock, HalfOf(q),
         NEW p, p.names = q.names, p.now = q.now,
         \A b : /\ Due(q, b) \in Nat /\ Due(p, b) \in Nat
                /\ Due(q, b) <= Due(p, b) + IF b = a THEN n ELSE 0
  PROVE  HalfOf(p)'
<1> SUFFICES ASSUME NEW b \in Adapters, NEW k \in InRam(b)', since'[b][k].time < p.now
             PROVE  /\ b \in ToSet(p.names)
                    /\ 2 * ((Gain(b, k)' + Due(p, b)) * Interval) >= p.now - since'[b][k].time
  BY DEF HalfOf, Due, Ticked
<1>1. q.now \in Nat
  BY DEF TickQuery
<1>2. CASE since'[b][k].time = clock
  BY <1>1, <1>2
<1>3. CASE /\ k \in InRam(b) /\ since'[b][k] = since[b][k]
           /\ Gain(b, k)' = Gain(b, k) + IF b = a THEN n ELSE 0
  <2>1. /\ b \in ToSet(q.names)
        /\ 2 * ((Gain(b, k) + Due(q, b)) * Interval) >= q.now - since[b][k].time
    BY <1>3 DEF HalfOf
  <2>2. Gain(b, k) \in Nat /\ since[b][k].time \in Int
    <3>1. Gain(b, k) \in Nat
      BY <1>3, GainIsInt
    <3>2. since[b][k].time \in 0..clock
      BY <1>3 DEF SinceOK
    <3> QED
      BY <3>1, <3>2
  <2>3. /\ Gain(b, k) + Due(q, b) \in Int /\ Gain(b, k)' + Due(p, b) \in Int
        /\ Gain(b, k) + Due(q, b) <= Gain(b, k)' + Due(p, b)
    BY <1>3, <2>2
  <2>4. 2 * ((Gain(b, k) + Due(q, b)) * Interval) <= 2 * ((Gain(b, k)' + Due(p, b)) * Interval)
    BY <2>3, Halves
  <2>5. \A x \in Int : x * Interval \in Int
    BY IntervalAssumption
  <2> QED
    BY <1>1, <1>3, <2>1, <2>2, <2>3, <2>4, <2>5
<1> QED
  BY <1>2, <1>3 DEF Grew

\* HalfKept, of the memories in RAM.
LEMMA HalfOfLastTick ==
  ASSUME SinceOK
  PROVE  HalfKept <=>
           \A a \in Adapters : \A k \in InRam(a) :
             2 * Gain(a, k) * Interval >= LastTick - since[a][k].time
BY DEF HalfKept, SinceOK

\* Growing loses nothing, and what comes to RAM comes after the last tick.
LEMMA GrewLosesLess ==
  ASSUME SoundSt(St), SinceOK, ClockOK, HalfKept, NEW a, NEW n \in Nat, Grew(a, n),
         SinceOK', UNCHANGED <<clock, idle>>
  PROVE  HalfKept'
<1> SUFFICES ASSUME NEW b \in Adapters, NEW k \in InRam(b)'
             PROVE  2 * Gain(b, k)' * Interval >= LastTick - since'[b][k].time
  <2>1. LastTick' = LastTick
    BY DEF LastTick
  <2>2. \A b \in Adapters : DOMAIN since'[b] = InRam(b)'
    BY DEF SinceOK
  <2> QED
    BY <2>1, <2>2 DEF HalfKept
<1>1. LastTick \in Nat /\ LastTick <= clock
  BY DEF ClockOK, LastTick
<1>2. CASE since'[b][k].time = clock /\ Gain(b, k)' = 0
  BY <1>1, <1>2, IntervalAssumption DEF ClockOK
<1>3. CASE /\ k \in InRam(b) /\ since'[b][k] = since[b][k]
           /\ Gain(b, k)' = Gain(b, k) + IF b = a THEN n ELSE 0
  <2>1. 2 * Gain(b, k) * Interval >= LastTick - since[b][k].time
    BY <1>3, HalfOfLastTick
  <2>2. Gain(b, k) \in Nat
    BY <1>3, GainIsInt
  <2>3. since[b][k].time \in 0..clock
    BY <1>3 DEF SinceOK
  <2>4. Gain(b, k)' \in Int /\ Gain(b, k) <= Gain(b, k)'
    BY <1>3, <2>2
  <2>5. 2 * Gain(b, k) * Interval <= 2 * Gain(b, k)' * Interval
    BY <2>2, <2>4, Halves
  <2>6. 2 * Gain(b, k) * Interval \in Int /\ 2 * Gain(b, k)' * Interval \in Int
    BY <2>2, <2>4, IntervalAssumption
  <2>7. LastTick - since[b][k].time \in Int
    BY <1>1, <2>3
  <2> QED
    BY <1>3, <2>1, <2>5, <2>6, <2>7
<1> QED
  BY <1>2, <1>3 DEF Grew

\* The whole steps of a time are more than half of it, and no more than it.
LEMMA WholeSteps ==
  ASSUME NEW elapsed \in Int, elapsed >= Interval
  PROVE  /\ elapsed \div Interval \in Nat \ {0}
         /\ (elapsed \div Interval) * Interval <= elapsed
         /\ 2 * ((elapsed \div Interval) * Interval) >= elapsed
<1> DEFINE s == elapsed \div Interval
<1>1. s \in Int /\ s * Interval <= elapsed /\ elapsed < s * Interval + Interval
  BY IntervalAssumption
<1>2. s \in Nat \ {0}
  BY IntervalAssumption
<1> HIDE DEF s
<1>3. Interval <= s * Interval
  BY <1>2, IntervalAssumption
<1>4. s * Interval \in Int
  BY <1>1, IntervalAssumption
<1> QED
  BY <1>1, <1>2, <1>3, <1>4, IntervalAssumption DEF s

\* What HalfCounted says, one query at a time.
LEMMA HalfCountedOf ==
  HalfCounted <=> \A t \in Serving : query[t].at = "tick" => HalfOf(query[t])
BY DEF HalfCounted, HalfOf

\* A list that was just made is one that a query ticks.
LEMMA ListedIsTick ==
  ASSUME SoundSt(St), ClockOK, NEW now \in Nat, now <= clock, now - LastTick >= Interval,
         NEW q, q = [at |-> "tick", now |-> now, steps |-> (now - LastTick) \div Interval,
                     names |-> order, calls |-> 0]
  PROVE  q \in TickQuery
<1>1. now - LastTick \in Int
  BY DEF ClockOK, LastTick
<1>2. (now - LastTick) \div Interval \in Nat \ {0}
  BY <1>1, WholeSteps
<1>3. order \in Seq(Adapters)
  BY SoundStFacts DEF St, SoundSt, Lists
<1> QED
  BY <1>2, <1>3 DEF TickQuery

\* And it has everything that is in RAM.
LEMMA ListedHalf ==
  ASSUME SoundSt(St), SinceOK, ClockOK, HalfKept,
         NEW now \in Nat, now <= clock, now - LastTick >= Interval,
         NEW q, q = [at |-> "tick", now |-> now, steps |-> (now - LastTick) \div Interval,
                     names |-> order, calls |-> 0]
  PROVE  q \in TickQuery /\ HalfOf(q)
<1> DEFINE steps == (now - LastTick) \div Interval
<1>1. LastTick \in Nat /\ LastTick <= clock
  BY DEF ClockOK, LastTick
<1>2. /\ steps \in Nat \ {0} /\ steps * Interval \in Int
      /\ 2 * (steps * Interval) >= now - LastTick
  <2>1. now - LastTick \in Int
    BY <1>1
  <2>2. steps \in Nat \ {0} /\ 2 * (steps * Interval) >= now - LastTick
    BY <2>1, WholeSteps
  <2> HIDE DEF steps
  <2> QED
    BY <2>2, IntervalAssumption
<1> HIDE DEF steps
<1>3. order \in Seq(Adapters) /\ ToSet(order) = DOMAIN tables
  BY SoundStFacts DEF St, SoundSt, Lists
<1>4. q = [at |-> "tick", now |-> now, steps |-> steps, names |-> order, calls |-> 0]
  BY DEF steps
<1>5. q \in TickQuery
  BY <1>2, <1>3, <1>4 DEF TickQuery
<1>6. ASSUME NEW a \in Adapters, NEW k \in InRam(a)
      PROVE  /\ a \in ToSet(q.names)
             /\ 2 * ((Gain(a, k) + Due(q, a)) * Interval) >= q.now - since[a][k].time
  <2>1. a \in DOMAIN tables /\ Gain(a, k) \in Nat
    BY GainIsInt
  <2>2. Due(q, a) = steps
    <3>1. Len(order) \in Nat
      BY <1>3, LenProperties
    <3> QED
      BY <1>4, <3>1 DEF Due, Ticked
  <2>3. 2 * Gain(a, k) * Interval >= LastTick - since[a][k].time
    BY HalfOfLastTick
  <2>4. since[a][k].time \in Int
    <3>1. since[a][k].time \in 0..clock
      BY DEF SinceOK
    <3> QED
      BY <3>1 DEF ClockOK
  <2>5. 2 * ((Gain(a, k) + steps) * Interval) = 2 * Gain(a, k) * Interval + 2 * (steps * Interval)
    BY <1>2, <2>1, IntervalAssumption
  <2>6. 2 * Gain(a, k) * Interval \in Int
    BY <2>1, IntervalAssumption
  <2>7. q.names = order /\ q.now = now
    BY <1>4
  <2> HIDE DEF LastTick
  <2>8. 2 * ((Gain(a, k) + steps) * Interval) >= now - since[a][k].time
    BY <1>1, <1>2, <2>3, <2>4, <2>5, <2>6
  <2> QED
    BY <1>3, <2>1, <2>2, <2>7, <2>8
<1> QED
  BY <1>5, <1>6 DEF HalfOf

\* When a query resets the clock, half of the time up to then has counted.
LEMMA ResetLosesLess ==
  ASSUME SoundSt(St), SinceOK, ClockOK, HalfCounted, NEW t \in Threads, Reset(t)
  PROVE  HalfKept'
<1> DEFINE q == query[t]
<1>1. t \in Serving /\ q \in TickQuery /\ q.calls = 2 * Len(q.names) /\ HalfOf(q)
  BY HalfCountedOf DEF Reset, Serving, ClockOK, Queries, TickQuery
<1>2. /\ UNCHANGED <<vars, since>> /\ clock' = clock /\ clock \in Nat
      /\ idle' = clock - q.now /\ q.now \in Nat
  BY <1>1 DEF Reset, TickQuery, ClockOK
<1> HIDE DEF q
<1>3. LastTick' = q.now
  BY <1>2 DEF LastTick
<1>4. SinceOK' /\ \A a \in Adapters : InRam(a)' = InRam(a) /\ \A k : Gain(a, k)' = Gain(a, k)
  BY <1>2, UnchangedSince
<1>5. ASSUME NEW a \in Adapters, NEW k \in InRam(a)
      PROVE  2 * Gain(a, k) * Interval >= q.now - since[a][k].time
  <2>1. Gain(a, k) \in Nat
    BY GainIsInt
  <2>2. since[a][k].time \in 0..clock
    BY DEF SinceOK
  <2>3. CASE since[a][k].time < q.now
    <3>1. /\ a \in ToSet(q.names)
          /\ 2 * ((Gain(a, k) + Due(q, a)) * Interval) >= q.now - since[a][k].time
      BY <1>1, <2>3 DEF HalfOf
    <3>2. Due(q, a) = 0
      BY <1>1, <3>1, NothingDue
    <3>3. Gain(a, k) + Due(q, a) = Gain(a, k)
      BY <2>1, <3>2
    <3> QED
      BY <2>1, <3>1, <3>3, Halves
  <2>4. CASE ~(since[a][k].time < q.now)
    <3>1. 2 * Gain(a, k) * Interval >= 0
      BY <2>1, Halves
    <3>2. 2 * Gain(a, k) * Interval \in Int
      BY <2>1, IntervalAssumption
    <3> QED
      BY <1>2, <2>2, <2>4, <3>1, <3>2
  <2> QED
    BY <2>3, <2>4
<1>6. \A a \in Adapters : \A k \in DOMAIN since'[a] :
        2 * Gain(a, k)' * Interval >= q.now - since'[a][k].time
  BY <1>2, <1>4, <1>5 DEF SinceOK
<1> QED
  BY <1>3, <1>6 DEF HalfKept

----------------------------------------------------------------------------
(* No time is counted twice. *)

\* As long as queries do not overlap, no memory is older than the clock.
LEMMA CountedNow ==
  ASSUME SoundSt(St), ClockOK, Counted
  PROVE  \A a \in Adapters : Within(St, a, clock)
<1> SUFFICES ASSUME NEW a \in Adapters PROVE Within(St, a, clock)
  OBVIOUS
<1>1. LastTick \in Nat /\ LastTick <= clock /\ clock \in Nat
  BY DEF ClockOK, LastTick
<1>2. CASE \E t \in Serving : query[t].at = "tick"
  <2>1. PICK t \in Serving : query[t].at = "tick"
    BY <1>2
  <2> DEFINE time == LastTick + query[t].steps * Interval
  <2>2. Within(St, a, time) /\ time <= query[t].now
    BY <2>1 DEF Counted
  <2>3. query[t].now \in Nat /\ query[t].now <= clock /\ query[t].steps \in Nat
    BY <2>1 DEF ClockOK, Serving, Queries, TickQuery
  <2>4. time \in Int
    BY <1>1, <2>3, IntervalAssumption
  <2> HIDE DEF time
  <2>5. time <= clock
    BY <1>1, <2>2, <2>3, <2>4
  <2> QED
    BY <1>1, <2>2, <2>4, <2>5, WithinMore
<1>3. CASE ~(\E t \in Serving : query[t].at = "tick")
  <2>1. Within(St, a, LastTick)
    BY <1>3 DEF Counted
  <2> QED
    BY <1>1, <2>1, WithinMore
<1> QED
  BY <1>2, <1>3

\* The query that is served is a query, and one of its threads.
LEMMA TheQuery ==
  ASSUME ClockOK, NEW t \in Serving
  PROVE  /\ t \in Threads /\ query[t] \in Queries /\ query[t] # Free
         /\ query[t].at = "compare" => query[t].now \in Nat
         /\ query[t].at = "tick" => query[t] \in TickQuery
BY DEF ClockOK, Serving, Queries, TickQuery

\* The adapter to tick next was not ticked yet, as the list names each once.
LEMMA NextIsUnticked ==
  ASSUME NEW q \in TickQuery, Distinct(q.names), q.calls < Len(q.names)
  PROVE  Named(q) \notin Ticked(q)
<1>1. Len(q.names) \in Nat /\ q.calls \in Nat /\ Named(q) = q.names[q.calls + 1]
  BY NamedIsListed DEF TickQuery, Named, Turn
<1>2. \A i, j \in 1..Len(q.names) : q.names[i] = q.names[j] => i = j
  BY DEF Distinct
<1> QED
  BY <1>1, <1>2 DEF Ticked

\* A call of the loops brings the ticked adapter to where the tick will be,
\* and the others stay.
LEMMA VisitCounts ==
  ASSUME SoundSt(St), ClockOK, Counted, InTurn, NEW t, NEW st, NEW n, Visited(t, st, n), ~raced,
         UNCHANGED <<clock, idle>>
  PROVE  Counted'
<1> DEFINE q == query[t]
           p == [q EXCEPT !.calls = @ + 1]
           a == Named(q)
<1>1. /\ t \in Serving /\ q.at = "tick" /\ q.calls < 2 * Len(q.names)
      /\ n = IF q.calls < Len(q.names) THEN q.steps ELSE 0
      /\ Aged(St, st, a, n) /\ SoundSt(st)
      /\ St' = st /\ query' = [query EXCEPT ![t] = p]
  BY DEF Visited, Aged, MayAge, Commit, St, SoundSt
<1>2. t \in Threads /\ q \in TickQuery /\ Serving = {t}
  BY <1>1, TheQuery DEF Counted
<1>3. /\ p \in TickQuery /\ p.now = q.now /\ p.steps = q.steps /\ p.names = q.names
      /\ Ticked(p) = IF q.calls < Len(q.names) THEN Ticked(q) \cup {a} ELSE Ticked(q)
  BY <1>1, <1>2, DueToTheNext
<1> HIDE DEF p
<1>4. query' \in [Threads -> Queries \cup {Free}] /\ query'[t] = p /\ p # Free
      /\ \A u \in Threads \ {t} : query'[u] = query[u]
  BY <1>1, <1>2, <1>3, FreeAssumption DEF ClockOK, Queries
<1>5. Serving' = {t}
  BY <1>2, <1>4 DEF Serving
<1>6. LastTick' = LastTick /\ LastTick \in Int
  BY DEF LastTick, ClockOK
<1>7. q.steps \in Nat /\ q.steps * Interval \in Nat /\ n \in Nat /\ p.at = "tick"
  BY <1>1, <1>2, <1>3, IntervalAssumption DEF TickQuery
<1>8. /\ q.steps * Interval + LastTick <= q.now
      /\ \A b \in Adapters : Within(St, b, LastTick + q.steps * Interval)
      /\ \A b \in Adapters : b \notin Ticked(q) => Within(St, b, LastTick)
  <2>1. LastTick + q.steps * Interval <= q.now
    BY <1>1 DEF Counted
  <2>2. \A b \in Adapters : Within(St, b, LastTick + q.steps * Interval)
    BY <1>1 DEF Counted
  <2>3. \A b \in Adapters : b \notin Ticked(q) => Within(St, b, LastTick)
    BY <1>2 DEF Counted
  <2> QED
    BY <1>6, <1>7, <2>1, <2>2, <2>3
<1>9. ASSUME NEW b \in Adapters, b # a \/ n = 0, NEW time \in Int, Within(St, b, time)
      PROVE  Within(st, b, time)
  <2>1. Within(st, b, IF b = a THEN time + n * Interval ELSE time)
    BY <1>1, <1>9 DEF Aged, MayAge
  <2>2. n = 0 => time + n * Interval = time
    BY <1>9, IntervalAssumption
  <2> QED
    BY <1>9, <2>1, <2>2
<1>10. ASSUME NEW b \in Adapters, b \notin Ticked(p) PROVE Within(st, b, LastTick)
  <2>1. b \notin Ticked(q) /\ (b # a \/ n = 0)
    BY <1>1, <1>3, <1>10
  <2> QED
    BY <1>6, <1>8, <1>9, <2>1
<1>11. ASSUME NEW b \in Adapters PROVE Within(st, b, LastTick + q.steps * Interval)
  <2>1. CASE b # a \/ n = 0
    BY <1>6, <1>7, <1>8, <1>9, <2>1
  <2>2. CASE b = a /\ n # 0
    <3>1. q.calls < Len(q.names) /\ n = q.steps
      BY <1>1, <2>2
    <3>2. a \notin Ticked(q)
      BY <1>1, <1>2, <3>1, NextIsUnticked DEF InTurn, Lists
    <3>3. Within(St, a, LastTick)
      BY <1>8, <2>2, <3>2
    <3>4. \A time \in Int : Within(St, b, time) =>
             Within(st, b, IF b = a THEN time + n * Interval ELSE time)
      BY <1>1 DEF Aged, MayAge
    <3> QED
      BY <1>6, <2>2, <3>1, <3>3, <3>4
  <2> QED
    BY <2>1, <2>2
<1>12. \A u \in Serving' : query'[u] = p
  BY <1>4, <1>5
<1>13. /\ \A b \in Adapters : b \notin Ticked(p) => Within(st, b, LastTick)
       /\ LastTick + p.steps * Interval <= p.now
       /\ \A b \in Adapters : Within(st, b, LastTick + p.steps * Interval)
  BY <1>3, <1>6, <1>7, <1>8, <1>10, <1>11
<1> HIDE DEF q, a
<1> QED
  <2>1. Serving' = {t} /\ query'[t] = p /\ LastTick' = LastTick /\ St' = st /\ p.at = "tick"
    BY <1>1, <1>4, <1>5, <1>6, <1>7
  <2> QED
    BY <2>1, <1>13 DEF Counted, Within, Younger, View, Ticked

\* The other steps of the query that is served alone, one by one.
LEMMA AnswerCounts ==
  ASSUME SoundSt(St), ClockOK, Counted, NEW t \in Serving, query[t].at = "handle",
         query' = [query EXCEPT ![t] = Free], NEW st, NEW a, Aged(St, st, a, 0), Commit(st),
         UNCHANGED <<clock, idle>>
  PROVE  Counted'
<1>1. t \in Threads /\ Serving = {t} /\ Serving' = {}
  BY TheQuery DEF Counted, Serving, ClockOK
<1>2. LastTick' = LastTick /\ LastTick \in Int
  BY DEF LastTick, ClockOK
<1>3. St' = st
  BY DEF Aged, MayAge, Commit, St, SoundSt
<1>4. ASSUME NEW b \in Adapters PROVE Within(st, b, LastTick)
  <2>1. Within(St, b, LastTick)
    BY <1>1 DEF Counted
  <2>2. Within(st, b, IF b = a THEN LastTick + 0 * Interval ELSE LastTick)
    BY <1>2, <2>1 DEF Aged, MayAge
  <2>3. LastTick + 0 * Interval = LastTick
    BY <1>2, IntervalAssumption
  <2> QED
    BY <2>2, <2>3
<1> QED
  BY <1>1, <1>2, <1>3, <1>4 DEF Counted, Within, Younger, View

\* The steps of the list that was just made end at the query's own clock.
LEMMA CompareCounts ==
  ASSUME SoundSt(St), ClockOK, Counted, NEW t \in Threads, Compare(t)
  PROVE  Counted'
<1> DEFINE elapsed == query[t].now - LastTick
           steps == elapsed \div Interval
           q == query'[t]
<1>1. t \in Serving /\ query[t].at = "compare" /\ query[t].now \in Nat
  BY TheQuery DEF Compare, Comparing, Serving
<1>2. Serving = {t} /\ Serving' \subseteq {t}
  BY <1>1 DEF Counted, Serving, Compare, Unticked, Listed, Goto, ClockOK
<1>3. /\ UNCHANGED <<order, tables, disk, clock, idle>> /\ St' = St
      /\ LastTick' = LastTick /\ LastTick \in Int
  BY DEF Compare, vars, St, LastTick, ClockOK
<1>4. \A a \in Adapters : Within(St, a, LastTick)
  BY <1>1, <1>2 DEF Counted
<1>5. CASE elapsed < Interval
  <2>1. q = [at |-> "handle", ticked |-> FALSE]
    BY <1>1, <1>5 DEF Compare, Unticked, Goto, ClockOK
  <2>2. q.at = "handle"
    BY <2>1
  <2> HIDE DEF q
  <2> QED
    BY <1>2, <1>3, <1>4, <2>2 DEF Counted, Within, Younger, View, q
<1>6. CASE ~(elapsed < Interval)
  <2>1. q = [at |-> "tick", now |-> query[t].now, steps |-> steps, names |-> order, calls |-> 0]
    BY <1>1, <1>6 DEF Compare, Listed, Goto, ClockOK
  <2>2. elapsed \in Int /\ elapsed >= Interval
    BY <1>1, <1>3, <1>6, IntervalAssumption
  <2> HIDE DEF elapsed
  <2>3. steps \in Nat \ {0} /\ steps * Interval <= elapsed
    BY <2>2, WholeSteps
  <2> HIDE DEF steps, q
  <2>4. steps * Interval \in Nat
    BY <2>3, IntervalAssumption
  <2>5. q.at = "tick" /\ q.now = query[t].now /\ q.steps = steps
    BY <2>1
  <2>6. LastTick + q.steps * Interval <= q.now
    BY <1>1, <1>3, <2>3, <2>4, <2>5 DEF elapsed
  <2>7. \A a \in Adapters : Within(St, a, LastTick + q.steps * Interval)
    BY <1>3, <1>4, <2>4, <2>5, WithinMore
  <2> QED
    BY <1>2, <1>3, <1>4, <2>6, <2>7 DEF Counted, Within, Younger, View, q
<1> QED
  BY <1>5, <1>6

\* The clock is set to what the tick has brought every memory up to.
LEMMA ResetCounts ==
  ASSUME SoundSt(St), ClockOK, Counted, NEW t \in Threads, Reset(t)
  PROVE  Counted'
<1>1. t \in Serving /\ query[t].at = "tick" /\ query[t] \in TickQuery
  BY TheQuery DEF Reset, Serving
<1>2. /\ Serving = {t} /\ Serving' \subseteq {t} /\ query'[t].at = "handle"
  BY <1>1 DEF Counted, Serving, Reset, Goto, ClockOK
<1>3. /\ UNCHANGED <<order, tables, disk>> /\ St' = St /\ LastTick' = query[t].now
  BY <1>1 DEF Reset, vars, St, LastTick, ClockOK, TickQuery
<1>4. ASSUME NEW a \in Adapters PROVE Within(St, a, query[t].now)
  <2>1. query[t].now \in Int /\ query[t].steps * Interval \in Int /\ LastTick \in Int
    BY <1>1, IntervalAssumption DEF TickQuery, LastTick, ClockOK
  <2>2. /\ LastTick + query[t].steps * Interval <= query[t].now
        /\ Within(St, a, LastTick + query[t].steps * Interval)
    BY <1>1 DEF Counted
  <2> QED
    BY <2>1, <2>2, WithinMore
<1> QED
  BY <1>2, <1>3, <1>4 DEF Counted, Within, Younger, View

\* A query that comes while none is served, and time that passes.
LEMMA ArriveCounts ==
  ASSUME ClockOK, Counted, NEW t \in Threads, Arrive(t), Serving = {}
  PROVE  Counted'
<1>1. Serving' \subseteq {t} /\ query'[t].at = "compare"
  BY DEF Arrive, Goto, Serving, ClockOK
<1>2. UNCHANGED <<order, tables, disk>> /\ St' = St /\ LastTick' = LastTick
  BY DEF Arrive, vars, St, LastTick
<1>3. \A a \in Adapters : Within(St, a, LastTick)
  BY DEF Counted
<1> QED
  BY <1>1, <1>2, <1>3 DEF Counted, Within, Younger, View

\* Time passes, and the last tick stays where it was.
LEMMA PassCounts ==
  ASSUME ClockOK, Counted, TimedPass
  PROVE  Counted'
<1>1. /\ UNCHANGED <<order, tables, disk, query>> /\ St' = St
  BY DEF TimedPass, Pass, vars, St
<1>2. LastTick' = LastTick
  BY DEF TimedPass, Pass, LastTick, ClockOK
<1> QED
  BY <1>1, <1>2 DEF Counted, Serving, Within, Younger, View, Ticked

\* A new process starts its clock now, with what is on disk.
LEMMA RestartCounts ==
  ASSUME SoundSt(St), ClockOK, Counted, TimedRestart
  PROVE  Counted'
<1>1. Serving' = {}
  BY DEF TimedRestart, Serving
<1>2. /\ LastTick' = clock
      /\ DOMAIN tables' = {} /\ disk' = disk
  BY DEF TimedRestart, Restart, Crash, LastTick, ClockOK
<1>3. \A a \in Adapters : View(St', a) = disk[a] /\ St'.disk[a] = disk[a] /\ St.disk[a] = disk[a]
  BY <1>2 DEF View, St
<1>4. \A a \in Adapters : Within(St', a, clock)
  BY <1>3, CountedNow DEF Within
<1> QED
  BY <1>1, <1>2, <1>4 DEF Counted, Within, Younger, View, St

\* What a write stores: the request's payload, with the adapter among its
\* tags.
Stored(a, p) == [p EXCEPT !.tags = @ \cup {a}]

\* It is a payload, of the age of the request's, which is no age.
LEMMA StoredIsFresh ==
  ASSUME NEW a \in Adapters, NEW p \in Payloads
  PROVE  Stored(a, p) \in Payload /\ Stored(a, p).age = 0
<1>1. p \in Payload /\ p.age = 0 /\ a \in Tags
  BY InputAssumption, TagAssumption, ClockAlone
<1> QED
  BY <1>1 DEF Stored, Payload

\* A write puts a memory of no age into the table it mounts, or raises.
LEMMA WriteEffect ==
  ASSUME SoundSt(St), NEW a \in Adapters, NEW k \in Keys, NEW p \in Payloads, PostMemory(a, k, p)
  PROVE  /\ SoundSt(St')
         /\ \A b \in Adapters, time \in Nat : Within(St, b, time) => Within(St', b, time)
<1> DEFINE fresh == Stored(a, p)
<1>1. PICK m \in Mount(St, a) :
        \/ m.ok /\ Commit([m.st EXCEPT !.tables[a] = Put(m.st.tables[a], k, fresh)])
        \/ ~m.ok /\ Commit(m.st) /\ ret' = Raised
  BY DEF PostMemory, WriteMemory, OnTable, Stored
<1>2. fresh \in Payload /\ fresh.age = 0
  BY StoredIsFresh
<1> HIDE DEF fresh
<1>3. CASE m.ok /\ Commit([m.st EXCEPT !.tables[a] = Put(m.st.tables[a], k, fresh)])
  <2> DEFINE table == Put(m.st.tables[a], k, fresh)
             t == [m.st EXCEPT !.tables[a] = table]
  <2>1. SoundSt(m.st) /\ a \in DOMAIN m.st.tables
    BY <1>3, MountEffect
  <2>2. IsTable(table)
    BY <1>2, <2>1, PutIsTable DEF SoundSt
  <2>3. table.store = With(m.st.tables[a].store, k, fresh)
    BY DEF Put
  <2> HIDE DEF table
  <2>4. /\ SoundSt(t) /\ View(t, a) = table.store
        /\ \A b \in Adapters : t.disk[b] = m.st.disk[b]
        /\ \A b \in Adapters \ {a} : Kept(m.st, t, b)
    BY <2>1, <2>2, ChangeTable
  <2>5. St' = t
    BY <1>3, <2>4 DEF table, Commit, St, SoundSt
  <2> HIDE DEF t
  <2>6. ASSUME NEW b \in Adapters, NEW time \in Nat, Within(St, b, time)
        PROVE  Within(t, b, time)
    <3>1. Within(m.st, b, time)
      BY <2>6, MountStaysWithin
    <3>2. CASE b # a
      BY <2>4, <3>1, <3>2 DEF Within, Kept
    <3>3. CASE b = a
      <4>1. Younger(m.st.tables[a].store, time) /\ Younger(m.st.disk[a], time)
        BY <2>1, <3>1, <3>3 DEF Within, View
      <4>2. 0 * Interval <= time
        BY IntervalAssumption
      <4>3. Younger(table.store, time)
        BY <1>2, <2>3, <4>1, <4>2 DEF Younger, With
      <4> QED
        BY <2>4, <3>3, <4>1, <4>3 DEF Within
    <3> QED
      BY <3>2, <3>3
  <2> QED
    BY <2>4, <2>5, <2>6
<1>4. CASE ~m.ok /\ Commit(m.st) /\ ret' = Raised
  <2>1. SoundSt(St') /\ SoundSt(m.st)
    BY <1>4, RaiseStep, MountEffect
  <2>2. St' = m.st
    BY <1>4, <2>1 DEF Commit, St, SoundSt
  <2> QED
    BY <2>1, <2>2, MountStaysWithin
<1> QED
  BY <1>1, <1>3, <1>4

\* A write while no query is served.
LEMMA WriteCounts ==
  ASSUME SoundSt(St), ClockOK, Counted, NEW a \in Adapters, NEW k \in Keys, NEW p \in Payloads,
         Write(a, k, p), Serving = {}
  PROVE  Counted'
<1>1. Serving' = {} /\ LastTick' = LastTick /\ LastTick \in Nat
  BY DEF Write, PostMemory, pool, Serving, LastTick, ClockOK
<1>2. \A b \in Adapters : Within(St, b, LastTick)
  BY DEF Counted
<1>3. \A b \in Adapters : Within(St', b, LastTick)
  BY <1>1, <1>2, WriteEffect DEF Write
<1> QED
  BY <1>1, <1>3 DEF Counted, Within, Younger, View, St

----------------------------------------------------------------------------
(* The order of the tables, and their flags. *)

\* Moving the foremost table to the end is a rotation of the order.
LEMMA Rotation ==
  ASSUME NEW s, NEW D, Lists(s, D), Len(s) >= 1
  PROVE  /\ Len(s) \in Nat
         /\ Len(Append(RemoveFirst(s, s[1]), s[1])) = Len(s)
         /\ \A i \in 1..Len(s) - 1 : Append(RemoveFirst(s, s[1]), s[1])[i] = s[i + 1]
         /\ Append(RemoveFirst(s, s[1]), s[1])[Len(s)] = s[1]
<1> DEFINE r == RemoveFirst(s, s[1])
<1>1. Len(s) \in Nat /\ 1 \in 1..Len(s) /\ s[1] \in D
  BY LenProperties, ElementOfSeq DEF Lists
<1>2. /\ r \in Seq(D) /\ Len(r) = Len(s) - 1
      /\ \A i \in 1..Len(s) - 1 : r[i] = IF i < 1 THEN s[i] ELSE s[i + 1]
  BY <1>1, RemoveFirstAt
<1> HIDE DEF r
<1>3. /\ Len(Append(r, s[1])) = Len(r) + 1
      /\ \A i \in 1..Len(r) : Append(r, s[1])[i] = r[i]
      /\ Append(r, s[1])[Len(r) + 1] = s[1]
  BY <1>1, <1>2, AppendProperties
<1> QED
  BY <1>1, <1>2, <1>3 DEF r

\* Once round the list is where it began.
LEMMA TurnsRound ==
  ASSUME NEW names, Len(names) \in Nat \ {0}, NEW i \in 1..Len(names),
         NEW calls \in 0..2 * Len(names) - 1
  PROVE  /\ Turn(names, i - 1) = i
         /\ Turn(names, 2 * Len(names) + i - 1) = i
         /\ Turn(names, calls + Len(names)) = Turn(names, calls)
<1> DEFINE n == Len(names)
<1>1. n \in Nat \ {0} /\ i \in 1..n /\ calls \in 0..2 * n - 1
  OBVIOUS
<1> HIDE DEF n
<1>2. (i - 1) % n = i - 1 /\ (2 * n + i - 1) % n = i - 1
  BY <1>1
<1>3. (calls + n) % n = calls % n
  <2>1. CASE calls < n
    <3>1. calls % n = calls
      BY <1>1, <2>1
    <3>2. (calls + n) % n = calls
      BY <1>1, <2>1
    <3> QED
      BY <3>1, <3>2
  <2>2. CASE calls >= n
    <3>1. calls % n = calls - n
      BY <1>1, <2>2
    <3>2. (calls + n) % n = calls - n
      BY <1>1, <2>2
    <3> QED
      BY <3>1, <3>2
  <2> QED
    BY <1>1, <2>1, <2>2
<1> QED
  BY <1>1, <1>2, <1>3 DEF Turn, n

\* Mounting a table that is in RAM only touches it.
LEMMA MountInRam ==
  ASSUME NEW st, NEW a \in DOMAIN st.tables, NEW m \in Mount(st, a)
  PROVE  m.ok = TRUE /\ m.st = Touch(st, a)
BY DEF Mount, Returns

\* A call of the loops on a table that is in RAM: it is moved to the end and
\* ticked, or swept, and no other table changes.
LEMMA VisitInRam ==
  ASSUME SoundSt(St), NEW t, Visit(t), ~raced, NEW q \in TickQuery, q = query[t],
         NEW a, a = Named(q), a \in DOMAIN tables
  PROVE  /\ order' = Append(RemoveFirst(order, a), a)
         /\ DOMAIN tables' = DOMAIN tables
         /\ \A b \in DOMAIN tables \ {a} : tables'[b] = tables[b]
         /\ q.calls >= Len(q.names) => ~tables'[a].needsEviction
<1> DEFINE touched == Touch(St, a)
<1>1. touched.order = Append(RemoveFirst(order, a), a) /\ touched.tables = tables /\ SoundSt(touched)
  <2>1. a \in DOMAIN St.tables /\ St.tables = tables
    BY DEF St
  <2>2. touched.order = Append(RemoveFirst(order, a), a)
    BY DEF Touch, St
  <2> QED
    BY <2>1, <2>2, TouchEffect
<1>2. a \in DOMAIN St.tables
  BY DEF St
<1>3. CASE q.calls < Len(q.names)
  <2>1. PICK o \in Ticks(St, a, q.steps) : Commit(o.st)
    <3>1. \E o \in Ticks(St, Named(query[t]), query[t].steps) : Commit(o.st)
      BY <1>3 DEF Visit, Ticks, Disturbed
    <3> QED
      BY <3>1
  <2>2. o.st = TickedIn(touched, a, q.steps)
    <3>1. PICK m \in Mount(St, a) : o.st = IF m.ok THEN TickedIn(m.st, a, q.steps) ELSE m.st
      BY <2>1, TickOutcome
    <3>2. m.ok = TRUE /\ m.st = touched
      BY <1>2, MountInRam
    <3> QED
      BY <3>1, <3>2
  <2> HIDE DEF touched
  <2>3. o.st.order = touched.order /\ o.st.tables = [touched.tables EXCEPT ![a] = Tick(@, q.steps)]
    BY <1>1, <2>2 DEF TickedIn, SoundSt
  <2>4. ~(q.calls >= Len(q.names))
    BY <1>3, LenProperties DEF TickQuery
  <2>5. /\ DOMAIN tables' = DOMAIN tables
        /\ \A b \in DOMAIN tables \ {a} : tables'[b] = tables[b]
    BY <1>1, <2>1, <2>3 DEF Commit
  <2> QED
    BY <1>1, <2>1, <2>3, <2>4, <2>5 DEF Commit
<1>4. CASE ~(q.calls < Len(q.names))
  <2>1. PICK o \in Sweeps(St, a, ThresholdOf(a)) : Commit(o.st)
    <3>1. \E o \in Sweeps(St, Named(query[t]), ThresholdOf(Named(query[t]))) : Commit(o.st)
      BY <1>4 DEF Visit, Sweeps, Disturbed
    <3> QED
      BY <3>1
  <2>2. o.st = SweptIn(touched, a, ThresholdOf(a))
    <3>1. PICK m \in Mount(St, a) : o.st = IF m.ok THEN SweptIn(m.st, a, ThresholdOf(a)) ELSE m.st
      BY <2>1, SweepOutcome
    <3>2. m.ok = TRUE /\ m.st = touched
      BY <1>2, MountInRam
    <3> QED
      BY <3>1, <3>2
  <2> HIDE DEF touched
  <2>3. /\ o.st.order = touched.order
        /\ o.st.tables = [touched.tables EXCEPT ![a] = EvictStale(@, ThresholdOf(a))]
    BY <1>1, <2>2 DEF SweptIn, SoundSt
  <2>4. EvictStale(tables[a], ThresholdOf(a)).needsEviction = FALSE
    <3>1. tables[a].needsEviction \in BOOLEAN
      BY DEF SoundSt, St, IsTable
    <3> QED
      BY <3>1 DEF EvictStale
  <2>5. /\ DOMAIN tables' = DOMAIN tables
        /\ \A b \in DOMAIN tables \ {a} : tables'[b] = tables[b]
        /\ tables'[a] = EvictStale(tables[a], ThresholdOf(a))
    BY <1>1, <2>1, <2>3 DEF Commit
  <2> QED
    BY <1>1, <2>1, <2>3, <2>4, <2>5 DEF Commit
<1> QED
  BY <1>3, <1>4

\* InTurn of one query that ticks.
TurnOf(q) ==
  /\ Lists(q.names, DOMAIN tables)
  /\ \A i \in 1..Len(order) : order[i] = q.names[Turn(q.names, q.calls + i - 1)]
  /\ \A i \in 1..Len(q.names) : i <= q.calls - Len(q.names) => ~tables[q.names[i]].needsEviction

\* InTurn says it of every query in a tick, and one more thing.
LEMMA TurnsOf ==
  InTurn <=> \A t \in Serving :
    /\ query[t].at = "tick" => TurnOf(query[t])
    /\ query[t].at = "handle" /\ query[t].ticked => \A a \in DOMAIN tables : ~tables[a].needsEviction
BY DEF InTurn, TurnOf

\* The list of a query and the order of the tables have the same length, and
\* the table in turn is the foremost.
LEMMA ForemostIsNamed ==
  ASSUME SoundSt(St), NEW q \in TickQuery, TurnOf(q), q.calls < 2 * Len(q.names)
  PROVE  /\ Lists(order, DOMAIN tables) /\ Len(order) = Len(q.names) /\ Len(q.names) \in Nat \ {0}
         /\ Named(q) = order[1] /\ Named(q) \in DOMAIN tables /\ Named(q) = q.names[Turn(q.names, q.calls)]
<1>1. Lists(order, DOMAIN tables) /\ Lists(q.names, DOMAIN tables)
  BY DEF SoundSt, St, TurnOf
<1>2. Len(order) = Len(q.names) /\ Len(q.names) \in Nat \ {0} /\ q.calls \in Nat
  <2>1. Len(order) = Len(q.names)
    BY <1>1, ListsCardinality
  <2>2. Len(q.names) \in Nat \ {0}
    BY NamedIsListed DEF TickQuery
  <2> QED
    BY <2>1, <2>2 DEF TickQuery
<1>3. Named(q) = q.names[Turn(q.names, q.calls)]
  BY DEF Named, Turn
<1>4. order[1] = q.names[Turn(q.names, q.calls)]
  <2>1. 1 \in 1..Len(order) /\ q.calls + 1 - 1 = q.calls
    BY <1>2
  <2>2. order[1] = q.names[Turn(q.names, q.calls + 1 - 1)]
    BY <2>1 DEF TurnOf
  <2> QED
    BY <2>1, <2>2
<1>5. order[1] \in DOMAIN tables
  BY <1>1, <1>2, ElementOfSeq DEF Lists
<1> QED
  BY <1>1, <1>2, <1>3, <1>4, <1>5

\* A call of the loops leaves the order one turn further.
LEMMA VisitTurns ==
  ASSUME SoundSt(St), NEW t, Visit(t), ~raced, NEW q \in TickQuery, q = query[t], TurnOf(q),
         NEW p, p.names = q.names, p.calls = q.calls + 1
  PROVE  TurnOf(p)'
<1> DEFINE n == Len(q.names)
           a == Named(q)
<1>1. /\ q.calls \in 0..2 * n - 1 /\ q.calls < 2 * n /\ n \in Nat \ {0}
      /\ Len(order) = n /\ Lists(order, DOMAIN tables)
      /\ a = order[1] /\ a \in DOMAIN tables /\ a = q.names[Turn(q.names, q.calls)]
  <2>1. q.calls < 2 * n /\ q.calls \in Nat
    BY DEF Visit, TickQuery
  <2> QED
    BY <2>1, ForemostIsNamed
<1>2. /\ order' = Append(RemoveFirst(order, a), a)
      /\ DOMAIN tables' = DOMAIN tables
      /\ \A b \in DOMAIN tables \ {a} : tables'[b] = tables[b]
      /\ q.calls >= n => ~tables'[a].needsEviction
  BY <1>1, VisitInRam
<1>3. /\ Len(order') = n
      /\ \A i \in 1..n - 1 : order'[i] = order[i + 1]
      /\ order'[n] = a
  <2>1. Len(order) >= 1
    BY <1>1
  <2>2. /\ Len(Append(RemoveFirst(order, order[1]), order[1])) = Len(order)
        /\ \A i \in 1..Len(order) - 1 : Append(RemoveFirst(order, order[1]), order[1])[i] = order[i + 1]
        /\ Append(RemoveFirst(order, order[1]), order[1])[Len(order)] = order[1]
    BY <1>1, <2>1, Rotation, Zenon
  <2> QED
    BY <1>1, <1>2, <2>2, Zenon
<1> HIDE DEF a, n
<1>4. ASSUME NEW i \in 1..n PROVE order'[i] = q.names[Turn(q.names, p.calls + i - 1)]
  <2>1. CASE i < n
    <3>1. i \in 1..n - 1 /\ i + 1 \in 1..n /\ q.calls + (i + 1) - 1 = p.calls + i - 1
      BY <1>1, <2>1
    <3>2. order[i + 1] = q.names[Turn(q.names, q.calls + (i + 1) - 1)]
      BY <1>1, <3>1 DEF TurnOf
    <3> QED
      BY <1>3, <3>1, <3>2
  <2>2. CASE i = n
    <3>1. p.calls + n - 1 = q.calls + n
      BY <1>1
    <3>2. Turn(q.names, q.calls + n) = Turn(q.names, q.calls)
      BY <1>1, 1 \in 1..n, TurnsRound DEF n
    <3> QED
      BY <1>1, <1>3, <2>2, <3>1, <3>2
  <2> QED
    BY <1>1, <2>1, <2>2
<1>5. ASSUME NEW i \in 1..n, i <= p.calls - n PROVE ~tables'[q.names[i]].needsEviction
  <2>1. q.names[i] \in DOMAIN tables
    BY <1>1, ElementOfSeq DEF n, TurnOf, Lists
  <2>2. q.calls >= n
    BY <1>1, <1>5
  <2>3. CASE q.names[i] = a
    BY <1>2, <2>2, <2>3
  <2>4. CASE q.names[i] # a
    <3>1. i # q.calls + 1 - n
      <4>1. Turn(q.names, q.calls) = q.calls + 1 - n
        BY <1>1, <2>2, NamedIsListed DEF n, TickQuery
      <4> QED
        BY <1>1, <2>4, <4>1
    <3>2. i <= q.calls - n
      <4>1. i \in Int /\ n \in Int /\ q.calls \in Int /\ i <= q.calls + 1 - n
        BY <1>1, <1>5
      <4> QED
        BY <3>1, <4>1
    <3>3. ~tables[q.names[i]].needsEviction
      BY <3>2 DEF n, TurnOf
    <3> QED
      BY <1>2, <2>1, <2>4, <3>3
  <2> QED
    BY <2>3, <2>4
<1>6. Lists(p.names, DOMAIN tables')
  BY <1>2 DEF TurnOf
<1> QED
  BY <1>3, <1>4, <1>5, <1>6 DEF TurnOf, n

\* A list just made is the order of the tables.
LEMMA ListedTurns ==
  ASSUME SoundSt(St), NEW q, q.names = order, q.calls = 0, UNCHANGED vars
  PROVE  TurnOf(q)'
<1>1. /\ UNCHANGED <<order, tables>> /\ Lists(order, DOMAIN tables) /\ Len(order) \in Nat
  BY SoundStFacts DEF SoundSt, St, vars
<1>2. ASSUME NEW i \in 1..Len(order) PROVE order[i] = order[Turn(order, 0 + i - 1)]
  <2>1. Len(order) \in Nat \ {0} /\ 0 \in 0..2 * Len(order) - 1 /\ 0 + i - 1 = i - 1
    BY <1>1
  <2>2. Turn(order, i - 1) = i
    BY <2>1, TurnsRound
  <2> QED
    BY <2>1, <2>2
<1>3. \A i \in 1..Len(order) : ~(i <= 0 - Len(order))
  BY <1>1
<1> QED
  BY <1>1, <1>2, <1>3 DEF TurnOf

\* When the loops are through, every table in RAM was swept, and the order
\* is what it was before.
LEMMA RoundDone ==
  ASSUME SoundSt(St), NEW q \in TickQuery, TurnOf(q), q.calls = 2 * Len(q.names)
  PROVE  /\ \A a \in DOMAIN tables : ~tables[a].needsEviction
         /\ order = q.names
<1> DEFINE n == Len(q.names)
<1>1. /\ Lists(order, DOMAIN tables) /\ Lists(q.names, DOMAIN tables)
      /\ DOMAIN tables = {q.names[i] : i \in 1..n} /\ n \in Nat
  BY LenProperties DEF SoundSt, St, TurnOf, Lists, ToSet
<1>2. Len(order) = n
  BY <1>1, ListsCardinality
<1>3. \A i \in 1..n : i <= q.calls - n
  BY <1>1
<1>4. \A i \in 1..n : ~tables[q.names[i]].needsEviction
  BY <1>3 DEF TurnOf
<1>5. ASSUME NEW i \in 1..n PROVE order[i] = q.names[i]
  <2>1. n \in Nat \ {0} /\ 0 \in 0..2 * n - 1 /\ q.calls + i - 1 = 2 * n + i - 1
    BY <1>1
  <2>2. Turn(q.names, 2 * n + i - 1) = i
    BY <2>1, TurnsRound
  <2>3. order[i] = q.names[Turn(q.names, q.calls + i - 1)]
    BY <1>2 DEF TurnOf
  <2> QED
    BY <2>1, <2>2, <2>3
<1>6. order = q.names
  BY <1>1, <1>2, <1>5, SeqEqual DEF Lists
<1> QED
  BY <1>1, <1>4, <1>6

----------------------------------------------------------------------------
(* Every step keeps the invariant. *)

\* A call that makes nothing younger keeps the history true.
LEMMA MayAgeKeeps ==
  ASSUME TimeInv, NEW a \in Adapters, NEW n \in Nat, NEW st, MayAge(St, st, a, n), Commit(st),
         Noted, UNCHANGED <<clock, idle>>
  PROVE  SoundSt(St') /\ St' = st /\ SinceOK'
<1>1. SoundSt(St') /\ St' = st
  <2>1. st = [order |-> order', tables |-> tables', disk |-> disk']
    BY DEF MayAge, SoundSt, Commit
  <2> QED
    BY <2>1 DEF MayAge, St
<1>2. \A b \in DOMAIN tables \cap DOMAIN tables' :
        \A k \in DOMAIN tables[b].store \cap DOMAIN tables'[b].store :
          tables'[b].store[k].age >= tables[b].store[k].age
  BY <1>1 DEF MayAge, St
<1>3. SoundSt(St) /\ SinceOK /\ clock \in Nat /\ clock' = clock
  BY DEF TimeInv, ClockOK
<1> QED
  BY <1>1, <1>2, <1>3, NotedSince

\* Aging what is in RAM of one adapter keeps the parts about the history.
LEMMA AgedKeeps ==
  ASSUME TimeInv, HalfKept, NEW a \in Adapters, NEW n \in Nat, NEW st, Aged(St, st, a, n), Commit(st),
         Noted, UNCHANGED <<clock, idle>>
  PROVE  SoundSt(St') /\ St' = st /\ SinceOK' /\ Grew(a, n) /\ HalfKept'
<1>1. SoundSt(St') /\ St' = st
  BY MayAgeKeeps DEF Aged
<1>2. \A b \in DOMAIN tables \cap DOMAIN tables' :
        \A k \in DOMAIN tables[b].store \cap DOMAIN tables'[b].store :
          tables'[b].store[k].age = tables[b].store[k].age + IF b = a THEN n ELSE 0
  BY <1>1 DEF Aged, St
<1>3. SoundSt(St) /\ SinceOK /\ clock \in Nat /\ clock' = clock
  BY DEF TimeInv, ClockOK
<1>4. SinceOK' /\ Grew(a, n)
  BY <1>1, <1>2, <1>3, NotedGrew
<1>5. HalfKept'
  BY <1>4, GrewLosesLess DEF TimeInv
<1> QED
  BY <1>1, <1>4, <1>5

\* The visits of a tick: the adapter in turn ages by what was due to it.
LEMMA VisitKeeps ==
  ASSUME TimeInv, NEW t \in Threads, Visit(t)
  PROVE  TimeInv'
<1>1. PICK st, n : Visited(t, st, n)
  BY VisitVisits
<1> PICK q, p, a : q = query[t] /\ p = [q EXCEPT !.calls = @ + 1] /\ a = Named(q)
  OBVIOUS
<1>2. /\ t \in Serving /\ q \in TickQuery /\ q.at = "tick" /\ q.calls < 2 * Len(q.names)
      /\ n = IF q.calls < Len(q.names) THEN q.steps ELSE 0
      /\ n \in Nat /\ a \in Adapters /\ MayAge(St, st, a, n) /\ Commit(st)
      /\ ~raced => Aged(St, st, a, n)
      /\ query' = [query EXCEPT ![t] = p]
  BY <1>1, TheQuery DEF Visited, TimeInv, TickQuery
<1>3. Noted /\ UNCHANGED <<clock, idle, raced>>
  BY DEF Visit
<1>4. p \in TickQuery /\ p.calls = q.calls + 1 /\ p.now = q.now /\ p.names = q.names
      /\ \A b : /\ Due(q, b) \in Nat /\ Due(p, b) \in Nat
                /\ Due(q, b) <= Due(p, b) + IF b = a THEN n ELSE 0
  BY <1>2, DueToTheNext
<1>5. SoundSt(St') /\ SinceOK' /\ (~raced => Grew(a, n) /\ HalfKept')
  BY <1>2, <1>3, MayAgeKeeps, AgedKeeps DEF TimeInv, Undisturbed
<1>6. /\ query'[t] = p /\ Serving' = Serving
      /\ \A u \in Serving \ {t} : query'[u] = query[u]
      /\ query' \in [Threads -> Queries \cup {Free}]
  <2>1. p \in Queries /\ p # Free
    BY <1>4, FreeAssumption DEF Queries
  <2> QED
    BY <1>2, <2>1 DEF TimeInv, ClockOK, Serving
<1>7. ClockOK'
  <2>1. p.now <= clock /\ p.calls <= 2 * Len(p.names)
    <3>1. q.now <= clock
      BY <1>2 DEF TimeInv, ClockOK
    <3>2. Len(q.names) \in Nat /\ q.calls \in Nat
      BY <1>2, LenProperties DEF TickQuery
    <3> QED
      BY <1>2, <1>4, <3>1, <3>2
  <2> QED
    BY <1>3, <1>6, <2>1 DEF TimeInv, ClockOK
<1>8. ASSUME ~raced PROVE HalfCounted'
  <2>0. SoundSt(St) /\ SinceOK /\ clock \in Nat /\ n \in Nat /\ Grew(a, n)
    BY <1>2, <1>5, <1>8 DEF TimeInv, ClockOK
  <2>1. ASSUME NEW r \in TickQuery, r.now <= clock, HalfOf(r), NEW s, s.names = r.names, s.now = r.now,
               \A b : /\ Due(r, b) \in Nat /\ Due(s, b) \in Nat
                      /\ Due(r, b) <= Due(s, b) + IF b = a THEN n ELSE 0
        PROVE  HalfOf(s)'
    BY <2>0, <2>1, GrewHalf
  <2>2. HalfOf(p)'
    <3>1. q \in TickQuery /\ q.now <= clock /\ HalfOf(q) /\ p.names = q.names /\ p.now = q.now
      BY <1>2, <1>4, <1>8, HalfCountedOf DEF TimeInv, Undisturbed, ClockOK
    <3> QED
      BY <1>4, <2>1, <3>1, Zenon
  <2>3. ASSUME NEW u \in Serving, query'[u].at = "tick" PROVE \E r : r = query'[u] /\ HalfOf(r)'
    <3>1. CASE u = t
      BY <1>6, <2>2, <3>1
    <3>2. CASE u # t
      <4>1. query'[u] = query[u]
        BY <1>6, <3>2
      <4>2. query[u] \in TickQuery /\ query[u].now <= clock /\ HalfOf(query[u])
        BY <1>8, <2>3, <4>1, TheQuery, HalfCountedOf DEF TimeInv, Undisturbed, ClockOK, TickQuery
      <4>3. PICK r : r = query[u]
        OBVIOUS
      <4>4. \A b : Due(r, b) \in Nat /\ Due(r, b) <= Due(r, b) + IF b = a THEN n ELSE 0
        BY <2>0, <4>2, <4>3 DEF Due, TickQuery
      <4> QED
        BY <2>1, <4>1, <4>2, <4>3, <4>4
    <3> QED
      BY <3>1, <3>2
  <2> QED
    BY <1>6, <2>3 DEF HalfCounted, HalfOf
<1>9. ~raced' => Undisturbed'
  <2> SUFFICES ASSUME ~raced PROVE Undisturbed'
    BY <1>3
  <2>1. Counted'
    BY <1>1, <1>3, VisitCounts DEF TimeInv, Undisturbed
  <2>2. TurnOf(p)'
    <3>1. TurnOf(q)
      BY <1>2, TurnsOf DEF TimeInv, Undisturbed
    <3> QED
      BY <1>2, <1>4, <3>1, VisitTurns DEF TimeInv
  <2>3. \A u \in Serving : u = t
    BY <1>2 DEF TimeInv, Undisturbed, Counted
  <2>4. InTurn'
    <3>1. p.at = "tick"
      BY <1>4 DEF TickQuery
    <3>2. \A u \in Serving' : query'[u] = p
      BY <1>6, <2>3
    <3> QED
      BY <2>2, <3>1, <3>2 DEF InTurn, TurnOf
  <2> QED
    BY <1>5, <1>8, <2>1, <2>4 DEF Undisturbed
<1> QED
  BY <1>5, <1>7, <1>9 DEF TimeInv

\* Where nothing ages, what was counted for the queries that go on stays.
LEMMA NothingAgedHalf ==
  ASSUME TimeInv, HalfCounted, NEW a, Grew(a, 0), \A u \in Serving' : u \in Serving /\ query'[u] = query[u]
  PROVE  HalfCounted'
<1>1. SoundSt(St) /\ SinceOK /\ clock \in Nat
  BY DEF TimeInv, ClockOK
<1>2. ASSUME NEW r \in TickQuery, r.now <= clock, HalfOf(r) PROVE HalfOf(r)'
  <2>1. \A b : Due(r, b) \in Nat /\ Due(r, b) <= Due(r, b) + IF b = a THEN 0 ELSE 0
    BY DEF Due, TickQuery
  <2> QED
    BY <1>1, <1>2, <2>1, GrewHalf
<1>3. ASSUME NEW u \in Serving', query'[u].at = "tick" PROVE \E r : r = query'[u] /\ HalfOf(r)'
  <2>1. query[u] \in TickQuery /\ query[u].now <= clock /\ HalfOf(query[u]) /\ query'[u] = query[u]
    BY <1>3, TheQuery, HalfCountedOf DEF TimeInv, ClockOK, TickQuery
  <2>2. PICK r : r = query[u]
    OBVIOUS
  <2> QED
    BY <1>2, <2>1, <2>2
<1> QED
  BY <1>3 DEF HalfCounted, HalfOf

\* A query that is answered sweeps the table it finds; nothing in it ages.
LEMMA AnswerAges ==
  ASSUME TimeInv, NEW t, NEW a \in Adapters, Answer(t, a)
  PROVE  \E st : MayAge(St, st, a, 0) /\ (~raced => Aged(St, st, a, 0)) /\ Commit(st)
<1>1. CASE \E k \in Keys : \E o \in HandleTrigger(St, a, k) : Commit(o.st)
  <2>1. PICK k \in Keys : \E o \in HandleTrigger(St, a, k) : Commit(o.st)
    BY <1>1
  <2>2. PICK o \in HandleTrigger(St, a, k) : Commit(o.st)
    BY <2>1
  <2>3. PICK m \in Mount(St, a) : o.st = IF m.ok THEN SweptIn(m.st, a, EvictionThreshold) ELSE m.st
    BY TriggerOutcome
  <2>4. Aged(St, o.st, a, 0)
    BY <2>3, SweptAged DEF TimeInv
  <2> QED
    BY <2>2, <2>4 DEF Aged
<1>2. ASSUME NEW o \in CutSwept(St, a), Commit(o.st)
      PROVE  \E st : MayAge(St, st, a, 0) /\ (~raced => Aged(St, st, a, 0)) /\ Commit(st)
  BY <1>2, CutSweepOutcome, CutSweepMayAge DEF TimeInv
<1> QED
  BY <1>1, <1>2 DEF Answer, CutSwept

\* An answer keeps the invariant: the query is gone with it.
LEMMA AnswerKeeps ==
  ASSUME TimeInv, NEW t \in Threads, NEW a \in Adapters, Answer(t, a)
  PROVE  TimeInv'
<1>1. PICK st : MayAge(St, st, a, 0) /\ (~raced => Aged(St, st, a, 0)) /\ Commit(st)
  BY AnswerAges
<1>2. /\ t \in Serving /\ query[t].at = "handle" /\ query' = [query EXCEPT ![t] = Free]
      /\ Noted /\ UNCHANGED <<clock, idle, raced>>
  BY DEF Answer, Serving, Goto
<1>3. SoundSt(St') /\ SinceOK' /\ (~raced => Grew(a, 0) /\ HalfKept')
  BY <1>1, <1>2, MayAgeKeeps, AgedKeeps DEF TimeInv, Undisturbed
<1>4. /\ Serving' = Serving \ {t} /\ query' \in [Threads -> Queries \cup {Free}]
      /\ \A u \in Serving' : u \in Serving /\ query'[u] = query[u]
  BY <1>2 DEF TimeInv, ClockOK, Serving
<1>5. ClockOK'
  BY <1>2, <1>4 DEF TimeInv, ClockOK
<1>6. ~raced' => Undisturbed'
  <2> SUFFICES ASSUME ~raced PROVE Undisturbed'
    BY <1>2
  <2>1. Counted'
    BY <1>1, <1>2, AnswerCounts DEF TimeInv, Undisturbed
  <2>2. Serving' = {}
    BY <1>2, <1>4 DEF TimeInv, Undisturbed, Counted
  <2>3. HalfCounted'
    BY <1>3, <1>4, NothingAgedHalf DEF TimeInv, Undisturbed
  <2> QED
    BY <1>3, <2>1, <2>2, <2>3 DEF InTurn, Undisturbed
<1> QED
  BY <1>3, <1>5, <1>6 DEF TimeInv

\* A step that calls no manager leaves what is in RAM, and its history.
LEMMA QuietKeeps ==
  ASSUME TimeInv, UNCHANGED <<vars, since>>, clock' \in Nat, clock <= clock'
  PROVE  /\ SoundSt(St') /\ SinceOK'
         /\ HalfKept /\ LastTick' = LastTick => HalfKept'
         /\ \A r : (HalfOf(r) => HalfOf(r)') /\ (TurnOf(r) => TurnOf(r)')
<1>1. UNCHANGED <<order, tables, disk, since>> /\ St' = St
  BY DEF vars, St
<1>2. SoundSt(St')
  BY <1>1 DEF TimeInv
<1>3. SinceOK' /\ \A a \in Adapters : InRam(a)' = InRam(a) /\ \A k : Gain(a, k)' = Gain(a, k)
  BY UnchangedSince DEF TimeInv, ClockOK
<1>4. HalfKept /\ LastTick' = LastTick => HalfKept'
  BY <1>1, <1>3 DEF TimeInv, HalfKept, SinceOK
<1>5. ASSUME NEW r, HalfOf(r) PROVE HalfOf(r)'
  BY <1>1, <1>3, <1>5 DEF HalfOf
<1>6. ASSUME NEW r, TurnOf(r) PROVE TurnOf(r)'
  BY <1>1, <1>6 DEF TurnOf
<1> QED
  BY <1>2, <1>3, <1>4, <1>5, <1>6

\* Of the queries that go on as they were, HalfCounted stays true in such a
\* step; it is to be shown for the query that moved.
LEMMA QuietHalf ==
  ASSUME TimeInv, HalfCounted, UNCHANGED <<vars, since>>, clock' \in Nat, clock <= clock',
         NEW t, \A u \in Serving' \ {t} : u \in Serving /\ query'[u] = query[u],
         t \in Serving' /\ query'[t].at = "tick" => \E r : r = query'[t] /\ HalfOf(r)
  PROVE  HalfCounted'
<1>1. ASSUME NEW u \in Serving', query'[u].at = "tick" PROVE \E r : r = query'[u] /\ HalfOf(r)'
  <2>1. PICK r : r = query'[u] /\ HalfOf(r)
    BY <1>1, HalfCountedOf DEF TimeInv
  <2> QED
    BY <2>1, QuietKeeps
<1> QED
  BY <1>1 DEF HalfCounted, HalfOf

\* Comparing the clock keeps the invariant: the list is that of the tables,
\* and what is thrown away of the time is less than what is counted.
LEMMA CompareKeeps ==
  ASSUME TimeInv, NEW t \in Threads, Compare(t)
  PROVE  TimeInv'
<1>1. /\ t \in Serving /\ query[t].at = "compare" /\ query[t].now \in Nat /\ query[t].now <= clock
      /\ UNCHANGED <<vars, since, clock, idle, raced>> /\ clock \in Nat
  BY TheQuery DEF Compare, Comparing, Serving, TimeInv, ClockOK
<1> PICK elapsed, q : /\ elapsed = query[t].now - LastTick
                      /\ q = [at |-> "tick", now |-> query[t].now, steps |-> elapsed \div Interval,
                              names |-> order, calls |-> 0]
  OBVIOUS
<1>2. \/ elapsed < Interval /\ query' = [query EXCEPT ![t] = [at |-> "handle", ticked |-> FALSE]]
      \/ ~(elapsed < Interval) /\ query' = [query EXCEPT ![t] = q]
  BY DEF Compare, Unticked, Listed, Goto
<1>3. ~(elapsed < Interval) => q \in TickQuery /\ (HalfKept => HalfOf(q))
  <2>1. LastTick \in Nat
    BY DEF TimeInv, ClockOK, LastTick
  <2>2. query[t].now - LastTick \in Int
    BY <1>1, <2>1
  <2>3. ~(elapsed < Interval) => query[t].now - LastTick >= Interval
    BY <2>2, IntervalAssumption
  <2> QED
    BY <1>1, <2>3, ListedHalf, ListedIsTick DEF TimeInv
<1>4. q.at = "tick" /\ q.calls = 0 /\ q.now = query[t].now /\ q.names = order
  OBVIOUS
<1>5. /\ query' \in [Threads -> Queries \cup {Free}] /\ Serving' = Serving
      /\ \A u \in Serving' \ {t} : u \in Serving /\ query'[u] = query[u]
      /\ \/ query'[t] = [at |-> "handle", ticked |-> FALSE]
         \/ query'[t] = q /\ q \in TickQuery /\ (HalfKept => HalfOf(q))
  <2>1. [at |-> "handle", ticked |-> FALSE] \in Queries
    BY DEF Queries
  <2>2. query \in [Threads -> Queries \cup {Free}]
    BY DEF TimeInv, ClockOK
  <2>3. PICK p \in Queries : /\ query' = [query EXCEPT ![t] = p]
                             /\ \/ p = [at |-> "handle", ticked |-> FALSE]
                                \/ p = q /\ q \in TickQuery /\ (HalfKept => HalfOf(q))
    BY <1>2, <1>3, <2>1 DEF Queries
  <2>4. p # Free
    BY FreeAssumption
  <2> QED
    BY <1>1, <2>2, <2>3, <2>4 DEF Serving
<1>6. ClockOK'
  <2>1. query'[t].at # "handle" => query'[t] = q
    BY <1>5
  <2>2. q.now <= clock /\ (q \in TickQuery => q.calls <= 2 * Len(q.names))
    BY <1>1, <1>4, LenProperties DEF TickQuery
  <2> QED
    BY <1>1, <1>4, <1>5, <2>1, <2>2 DEF TimeInv, ClockOK
<1>7. SoundSt(St') /\ SinceOK' /\ (HalfKept => HalfKept')
  BY <1>1, QuietKeeps DEF LastTick
<1>8. ~raced' => Undisturbed'
  <2> SUFFICES ASSUME ~raced PROVE Undisturbed'
    BY <1>1
  <2>0. HalfKept /\ HalfCounted /\ Counted
    BY DEF TimeInv, Undisturbed
  <2>1. Counted'
    BY <2>0, CompareCounts DEF TimeInv
  <2>2. TurnOf(q)'
    BY <1>1, <1>4, ListedTurns DEF TimeInv
  <2>3. ASSUME NEW u \in Serving' PROVE query'[u] = q \/ query'[u] = [at |-> "handle", ticked |-> FALSE]
    BY <1>1, <1>5, <2>0 DEF Counted
  <2>4. InTurn'
    BY <1>4, <2>2, <2>3 DEF InTurn, TurnOf
  <2>5. HalfCounted'
    BY <1>1, <1>5, <2>0, QuietHalf
  <2> QED
    BY <1>7, <2>0, <2>1, <2>4, <2>5 DEF Undisturbed
<1> QED
  BY <1>6, <1>7, <1>8 DEF TimeInv

\* Resetting the clock keeps the invariant: what was due has been applied.
LEMMA ResetKeeps ==
  ASSUME TimeInv, NEW t \in Threads, Reset(t)
  PROVE  TimeInv'
<1> PICK q, p : q = query[t] /\ p = [at |-> "handle", ticked |-> TRUE]
  OBVIOUS
<1>1. /\ t \in Serving /\ q \in TickQuery /\ q.at = "tick" /\ q.calls = 2 * Len(q.names)
      /\ idle' = clock - q.now /\ query' = [query EXCEPT ![t] = p]
      /\ UNCHANGED <<vars, clock, since, raced>>
      /\ clock \in Nat /\ q.now \in Nat /\ q.now <= clock
  BY TheQuery DEF Reset, Serving, Goto, TimeInv, ClockOK, TickQuery
<1>2. /\ query' \in [Threads -> Queries \cup {Free}] /\ Serving' = Serving /\ query'[t] = p
      /\ \A u \in Serving' \ {t} : u \in Serving /\ query'[u] = query[u]
  <2>1. p \in Queries
    BY DEF Queries
  <2>2. p # Free
    BY <2>1, FreeAssumption
  <2> QED
    BY <1>1, <2>1, <2>2 DEF TimeInv, ClockOK, Serving
<1>3. p.at = "handle" /\ p.at # "tick"
  OBVIOUS
<1>4. ClockOK'
  <2>1. idle' \in Nat /\ idle' <= clock
    BY <1>1
  <2> QED
    BY <1>1, <1>2, <1>3, <2>1 DEF TimeInv, ClockOK
<1>5. SoundSt(St') /\ SinceOK'
  BY <1>1, QuietKeeps
<1>6. ~raced' => Undisturbed'
  <2> SUFFICES ASSUME ~raced PROVE Undisturbed'
    BY <1>1
  <2>0. HalfKept /\ HalfCounted /\ Counted /\ InTurn
    BY DEF TimeInv, Undisturbed
  <2>1. Counted'
    BY <2>0, ResetCounts DEF TimeInv
  <2>2. TurnOf(q)
    BY <1>1, <2>0, TurnsOf
  <2>3. \A a \in DOMAIN tables' : ~tables'[a].needsEviction
    BY <1>1, <2>2, RoundDone DEF TimeInv, vars
  <2>4. \A u \in Serving' : query'[u] = p
    BY <1>1, <1>2, <2>0 DEF Counted
  <2>5. InTurn'
    BY <1>3, <2>3, <2>4 DEF InTurn
  <2>6. HalfKept'
    BY <2>0, ResetLosesLess DEF TimeInv
  <2>7. HalfCounted'
    BY <1>1, <1>2, <1>3, <2>0, QuietHalf
  <2> QED
    BY <2>1, <2>5, <2>6, <2>7 DEF Undisturbed
<1> QED
  BY <1>4, <1>5, <1>6 DEF TimeInv

\* A query that comes in keeps the invariant; if another is served, what
\* holds of undisturbed ones is not claimed any more.
LEMMA ArriveKeeps ==
  ASSUME TimeInv, NEW t \in Threads, Arrive(t)
  PROVE  TimeInv'
<1> PICK p : p = [at |-> "compare", now |-> clock]
  OBVIOUS
<1>1. /\ query[t] = Free /\ query' = [query EXCEPT ![t] = p] /\ clock \in Nat
      /\ UNCHANGED <<vars, idle, clock, since>> /\ raced' = (raced \/ Serving # {})
  BY DEF Arrive, Goto, TimeInv, ClockOK
<1>2. p.at = "compare" /\ p.at # "tick" /\ p.at # "handle" /\ p.now = clock
  OBVIOUS
<1>3. /\ query' \in [Threads -> Queries \cup {Free}] /\ Serving' = Serving \cup {t} /\ query'[t] = p
      /\ \A u \in Serving' \ {t} : u \in Serving /\ query'[u] = query[u]
  <2>1. p \in Queries
    BY <1>1 DEF Queries
  <2>2. p # Free
    BY <2>1, FreeAssumption
  <2> QED
    BY <1>1, <2>1, <2>2 DEF TimeInv, ClockOK, Serving
<1>4. ClockOK'
  BY <1>1, <1>2, <1>3 DEF TimeInv, ClockOK
<1>5. SoundSt(St') /\ SinceOK' /\ (HalfKept => HalfKept')
  BY <1>1, QuietKeeps DEF LastTick
<1>6. ~raced' => Undisturbed'
  <2> SUFFICES ASSUME ~raced, Serving = {} PROVE Undisturbed'
    BY <1>1
  <2>0. HalfKept /\ HalfCounted /\ Counted
    BY DEF TimeInv, Undisturbed
  <2>1. Counted'
    BY <2>0, ArriveCounts DEF TimeInv
  <2>2. \A u \in Serving' : query'[u] = p
    BY <1>3
  <2>3. InTurn'
    BY <1>2, <2>2 DEF InTurn
  <2>4. HalfCounted'
    BY <1>1, <1>2, <1>3, <2>0, QuietHalf
  <2> QED
    BY <1>5, <2>0, <2>1, <2>3, <2>4 DEF Undisturbed
<1> QED
  BY <1>4, <1>5, <1>6 DEF TimeInv

\* Time that passes keeps the invariant.
LEMMA PassKeeps ==
  ASSUME TimeInv, TimedPass
  PROVE  TimeInv'
<1>1. /\ UNCHANGED <<vars, since, query, raced>> /\ clock \in Nat /\ idle \in Nat
      /\ clock' = clock + 1 /\ idle' = idle + 1
  BY DEF TimedPass, Pass, TimeInv, ClockOK
<1>2. clock' \in Nat /\ clock <= clock' /\ LastTick' = LastTick
  BY <1>1 DEF LastTick
<1>3. Serving' = Serving /\ query' = query
  BY <1>1 DEF Serving
<1>4. ClockOK'
  <2>1. clock' \in Nat /\ idle' \in Nat /\ idle' <= clock'
    BY <1>1 DEF TimeInv, ClockOK
  <2>2. ASSUME NEW t \in Serving, query[t].at # "handle" PROVE query[t].now <= clock'
    <3>1. query[t].now <= clock /\ query[t].now \in Nat
      BY <2>2, TheQuery DEF TimeInv, ClockOK, Queries, TickQuery
    <3> QED
      BY <1>1, <3>1
  <2> QED
    BY <1>3, <2>1, <2>2 DEF TimeInv, ClockOK
<1>5. SoundSt(St') /\ SinceOK' /\ (HalfKept => HalfKept')
  BY <1>1, <1>2, QuietKeeps
<1>6. ASSUME HalfCounted PROVE HalfCounted'
  <2>1. ASSUME NEW t \in Serving', query'[t].at = "tick" PROVE \E r : r = query'[t] /\ HalfOf(r)'
    <3>1. PICK r : r = query'[t] /\ HalfOf(r)
      BY <1>3, <1>6, <2>1, HalfCountedOf
    <3> QED
      BY <1>1, <1>2, <3>1, QuietKeeps
  <2> QED
    BY <2>1 DEF HalfCounted, HalfOf
<1>7. ASSUME ~raced PROVE Counted' /\ InTurn'
  BY <1>1, <1>3, <1>7, PassCounts DEF TimeInv, Undisturbed, InTurn, vars
<1> QED
  BY <1>1, <1>4, <1>5, <1>6, <1>7 DEF TimeInv, Undisturbed

\* A restart keeps the invariant: nothing is in RAM and no query is served.
LEMMA RestartKeeps ==
  ASSUME TimeInv, TimedRestart
  PROVE  TimeInv'
<1>1. /\ DOMAIN tables' = {} /\ Crash /\ idle' = 0 /\ Noted /\ UNCHANGED <<clock, raced>>
      /\ query' = [t \in Threads |-> Free]
  BY DEF TimedRestart, Restart, Crash
<1>2. Serving' = {} /\ clock \in Nat
  BY <1>1 DEF Serving, TimeInv, ClockOK
<1>3. SoundSt(St')
  BY <1>1, CrashStep DEF TimeInv
<1>4. ClockOK'
  BY <1>1, <1>2 DEF ClockOK
<1>5. /\ \A a \in Adapters : InRam(a)' = {}
      /\ since' \in [Adapters -> {since'[a] : a \in Adapters}]
      /\ \A a \in Adapters : DOMAIN since'[a] = {}
  BY <1>1 DEF InRam, Noted
<1>6. SinceOK' /\ HalfKept'
  BY <1>5 DEF SinceOK, HalfKept
<1>7. HalfCounted' /\ InTurn'
  BY <1>2 DEF HalfCounted, InTurn
<1>8. ~raced' => Counted'
  BY <1>1, RestartCounts DEF TimeInv, Undisturbed
<1> QED
  BY <1>3, <1>4, <1>6, <1>7, <1>8 DEF TimeInv, Undisturbed

\* A write keeps the invariant: only what it writes is in RAM afterwards.
LEMMA WriteKeeps ==
  ASSUME TimeInv, NEW a \in Adapters, NEW k \in Keys, NEW p \in Payloads, Write(a, k, p)
  PROVE  TimeInv'
<1>1. /\ PostMemory(a, k, p) /\ Noted /\ UNCHANGED <<clock, query, idle>>
      /\ raced' = (raced \/ Serving # {}) /\ \A b \in Adapters : Memories(b) = NoRows
  BY DEF Write, pool, PostMemory
<1>2. SoundSt(St')
  BY <1>1, WriteEffect DEF TimeInv
<1>3. Serving' = Serving /\ query' = query
  BY <1>1 DEF Serving
<1>4. SinceOK' /\ Grew(a, 0)
  <2>1. \A b \in DOMAIN tables \cap DOMAIN tables' :
          \A h \in DOMAIN tables[b].store \cap DOMAIN tables'[b].store :
            tables'[b].store[h].age = tables[b].store[h].age + IF b = a THEN 0 ELSE 0
    <3>1. DOMAIN tables \subseteq Adapters
      BY SoundStFacts DEF TimeInv, St
    <3>2. \A b \in DOMAIN tables : DOMAIN tables[b].store = {}
      BY <1>1, <3>1 DEF Memories, NoRows
    <3> QED
      BY <3>2
  <2>2. SoundSt(St) /\ SinceOK /\ clock \in Nat /\ clock' = clock /\ Noted
    BY <1>1 DEF TimeInv, ClockOK
  <2> QED
    BY <1>2, <2>1, <2>2, NotedGrew
<1>5. ClockOK'
  BY <1>1, <1>3 DEF TimeInv, ClockOK
<1>6. ~raced' => Undisturbed'
  <2> SUFFICES ASSUME ~raced, Serving = {} PROVE Undisturbed'
    BY <1>1
  <2>0. HalfKept /\ HalfCounted /\ Counted
    BY DEF TimeInv, Undisturbed
  <2>1. HalfKept'
    BY <1>1, <1>4, <2>0, GrewLosesLess DEF TimeInv
  <2>2. HalfCounted'
    BY <1>3, <1>4, <2>0, NothingAgedHalf
  <2>3. Counted' /\ InTurn'
    BY <1>3, <2>0, WriteCounts DEF TimeInv, InTurn
  <2> QED
    BY <2>1, <2>2, <2>3 DEF Undisturbed
<1> QED
  BY <1>2, <1>4, <1>5, <1>6 DEF TimeInv

----------------------------------------------------------------------------
(* The theorems. *)

\* At the start nothing is in RAM and no query is served.
LEMMA TimeInitHolds ==
  ASSUME TimeInit
  PROVE  TimeInv
<1>1. /\ Init /\ clock = 0 /\ idle = 0 /\ query = [t \in Threads |-> Free]
      /\ since = [a \in Adapters |-> NoRows]
  BY DEF TimeInit, ApiInit
<1>2. SoundSt(St)
  BY <1>1, InitSound
<1>3. Serving = {}
  BY <1>1 DEF Serving
<1>4. \A a \in Adapters : InRam(a) = {} /\ DOMAIN since[a] = {} /\ since[a] = NoRows
  BY <1>1 DEF Init, InRam, NoRows
<1>5. ClockOK
  BY <1>1, <1>3 DEF ClockOK
<1>6. SinceOK /\ HalfKept
  BY <1>1, <1>4 DEF SinceOK, HalfKept
<1>7. HalfCounted /\ InTurn
  BY <1>3 DEF HalfCounted, InTurn
<1>8. Counted
  <2>1. \A a \in Adapters : View(St, a) = NoRows /\ St.disk[a] = NoRows
    BY <1>1 DEF Init, View, St
  <2> QED
    BY <1>3, <2>1 DEF Counted, Within, Younger, NoRows
<1> QED
  BY <1>2, <1>5, <1>6, <1>7, <1>8 DEF TimeInv, Undisturbed

\* The invariant holds in every state: what follows rests on it.
THEOREM TimeSound == TimeSpec => []TimeInv
<1>1. TimeInit => TimeInv
  BY TimeInitHolds
<1>2. TimeInv /\ [TimeNext]_timeVars => TimeInv'
  <2> SUFFICES ASSUME TimeInv, [TimeNext]_timeVars PROVE TimeInv'
    OBVIOUS
  <2>1. CASE TimedPass
    BY <2>1, PassKeeps
  <2>2. CASE TimedRestart
    BY <2>2, RestartKeeps
  <2>3. CASE \E a \in Adapters, k \in Keys, p \in Payloads : Write(a, k, p)
    BY <2>3, WriteKeeps
  <2>4. ASSUME NEW t \in Threads, Arrive(t) PROVE TimeInv'
    BY <2>4, ArriveKeeps
  <2>5. ASSUME NEW t \in Threads, Serve(t) PROVE TimeInv'
    BY <2>5, CompareKeeps, VisitKeeps, ResetKeeps, AnswerKeeps DEF Serve
  <2>6. CASE UNCHANGED timeVars
    BY <2>6 DEF timeVars, TimeInv, Undisturbed, St, ClockOK, SinceOK, HalfKept, HalfCounted, Counted,
                InTurn, InRam, Serving, LastTick, Gain, AgeOf, Memories, Within, View
  <2> QED
    BY <2>1, <2>2, <2>3, <2>4, <2>5, <2>6 DEF TimeNext
<1> QED
  BY <1>1, <1>2, PTL DEF TimeSpec

\* api.py's _auto_tick counts no time twice, whatever queries, restarts and
\* evictions do, as long as no two queries overlap.
THEOREM NoTimeIsCountedTwice == TimeSpec => []NoTimeTwice
<1>1. TimeInv => NoTimeTwice
  <2> SUFFICES ASSUME TimeInv, ~raced, NEW a \in Adapters, NEW k \in DOMAIN Memories(a)
               PROVE  AgeOf(a, k) * Interval <= clock
    BY DEF NoTimeTwice
  <2>1. Within(St, a, clock)
    BY CountedNow DEF TimeInv, Undisturbed
  <2>2. View(St, a) = Memories(a)
    BY DEF View, St, Memories
  <2> QED
    BY <2>1, <2>2 DEF Within, Younger, AgeOf
<1> QED
  BY <1>1, TimeSound, PTL

\* What a tick throws away of the time is less than what it applies: while no
\* requests overlap, what stays in RAM ages by half of the time at least.
THEOREM LosesLess == TimeSpec => []LosesLessThanHalf
<1>1. TimeInv => LosesLessThanHalf
  BY DEF TimeInv, Undisturbed, HalfKept, LosesLessThanHalf
<1> QED
  BY <1>1, TimeSound, PTL

\* A tick that no other query disturbs leaves the order of use as it was.
THEOREM OrderIsLeft == TimeSpec => []TickLeavesOrder
<1>1. TimeInv => TickLeavesOrder
  <2> SUFFICES ASSUME TimeInv, ~raced, NEW t \in Serving, query[t].at = "tick",
                      query[t].calls = 2 * Len(query[t].names)
               PROVE  order = query[t].names
    BY DEF TickLeavesOrder
  <2>1. query[t] \in TickQuery /\ TurnOf(query[t])
    BY TheQuery, TurnsOf DEF TimeInv, Undisturbed
  <2> QED
    BY <2>1, RoundDone DEF TimeInv
<1> QED
  BY <1>1, TimeSound, PTL

\* Only an answer ends a query, but for a restart, after which nothing is in
\* RAM.
LEMMA OnlyAnswersAnswer ==
  ASSUME TimeInv, TimeNext, NEW t \in Serving, NEW a, Answered(t, a)
  PROVE  \E b \in Adapters : Answer(t, b)
<1>1. /\ t \in Threads /\ query[t] # Free /\ query[t].at = "handle" /\ query'[t] = Free
      /\ order' # <<>> /\ query \in [Threads -> Queries \cup {Free}]
  BY DEF Answered, Serving, TimeInv, ClockOK
<1>2. \A u \in Threads : \A q : Goto(u, q) /\ u # t => query'[t] = query[t]
  BY <1>1 DEF Goto
<1>3. ~TimedPass /\ ~TimedRestart /\ \A b, k, p : ~Write(b, k, p)
  BY <1>1 DEF TimedPass, TimedRestart, Restart, Crash, Write, pool
<1>4. \A u \in Threads : ~Arrive(u)
  BY <1>1, <1>2 DEF Arrive
<1>5. \A u \in Threads : ~Compare(u)
  BY <1>1, <1>2 DEF Compare, Comparing, Unticked, Listed
<1>6. \A u \in Threads : ~Visit(u) /\ ~Reset(u)
  BY <1>1, <1>2 DEF Visit, Reset
<1>7. \A u \in Threads : \A b : Answer(u, b) => u = t
  BY <1>1, <1>2 DEF Answer
<1> QED
  BY <1>3, <1>4, <1>5, <1>6, <1>7 DEF TimeNext, Serve

\* A sweep of a table whose flag is clear, and a mount of another, leave a
\* table in RAM as it is.
LEMMA AnswerLeavesSwept ==
  ASSUME TimeInv, ~raced, NEW t, NEW b \in Adapters, Answer(t, b),
         \A c \in DOMAIN tables : ~tables[c].needsEviction, NEW a \in DOMAIN tables \cap DOMAIN tables'
  PROVE  tables'[a] = tables[a]
<1>0. PICK k \in Keys : \E o \in HandleTrigger(St, b, k) : Commit(o.st)
  BY DEF Answer, Disturbed
<1>1. PICK o \in HandleTrigger(St, b, k) : Commit(o.st)
  BY <1>0
<1>2. PICK m \in Mount(St, b) : o.st = IF m.ok THEN SweptIn(m.st, b, EvictionThreshold) ELSE m.st
  BY TriggerOutcome
<1>3. SoundSt(m.st) /\ Carried(St, m.st, b) /\ (m.ok => b \in DOMAIN m.st.tables)
  BY MountEffect DEF TimeInv
<1>4. St.tables = tables /\ tables' = o.st.tables
  BY <1>1 DEF St, Commit
<1>5. a \in DOMAIN m.st.tables => m.st.tables[a] = tables[a]
  BY <1>3, <1>4 DEF Carried
<1>6. CASE m.ok
  <2>1. o.st.tables = [m.st.tables EXCEPT ![b] = EvictStale(@, EvictionThreshold)]
    BY <1>2, <1>3, <1>6 DEF SweptIn, SoundSt
  <2>2. EvictStale(tables[a], EvictionThreshold) = tables[a]
    BY DEF EvictStale
  <2> QED
    BY <1>4, <1>5, <2>1, <2>2
<1>7. CASE ~m.ok
  BY <1>2, <1>4, <1>5, <1>7
<1> QED
  BY <1>6, <1>7

\* api.py:108-109: an adapter's own threshold is the one that counts.  The
\* query that ticked finds every flag clear, and drops nothing more.
THEOREM OwnThresholdCounts == TimeSpec => OwnThresholdDecides
<1>1. ASSUME TimeInv, TimeNext, ~raced, NEW t \in Serving, NEW a \in DOMAIN tables,
             Answered(t, a), query[t].ticked
      PROVE  DOMAIN tables'[a].store = DOMAIN tables[a].store
  <2>1. PICK b \in Adapters : Answer(t, b)
    BY <1>1, OnlyAnswersAnswer
  <2>2. \A c \in DOMAIN tables : ~tables[c].needsEviction
    BY <1>1, TurnsOf DEF TimeInv, Undisturbed, Answered
  <2>3. a \in DOMAIN tables'
    <3>1. t \in Threads
      BY <1>1 DEF Serving
    <3>2. SoundSt(St')
      BY <1>1, <2>1, <3>1, AnswerKeeps DEF TimeInv
    <3>3. Lists(order', DOMAIN tables') /\ order' # <<>> /\ a = order'[Len(order')]
      BY <1>1, <3>2 DEF SoundSt, St, Answered
    <3>4. order' \in Seq(DOMAIN tables') /\ Len(order') \in Nat /\ Len(order') # 0
      BY <3>3, LenProperties, EmptySeq DEF Lists
    <3> QED
      BY <3>3, <3>4, ElementOfSeq
  <2> QED
    BY <1>1, <2>1, <2>2, <2>3, AnswerLeavesSwept
<1> DEFINE Leaves ==
      ~raced => \A t \in Serving, a \in DOMAIN tables :
        Answered(t, a) /\ query[t].ticked => DOMAIN tables'[a].store = DOMAIN tables[a].store
<1>2. TimeInv /\ [TimeNext]_timeVars => [Leaves]_timeVars
  BY <1>1
<1> QED
  BY <1>2, TimeSound, PTL DEF TimeSpec, OwnThresholdDecides

----------------------------------------------------------------------------
(* What a clear flag says of a table.                                      *)

\* Whatever threshold the last sweep had, a table whose flag is clear has
\* nothing that is stale by the threshold of its own adapter.
Clean(table, a) == ~table.needsEviction => Stale(table.store, ThresholdOf(a)) = {}
CleanIsLive(st) == \A a \in DOMAIN st.tables : Clean(st.tables[a], a)

\* Every threshold the server sweeps with is at least the adapter's own.
LEMMA OwnIsLower ==
  ASSUME NEW a \in Adapters
  PROVE  /\ ThresholdOf(a) \in Int /\ EvictionThreshold \in Int
         /\ ThresholdOf(a) <= EvictionThreshold
BY OverrideAssumption, BridgeAssumption DEF ThresholdOf

\* A sweep drops whatever is stale by a lower threshold as well.
LEMMA SweepIsClean ==
  ASSUME NEW a \in Adapters, NEW table, IsTable(table), Clean(table, a),
         NEW threshold \in Int, ThresholdOf(a) <= threshold
  PROVE  /\ Clean(EvictStale(table, threshold), a)
         /\ ~EvictStale(table, threshold).needsEviction
<1>1. ASSUME NEW k \in DOMAIN table.store,
             IsEvictable(Policy, table.store[k].salience, table.store[k].age, ThresholdOf(a))
      PROVE  IsEvictable(Policy, table.store[k].salience, table.store[k].age, threshold)
  <2> DEFINE worth == DecayedSalience(Policy, table.store[k].salience, table.store[k].age)
  <2>1. table.store[k].salience \in Int /\ table.store[k].age \in Int
    BY DEF IsTable, IsContents, Payload
  <2>2. worth.num \in Int /\ worth.den \in Nat \ {0}
    BY <2>1, PolicyAssumption, DecayedIsFraction
  <2>3. Below(worth, ThresholdOf(a))
    BY <1>1 DEF IsEvictable
  <2> HIDE DEF worth
  <2>4. \A x, y \in Int, d \in Nat : x <= y => x * d <= y * d /\ x * d \in Int /\ y * d \in Int
    OBVIOUS
  <2>5. Below(worth, threshold)
    BY <2>2, <2>3, <2>4, OwnIsLower DEF Below
  <2> QED
    BY <2>5 DEF IsEvictable, worth
<1>2. Stale(table.store, ThresholdOf(a)) \subseteq Stale(table.store, threshold)
  BY <1>1 DEF Stale
<1>3. CASE table.needsEviction
  <2>1. EvictStale(table, threshold)
          = [store |-> Without(table.store, Stale(table.store, threshold)), needsEviction |-> FALSE]
    BY <1>3 DEF EvictStale
  <2>2. Stale(Without(table.store, Stale(table.store, threshold)), ThresholdOf(a)) = {}
    BY <1>2 DEF Stale, Without, Restrict
  <2> QED
    BY <2>1, <2>2 DEF Clean
<1>4. CASE ~table.needsEviction
  BY <1>4 DEF EvictStale
<1> QED
  BY <1>3, <1>4

\* A mount, and a change of the table that leaves it clean.
LEMMA MountIsClean ==
  ASSUME NEW st, SoundSt(st), CleanIsLive(st), NEW a \in Adapters, NEW m \in Mount(st, a)
  PROVE  CleanIsLive(m.st)
<1>1. Carried(st, m.st, a)
  BY MountEffect
<1>2. Load(st.disk[a]).needsEviction
  BY DEF Load
<1> QED
  BY <1>1, <1>2 DEF CleanIsLive, Carried, Clean

\* Putting a clean table in the place of another keeps all of them clean.
LEMMA ChangeIsClean ==
  ASSUME NEW st, SoundSt(st), CleanIsLive(st), NEW a \in DOMAIN st.tables,
         NEW table, Clean(table, a)
  PROVE  CleanIsLive([st EXCEPT !.tables[a] = table])
<1> DEFINE t == [st EXCEPT !.tables[a] = table]
<1>1. DOMAIN t.tables = DOMAIN st.tables /\ \A b \in DOMAIN t.tables :
        t.tables[b] = IF b = a THEN table ELSE st.tables[b]
  BY DEF SoundSt
<1> HIDE DEF t
<1>2. CleanIsLive(t)
  BY <1>1 DEF CleanIsLive
<1> QED
  BY <1>2 DEF t

\* What ends a call that sweeps: the mount raised, or the table is clean.
LEMMA SweptIsClean ==
  ASSUME NEW st, SoundSt(st), CleanIsLive(st), NEW a \in Adapters, NEW m \in Mount(st, a),
         NEW threshold \in Int, ThresholdOf(a) <= threshold,
         NEW t, t = IF m.ok THEN SweptIn(m.st, a, threshold) ELSE m.st
  PROVE  CleanIsLive(t)
<1>1. SoundSt(m.st) /\ CleanIsLive(m.st) /\ (m.ok => a \in DOMAIN m.st.tables)
  BY MountEffect, MountIsClean
<1>2. CASE m.ok
  <2>1. IsTable(m.st.tables[a]) /\ Clean(m.st.tables[a], a)
    BY <1>1, <1>2 DEF SoundSt, CleanIsLive
  <2>2. Clean(EvictStale(m.st.tables[a], threshold), a)
    BY <2>1, SweepIsClean
  <2> QED
    BY <1>1, <1>2, <2>2, ChangeIsClean DEF SweptIn
<1> QED
  BY <1>1, <1>2

\* What is committed is what is there next.
LEMMA CommitIsClean ==
  ASSUME NEW st, CleanIsLive(st), Commit(st)
  PROVE  CleanIsLive(St)'
BY DEF Commit, CleanIsLive, St

\* A call of a tick's loops: the table is ticked, which raises its flag, or
\* swept with the threshold of its adapter.
LEMMA VisitIsClean ==
  ASSUME TimeInv, ~raced, CleanIsLive(St), NEW t \in Threads, Visit(t)
  PROVE  CleanIsLive(St)'
<1> DEFINE q == query[t]
           a == Named(q)
<1>1. q \in TickQuery /\ q.calls < 2 * Len(q.names)
  BY DEF Visit, TimeInv, ClockOK, Queries, TickQuery
<1>2. a \in Adapters /\ q.steps \in Nat \ {0}
  BY <1>1, NamedIsListed DEF TickQuery, Named, Turn
<1>3. CASE q.calls < Len(q.names)
  <2>1. PICK o \in Ticks(St, a, q.steps) : Commit(o.st)
    BY <1>3 DEF Visit, Ticks, Disturbed
  <2>2. PICK m \in Mount(St, a) : o.st = IF m.ok THEN TickedIn(m.st, a, q.steps) ELSE m.st
    BY TickOutcome
  <2>3. SoundSt(m.st) /\ CleanIsLive(m.st) /\ (m.ok => a \in DOMAIN m.st.tables)
    BY <1>2, MountEffect, MountIsClean DEF TimeInv
  <2>4. Clean(Tick(m.st.tables[a], q.steps), a)
    BY <1>2 DEF Clean, Tick
  <2> HIDE DEF a, q
  <2>5. CleanIsLive(o.st)
    BY <2>2, <2>3, <2>4, ChangeIsClean DEF TickedIn
  <2> QED
    BY <2>1, <2>5, CommitIsClean
<1>4. CASE ~(q.calls < Len(q.names))
  <2>1. PICK o \in Sweeps(St, a, ThresholdOf(a)) : Commit(o.st)
    BY <1>4 DEF Visit, Sweeps, Disturbed
  <2>2. PICK m \in Mount(St, a) : o.st = IF m.ok THEN SweptIn(m.st, a, ThresholdOf(a)) ELSE m.st
    BY SweepOutcome
  <2>3. CleanIsLive(o.st)
    BY <1>2, <2>2, OwnIsLower, SweptIsClean DEF TimeInv
  <2> QED
    BY <2>1, <2>3, CommitIsClean
<1> QED
  BY <1>3, <1>4

\* An answer sweeps with the default threshold, which is no lower.
LEMMA AnswerIsClean ==
  ASSUME TimeInv, ~raced, CleanIsLive(St), NEW t, NEW a \in Adapters, Answer(t, a)
  PROVE  CleanIsLive(St)'
<1>0. PICK k \in Keys : \E o \in HandleTrigger(St, a, k) : Commit(o.st)
  BY DEF Answer, Disturbed
<1>1. PICK o \in HandleTrigger(St, a, k) : Commit(o.st)
  BY <1>0
<1>2. PICK m \in Mount(St, a) : o.st = IF m.ok THEN SweptIn(m.st, a, EvictionThreshold) ELSE m.st
  BY TriggerOutcome
<1>3. CleanIsLive(o.st)
  BY <1>2, OwnIsLower, SweptIsClean DEF TimeInv
<1> QED
  BY <1>1, <1>3, CommitIsClean

\* A write raises the flag.
LEMMA WriteIsClean ==
  ASSUME TimeInv, CleanIsLive(St), NEW a \in Adapters, NEW k \in Keys, NEW p \in Payloads,
         Write(a, k, p)
  PROVE  CleanIsLive(St)'
<1> DEFINE fresh == Stored(a, p)
<1>1. PICK m \in Mount(St, a) :
        \/ m.ok /\ Commit([m.st EXCEPT !.tables[a] = Put(m.st.tables[a], k, fresh)])
        \/ ~m.ok /\ Commit(m.st) /\ ret' = Raised
  BY DEF Write, PostMemory, WriteMemory, OnTable, Stored
<1> HIDE DEF fresh
<1>2. SoundSt(m.st) /\ CleanIsLive(m.st) /\ (m.ok => a \in DOMAIN m.st.tables)
  BY MountEffect, MountIsClean DEF TimeInv
<1>3. Clean(Put(m.st.tables[a], k, fresh), a)
  BY DEF Clean, Put
<1>4. m.ok => CleanIsLive([m.st EXCEPT !.tables[a] = Put(m.st.tables[a], k, fresh)])
  BY <1>2, <1>3, ChangeIsClean
<1> QED
  BY <1>1, <1>2, <1>4, CommitIsClean

\* As long as no requests overlap, no step leaves a clear flag on a table
\* that needs a sweep.
Live == ~raced => CleanIsLive(St)

LEMMA CleanSound == TimeSpec => []Live
<1>1. TimeInit => Live
  BY DEF TimeInit, ApiInit, Init, CleanIsLive, St, Live
<1>2. TimeInv /\ Live /\ [TimeNext]_timeVars => Live'
  <2> SUFFICES ASSUME TimeInv, Live, [TimeNext]_timeVars, ~raced' PROVE CleanIsLive(St)'
    BY DEF Live
  <2>1. ASSUME UNCHANGED <<tables, raced>> PROVE CleanIsLive(St)'
    BY <2>1 DEF CleanIsLive, St, Live
  <2>2. CASE TimedPass
    BY <2>1, <2>2 DEF TimedPass, Pass, vars
  <2>3. CASE TimedRestart
    BY <2>3 DEF TimedRestart, Restart, Crash, CleanIsLive, St
  <2>4. ASSUME NEW a \in Adapters, NEW k \in Keys, NEW p \in Payloads, Write(a, k, p)
        PROVE  CleanIsLive(St)'
    <3>1. ~raced
      BY <2>4 DEF Write
    <3> QED
      BY <2>4, <3>1, WriteIsClean DEF Live
  <2>5. ASSUME NEW t \in Threads, Arrive(t) PROVE CleanIsLive(St)'
    <3>1. ~raced /\ UNCHANGED tables
      BY <2>5 DEF Arrive, vars
    <3> QED
      BY <3>1 DEF CleanIsLive, St, Live
  <2>6. ASSUME NEW t \in Threads, Compare(t) \/ Reset(t) PROVE CleanIsLive(St)'
    BY <2>1, <2>6 DEF Compare, Reset, vars
  <2>7. ASSUME NEW t \in Threads, Visit(t) \/ \E a \in Adapters : Answer(t, a)
        PROVE  CleanIsLive(St)'
    <3>1. (Visit(t) => raced' = raced) /\ \A a : Answer(t, a) => raced' = raced
      BY DEF Visit, Answer
    <3>2. ~raced /\ CleanIsLive(St)
      BY <2>7, <3>1 DEF Live
    <3> QED
      BY <2>7, <3>2, VisitIsClean, AnswerIsClean
  <2>8. CASE UNCHANGED timeVars
    BY <2>1, <2>8 DEF timeVars
  <2> QED
    BY <2>2, <2>3, <2>4, <2>5, <2>6, <2>7, <2>8 DEF TimeNext, Serve
<1> QED
  BY <1>1, <1>2, TimeSound, PTL DEF TimeSpec

\* A query that returned has mounted its table and swept it.
LEMMA TriggerReturned ==
  ASSUME NEW st, NEW a, NEW hash, NEW o \in HandleTrigger(st, a, hash), o.ok
  PROVE  \E m \in Mount(st, a) : m.ok /\ o.st = SweptIn(m.st, a, EvictionThreshold)
<1>1. \A s, memories, hit : \A x \in Respond(s, memories, hit) : x.st = s
  BY DEF Respond, Answers, Raises
<1>2. PICK swept \in Sweeps(st, a, EvictionThreshold) : swept.ok /\ o.st = swept.st
  <2>1. \E swept \in Swept(st, a) : swept.ok /\ \E memories, hit : o \in Respond(swept.st, memories, hit)
    BY DEF HandleTrigger, AndThen
  <2> QED
    BY <1>1, <2>1 DEF Swept, Sweeps
<1>3. \/ swept \in Mount(st, a) /\ ~swept.ok
      \/ \E m \in Mount(st, a) : m.ok /\ swept = Returns(SweptIn(m.st, a, EvictionThreshold))
  BY DEF Sweeps, Mounted, AndThen, InTable, SweptIn
<1>4. \A s : Returns(s).st = s
  BY DEF Returns
<1> QED
  BY <1>2, <1>3, <1>4

\* The adapter mounted is the one used last.
LEMMA MountedIsLast ==
  ASSUME NEW st, SoundSt(st), NEW a \in Adapters, NEW m \in Mount(st, a), m.ok
  PROVE  m.st.order # <<>> /\ m.st.order[Len(m.st.order)] = a
<1>1. \E s \in Seq(Adapters) : m.st.order = Append(s, a)
  <2>1. ASSUME NEW before, SoundSt(before), NEW o \in LoadTable(before, a), o.ok
        PROVE  \E s \in Seq(Adapters) : o.st.order = Append(s, a)
    <3>1. o.st.order = Append(before.order, a)
      <4> DEFINE loaded == [b \in DOMAIN before.tables \cup {a} |->
                              IF b = a THEN Load(before.disk[a]) ELSE before.tables[b]]
                 after == [before EXCEPT !.order = Append(@, a), !.tables = loaded]
      <4>1. o = [st |-> after, ok |-> TRUE] \/ o = [st |-> before, ok |-> FALSE]
        BY <2>1 DEF LoadTable, Returns, Raises
      <4>2. after.order = Append(before.order, a)
        BY <2>1 DEF SoundSt
      <4> HIDE DEF after
      <4> QED
        BY <2>1, <4>1, <4>2
    <3> QED
      BY <2>1, <3>1, SoundStFacts
  <2>2. CASE a \in DOMAIN st.tables
    <3>1. m.st.order = Append(RemoveFirst(st.order, a), a)
      BY <2>2 DEF Mount, Returns, Touch, SoundSt
    <3>2. Lists(RemoveFirst(st.order, a), DOMAIN st.tables \ {a})
      BY <2>2, ListsRemove DEF SoundSt
    <3>3. RemoveFirst(st.order, a) \in Seq(DOMAIN st.tables) /\ DOMAIN st.tables \subseteq Adapters
      BY <3>2, SoundStFacts DEF Lists
    <3>4. RemoveFirst(st.order, a) \in Seq(Adapters)
      BY <3>3
    <3> QED
      BY <3>1, <3>4
  <2>3. CASE a \notin DOMAIN st.tables /\ ~(Len(st.order) >= MaxLoaded)
    BY <2>1, <2>3 DEF Mount
  <2>4. CASE a \notin DOMAIN st.tables /\ Len(st.order) >= MaxLoaded
    <3>1. Head(st.order) \in DOMAIN st.tables
      BY <2>4, SoundStFacts, MaxLoadedAssumption
    <3>2. \E o \in EvictLru(st) : o.ok /\ m \in LoadTable(o.st, a)
      BY <2>4 DEF Mount, AndThen
    <3>3. \A o \in EvictLru(st) : SoundSt(o.st)
      BY <3>1, DropAndSaveEffect DEF EvictLru
    <3> QED
      BY <2>1, <3>2, <3>3
  <2> QED
    BY <2>2, <2>3, <2>4
<1>2. PICK s \in Seq(Adapters) : m.st.order = Append(s, a)
  BY <1>1
<1> QED
  BY <1>2, AppendProperties

\* A query that is answered leaves the flag of its own table clear.
LEMMA AnsweredIsClear ==
  ASSUME TimeInv, ~raced, NEW t, NEW a, NEW b \in Adapters, Answer(t, b), Answered(t, a)
  PROVE  ~tables'[a].needsEviction
<1>1. PICK k \in Keys : \E o \in HandleTrigger(St, b, k) :
        Commit(o.st) /\ ret' = IF o.ok THEN Done ELSE Raised
  BY DEF Answer, Disturbed
<1>2. PICK o \in HandleTrigger(St, b, k) : Commit(o.st) /\ ret' = IF o.ok THEN Done ELSE Raised
  BY <1>1
<1>3. o.ok
  BY <1>2, ResultAssumption DEF Answered
<1>4. PICK m \in Mount(St, b) : m.ok /\ o.st = SweptIn(m.st, b, EvictionThreshold)
  BY <1>3, TriggerReturned
<1>5. SoundSt(m.st) /\ b \in DOMAIN m.st.tables
  BY <1>4, MountEffect DEF TimeInv
<1>6. /\ o.st.order = m.st.order
      /\ o.st.tables[b] = EvictStale(m.st.tables[b], EvictionThreshold)
  BY <1>4, <1>5 DEF SweptIn, SoundSt
<1>7. a = b
  BY <1>2, <1>4, <1>6, MountedIsLast DEF Commit, Answered, TimeInv
<1>8. ~EvictStale(m.st.tables[b], EvictionThreshold).needsEviction
  BY DEF EvictStale
<1> QED
  BY <1>2, <1>6, <1>7, <1>8 DEF Commit

\* As long as no two requests overlap, and however low the threshold was
\* that cleared a flag last, an answer is taken from a table in which nothing
\* is stale by the adapter's own threshold.
THEOREM FoundIsLive == TimeSpec => FindsNothingStale
<1> DEFINE Finds == ~raced => \A t \in Serving, a \in DOMAIN tables' :
                      Answered(t, a) => Stale(tables'[a].store, ThresholdOf(a)) = {}
<1>1. ASSUME TimeInv, Live', TimeNext, ~raced, NEW t \in Serving, NEW a \in DOMAIN tables', Answered(t, a)
      PROVE  Stale(tables'[a].store, ThresholdOf(a)) = {}
  <2>1. PICK b \in Adapters : Answer(t, b)
    BY <1>1, OnlyAnswersAnswer
  <2>2. ~tables'[a].needsEviction
    BY <1>1, <2>1, AnsweredIsClear
  <2>3. CleanIsLive(St)'
    BY <1>1, <2>1 DEF Answer, Live
  <2> QED
    BY <2>2, <2>3 DEF CleanIsLive, Clean, St
<1>2. TimeInv /\ Live' /\ [TimeNext]_timeVars => [Finds]_timeVars
  BY <1>1
<1> QED
  BY <1>2, CleanSound, TimeSound, PTL DEF TimeSpec, FindsNothingStale

----------------------------------------------------------------------------
(* No time is counted too often.  A unit of time (u stands for the one     *)
(* that ends when the clock shows u) is counted by a query that ticks and  *)
(* has it among its steps.  For that the query must compare its clock      *)
(* while the last tick lies before u; the reset after it brings the last   *)
(* tick behind u; and only a query that looked at the clock before u can   *)
(* set it back, once.  So between two such resets each thread that does    *)
(* not serve one of these old queries counts u once at the most.           *)

N == Cardinality(Threads)

\* The steps of a query count u.
Covers(q, u) == q.now - q.steps * Interval < u /\ u <= q.now

\* The query a thread serves, or none, may still set the clock back to
\* before u.
Lags(q, u) == q # Free /\ q.at # "handle" /\ q.now < u

\* The next reset aside, the thread may make the memories of a count u once:
\* by a tick under way that has still to come to them, or by comparing.
MayCount(q, last, a, u) ==
  IF q # Free /\ q.at = "tick" THEN a \notin Ticked(q) /\ Covers(q, u)
                               ELSE last < u /\ ~Lags(q, u)

Lagging(qs, u) == {t \in Threads : Lags(qs[t], u)}
Counting(qs, last, a, u) == {t \in Threads : MayCount(qs[t], last, a, u)}

\* The resets to before u that m lagging queries make open u to one more
\* thread each: twice as many counts as can come of that.
Reopened(m) == m * (2 * N - m + 1)

\* u was counted n times, and what may come does not exceed the bound.
Room(n, counting, lagging) ==
  2 * n + 2 * Cardinality(counting) + Reopened(Cardinality(lagging)) <= N * (N + 1)

\* s tells how much of the time up to each moment memories of a may have
\* counted: it starts with nothing, and has room for each unit.
Ledger(qs, last, now, s, a) ==
  /\ s \in [0..now -> Nat] /\ s[0] = 0
  /\ \A u \in 1..now : Room(s[u] - s[u - 1], Counting(qs, last, a, u), Lagging(qs, u))

\* Some ledger covers the memories of each adapter.
CoveredBy(qs, last, now, st) ==
  \A a \in Adapters : \E s : Ledger(qs, last, now, s, a) /\ Within(st, a, s[now])

Covered == CoveredBy(query, LastTick, clock, St)

\* A list names each adapter once, and its steps are not more than the time.
ListsOK ==
  \A t \in Serving : query[t].at = "tick" =>
    Distinct(query[t].names) /\ query[t].steps * Interval <= query[t].now

----------------------------------------------------------------------------

\* The threads are as many as a number says.
LEMMA ThreadsAreCounted ==
  /\ N \in Nat
  /\ \A S \in SUBSET Threads : IsFiniteSet(S) /\ Cardinality(S) \in 0..N
  /\ \A S, T \in SUBSET Threads : S \subseteq T => Cardinality(S) <= Cardinality(T)
  /\ \A S \in SUBSET Threads : Cardinality(Threads \ S) = N - Cardinality(S)
<1>1. N \in Nat
  BY PoolAssumption, FS_CardinalityType DEF N
<1>2. \A S \in SUBSET Threads : IsFiniteSet(S) /\ Cardinality(S) \in Nat /\ Cardinality(S) <= N
  BY PoolAssumption, FS_Subset, FS_CardinalityType DEF N
<1>3. \A S, T \in SUBSET Threads : S \subseteq T => Cardinality(S) <= Cardinality(T)
  BY <1>2, FS_Subset
<1>4. ASSUME NEW S \in SUBSET Threads PROVE Cardinality(Threads \ S) = N - Cardinality(S)
  <2>1. Cardinality(Threads \ S) = N - Cardinality(Threads \cap S)
    BY PoolAssumption, FS_Difference DEF N
  <2>2. Threads \cap S = S
    OBVIOUS
  <2> QED
    BY <2>1, <2>2
<1> QED
  BY <1>1, <1>2, <1>3, <1>4

\* What lagging queries may reopen, and what closes when one of them does.
LEMMA ReopenedCounts ==
  ASSUME NEW m \in 0..N
  PROVE  /\ Reopened(m) \in Nat
         /\ 2 * (N - m) + Reopened(m) <= N * (N + 1)
         /\ m > 0 => Reopened(m - 1) + 2 * (N - (m - 1)) = Reopened(m)
<1>1. N \in Nat /\ m \in Nat /\ m <= N
  BY ThreadsAreCounted
<1> PICK f \in Nat : f = N - m
  BY <1>1
<1>2. \A x, y \in Nat : x * y \in Nat
  OBVIOUS
<1>3. Reopened(m) = m * (2 * N - m + 1) /\ 2 * N - m + 1 \in Nat
  BY <1>1 DEF Reopened
<1>4. Reopened(m) \in Nat
  BY <1>1, <1>2, <1>3
<1>5. f <= f * f
  <2>1. CASE f = 0
    BY <2>1
  <2>2. CASE f >= 1
    BY <2>2
  <2> QED
    BY <2>1, <2>2
<1>6. \A x, y \in Int : 2 * x + y * (2 * x + y + 1) + (x * x - x) = (x + y) * (x + y + 1)
  OBVIOUS
<1>7. 2 * N - m + 1 = 2 * f + m + 1 /\ N = f + m
  BY <1>1
<1>8. 2 * f + m * (2 * f + m + 1) + (f * f - f) = N * (N + 1)
  BY <1>1, <1>6, <1>7
<1>9. f * f \in Nat /\ m * (2 * f + m + 1) \in Nat /\ N * (N + 1) \in Nat
  BY <1>1, <1>2
<1>10. 2 * f + m * (2 * f + m + 1) <= N * (N + 1)
  BY <1>5, <1>8, <1>9
<1>11. 2 * (N - m) + Reopened(m) <= N * (N + 1)
  BY <1>1, <1>3, <1>7, <1>10
<1>12. \A x, y \in Int : (x - 1) * (2 * y - (x - 1) + 1) + 2 * (y - (x - 1)) = x * (2 * y - x + 1)
  OBVIOUS
<1>13. Reopened(m - 1) + 2 * (N - (m - 1)) = Reopened(m)
  BY <1>1, <1>12 DEF Reopened
<1> QED
  BY <1>4, <1>11, <1>13

\* A thread that may count u does not lag behind u.
LEMMA CountingOrLagging ==
  ASSUME NEW qs \in [Threads -> Queries \cup {Free}], NEW last \in Int, NEW a, NEW u \in Int
  PROVE  /\ Lagging(qs, u) \subseteq Threads
         /\ Counting(qs, last, a, u) \subseteq Threads \ Lagging(qs, u)
<1> SUFFICES ASSUME NEW t \in Threads, MayCount(qs[t], last, a, u), Lags(qs[t], u) PROVE FALSE
  BY DEF Lagging, Counting
<1>1. qs[t] # Free /\ qs[t].at = "tick"
  BY DEF MayCount, Lags
<1>2. qs[t].now \in Nat /\ u <= qs[t].now
  BY <1>1 DEF MayCount, Covers, Queries, TickQuery
<1> QED
  BY <1>2 DEF Lags

\* A unit that was never counted has room.
LEMMA UncountedRoom ==
  ASSUME NEW qs \in [Threads -> Queries \cup {Free}], NEW last \in Int, NEW a, NEW u \in Int
  PROVE  Room(0, Counting(qs, last, a, u), Lagging(qs, u))
<1> PICK c, l : c = Counting(qs, last, a, u) /\ l = Lagging(qs, u)
  OBVIOUS
<1>1. l \subseteq Threads /\ c \subseteq Threads \ l
  BY CountingOrLagging
<1>2. Cardinality(l) \in 0..N /\ Cardinality(c) \in 0..N /\ Cardinality(c) <= N - Cardinality(l) /\ N \in Nat
  <2>1. Threads \ l \in SUBSET Threads /\ c \in SUBSET Threads /\ l \in SUBSET Threads
    BY <1>1
  <2> QED
    BY <1>1, <2>1, ThreadsAreCounted
<1>3. /\ Reopened(Cardinality(l)) \in Nat
      /\ 2 * (N - Cardinality(l)) + Reopened(Cardinality(l)) <= N * (N + 1)
  BY <1>2, ReopenedCounts
<1>4. N * (N + 1) \in Nat
  BY <1>2
<1> QED
  BY <1>2, <1>3, <1>4 DEF Room

\* A lagging query that lags no more makes room for what it reopens.
LEMMA LaggedRoom ==
  ASSUME NEW n \in Int, NEW c \in SUBSET Threads, NEW l \in SUBSET Threads, Room(n, c, l),
         NEW t \in l, NEW d \in SUBSET Threads, d \subseteq Threads \ (l \ {t})
  PROVE  Room(n, d, l \ {t})
<1> PICK k : k = l \ {t}
  OBVIOUS
<1>1. /\ Cardinality(l) \in 0..N /\ Cardinality(c) \in 0..N /\ Cardinality(d) \in 0..N /\ N \in Nat
      /\ Cardinality(k) \in 0..N /\ Cardinality(d) <= N - Cardinality(k) /\ IsFiniteSet(l)
  <2>1. k \in SUBSET Threads /\ Threads \ k \in SUBSET Threads
    OBVIOUS
  <2> QED
    BY <2>1, ThreadsAreCounted
<1>2. Cardinality(k) = Cardinality(l) - 1
  BY <1>1, FS_RemoveElement
<1>3. /\ Reopened(Cardinality(l)) \in Nat
      /\ Reopened(Cardinality(l) - 1) + 2 * (N - (Cardinality(l) - 1)) = Reopened(Cardinality(l))
  BY <1>1, <1>2, ReopenedCounts
<1>4. Reopened(Cardinality(k)) \in Nat /\ N * (N + 1) \in Nat
  BY <1>1, ReopenedCounts
<1> QED
  BY <1>1, <1>2, <1>3, <1>4 DEF Room

\* Fewer that may count leave the room there is, and one that did count is
\* one less.
LEMMA CountedRoom ==
  ASSUME NEW n \in Int, NEW c \in SUBSET Threads, NEW l \in SUBSET Threads, Room(n, c, l),
         NEW d \in SUBSET c
  PROVE  /\ Room(n, d, l)
         /\ \A t \in c \ d : Room(n + 1, d, l)
<1>1. /\ Cardinality(l) \in 0..N /\ Cardinality(c) \in 0..N /\ Cardinality(d) \in 0..N /\ N \in Nat
      /\ Cardinality(d) <= Cardinality(c) /\ IsFiniteSet(c)
  <2>1. d \in SUBSET Threads
    OBVIOUS
  <2> QED
    BY <2>1, ThreadsAreCounted
<1>2. Reopened(Cardinality(l)) \in Nat /\ N * (N + 1) \in Nat
  BY <1>1, ReopenedCounts
<1>3. ASSUME NEW t \in c \ d PROVE Cardinality(d) <= Cardinality(c) - 1
  <2> PICK e : e = c \ {t}
    OBVIOUS
  <2>1. Cardinality(e) = Cardinality(c) - 1
    BY <1>1, FS_RemoveElement
  <2>2. d \in SUBSET Threads /\ e \in SUBSET Threads /\ d \subseteq e
    OBVIOUS
  <2> QED
    BY <2>1, <2>2, ThreadsAreCounted
<1>4. Room(n, d, l)
  BY <1>1, <1>2 DEF Room
<1>5. ASSUME NEW t \in c \ d PROVE Room(n + 1, d, l)
  BY <1>1, <1>2, <1>3 DEF Room
<1> QED
  BY <1>4, <1>5

----------------------------------------------------------------------------
(* The steps keep a ledger. *)

\* Each step moves one query, and lets no thread count more than it might
\* have, or else the query lags no more.
LEMMA LedgerStays ==
  ASSUME NEW qs \in [Threads -> Queries \cup {Free}], NEW rs \in [Threads -> Queries \cup {Free}],
         NEW t \in Threads, \A v \in Threads \ {t} : rs[v] = qs[v],
         NEW last \in Int, NEW next \in Int, NEW now \in Nat, NEW s, NEW a, Ledger(qs, last, now, s, a),
         \A u \in 1..now :
           \/ Lags(qs[t], u) /\ ~Lags(rs[t], u)
           \/ /\ Lags(rs[t], u) <=> Lags(qs[t], u)
              /\ \A v \in Threads : MayCount(rs[v], next, a, u) => MayCount(qs[v], last, a, u)
  PROVE  Ledger(rs, next, now, s, a)
<1> SUFFICES ASSUME NEW u \in 1..now
             PROVE  Room(s[u] - s[u - 1], Counting(rs, next, a, u), Lagging(rs, u))
  BY DEF Ledger
<1> PICK c, d, l, k : /\ c = Counting(qs, last, a, u) /\ d = Counting(rs, next, a, u)
                      /\ l = Lagging(qs, u) /\ k = Lagging(rs, u)
  OBVIOUS
<1>1. /\ c \in SUBSET Threads /\ d \in SUBSET Threads /\ l \in SUBSET Threads
      /\ d \subseteq Threads \ k
  <2>1. c \in SUBSET Threads /\ d \in SUBSET Threads /\ l \in SUBSET Threads
    BY DEF Counting, Lagging
  <2>2. u \in Int
    OBVIOUS
  <2>3. Counting(rs, next, a, u) \subseteq Threads \ Lagging(rs, u)
    BY <2>2, CountingOrLagging
  <2> QED
    BY <2>1, <2>3
<1>2. s[u] - s[u - 1] \in Int /\ Room(s[u] - s[u - 1], c, l)
  <2>1. u - 1 \in 0..now /\ u \in 0..now
    OBVIOUS
  <2> QED
    BY <2>1 DEF Ledger
<1>3. CASE Lags(qs[t], u) /\ ~Lags(rs[t], u)
  <2>1. t \in l /\ k = l \ {t}
    BY <1>3 DEF Lagging
  <2> QED
    BY <1>1, <1>2, <2>1, LaggedRoom
<1>4. CASE /\ Lags(rs[t], u) <=> Lags(qs[t], u)
           /\ \A v \in Threads : MayCount(rs[v], next, a, u) => MayCount(qs[v], last, a, u)
  <2>1. k = l /\ d \in SUBSET c
    BY <1>4 DEF Lagging, Counting
  <2> QED
    BY <1>1, <1>2, <2>1, CountedRoom
<1> QED
  BY <1>3, <1>4

\* The query of a thread comes to the memories of a, with steps that last
\* this long.
Reaches(qs, rs, t, a, length) ==
  /\ qs[t] \in TickQuery /\ rs[t] \in TickQuery /\ rs[t].now = qs[t].now /\ rs[t].steps = qs[t].steps
  /\ a \notin Ticked(qs[t]) /\ Ticked(rs[t]) = Ticked(qs[t]) \cup {a}
  /\ length = qs[t].steps * Interval /\ length <= qs[t].now
  /\ \A v \in Threads \ {t} : rs[v] = qs[v]

\* For that time it counts; it was open to the thread, and is not any more.
LEMMA LedgerCounts ==
  ASSUME NEW qs \in [Threads -> Queries \cup {Free}], NEW rs \in [Threads -> Queries \cup {Free}],
         NEW last \in Int, NEW now \in Nat, NEW s, NEW a, Ledger(qs, last, now, s, a),
         NEW t \in Threads, NEW length, Reaches(qs, rs, t, a, length), qs[t].now <= now
  PROVE  \E z : Ledger(rs, last, now, z, a) /\ z[now] = s[now] + length
<1> PICK q, p : q = qs[t] /\ p = rs[t]
  OBVIOUS
<1>0. /\ q \in TickQuery /\ p \in TickQuery /\ q # Free /\ p # Free
      /\ p.now = q.now /\ p.steps = q.steps /\ a \notin Ticked(q) /\ Ticked(p) = Ticked(q) \cup {a}
      /\ length = q.steps * Interval /\ length <= q.now /\ q.now <= now
      /\ \A v \in Threads \ {t} : rs[v] = qs[v]
  BY FreeAssumption DEF Reaches, Queries
<1> PICK hi, lo : hi = q.now /\ lo = hi - length
  OBVIOUS
<1>1. hi \in Nat /\ length \in Nat /\ lo \in Nat /\ lo <= hi /\ hi <= now
  BY <1>0, IntervalAssumption DEF TickQuery
<1>2. \A u \in Int : Covers(q, u) <=> lo < u /\ u <= hi
  BY <1>0 DEF Covers
<1>3. \A u : Covers(p, u) <=> Covers(q, u)
  BY <1>0 DEF Covers
<1> DEFINE gained(u) == IF u <= lo THEN 0 ELSE IF u <= hi THEN u - lo ELSE hi - lo
           z == [u \in 0..now |-> s[u] + gained(u)]
<1>4. gained(0) = 0 /\ gained(now) = length /\ \A u \in 0..now : gained(u) \in Nat
  BY <1>1
<1>5. \A u \in 1..now : gained(u) = gained(u - 1) + IF Covers(q, u) THEN 1 ELSE 0
  BY <1>1, <1>2
<1> HIDE DEF gained
<1>6. z \in [0..now -> Nat] /\ z[0] = 0 /\ z[now] = s[now] + length
  BY <1>4 DEF Ledger
<1>7. ASSUME NEW u \in 1..now PROVE Room(z[u] - z[u - 1], Counting(rs, last, a, u), Lagging(rs, u))
  <2>1. u \in 0..now /\ u - 1 \in 0..now /\ s[u] \in Nat /\ s[u - 1] \in Nat
    BY DEF Ledger
  <2>2. z[u] - z[u - 1] = (s[u] - s[u - 1]) + IF Covers(q, u) THEN 1 ELSE 0
    BY <1>4, <1>5, <2>1
  <2> HIDE DEF z
  <2> PICK n, c, d, l : /\ n = s[u] - s[u - 1] /\ c = Counting(qs, last, a, u) /\ d = Counting(rs, last, a, u)
                        /\ l = Lagging(qs, u)
    OBVIOUS
  <2>3. n \in Int /\ c \in SUBSET Threads /\ l \in SUBSET Threads /\ Room(n, c, l)
    <3>1. c \in SUBSET Threads /\ l \in SUBSET Threads
      BY DEF Counting, Lagging
    <3>2. Room(n, c, l)
      BY DEF Ledger
    <3> QED
      BY <2>1, <3>1, <3>2
  <2>4. q.at = "tick" /\ p.at = "tick"
    BY <1>0 DEF TickQuery
  <2>5. Lagging(rs, u) = l
    BY <1>0, <2>4 DEF Lagging, Lags
  <2>6. d \in SUBSET c /\ t \notin d /\ (Covers(q, u) => t \in c)
    BY <1>0, <2>4 DEF Counting, MayCount
  <2>7. CASE Covers(q, u)
    BY <2>2, <2>3, <2>5, <2>6, <2>7, CountedRoom
  <2>8. CASE ~Covers(q, u)
    <3>1. z[u] - z[u - 1] = n
      BY <2>1, <2>2, <2>8
    <3>2. Room(n, d, l)
      BY <2>3, <2>6, CountedRoom
    <3> QED
      BY <2>5, <3>1, <3>2
  <2> QED
    BY <2>7, <2>8
<1>8. Ledger(rs, last, now, z, a)
  BY <1>6, <1>7 DEF Ledger
<1> QED
  BY <1>6, <1>8

\* Time that passes opens a unit that nobody has counted.
LEMMA LedgerOpens ==
  ASSUME NEW qs \in [Threads -> Queries \cup {Free}], NEW last \in Int, NEW now \in Nat,
         NEW s, NEW a, Ledger(qs, last, now, s, a)
  PROVE  \E z : Ledger(qs, last, now + 1, z, a) /\ z[now + 1] = s[now]
<1> DEFINE z == [u \in 0..(now + 1) |-> IF u = now + 1 THEN s[now] ELSE s[u]]
<1>1. z \in [0..(now + 1) -> Nat] /\ z[0] = 0 /\ z[now + 1] = s[now]
  BY DEF Ledger
<1>2. ASSUME NEW u \in 1..(now + 1)
      PROVE  Room(z[u] - z[u - 1], Counting(qs, last, a, u), Lagging(qs, u))
  <2>1. CASE u = now + 1
    <3>1. z[u] - z[u - 1] = 0
      BY <2>1 DEF Ledger
    <3> QED
      BY <3>1, UncountedRoom
  <2>2. CASE u # now + 1
    <3>1. u \in 1..now /\ z[u] = s[u] /\ z[u - 1] = s[u - 1]
      BY <2>2
    <3> QED
      BY <3>1 DEF Ledger
  <2> QED
    BY <2>1, <2>2
<1> QED
  BY <1>1, <1>2 DEF Ledger

\* A ledger has no more than the bound for each unit of time.
LEMMA LedgerIsBounded ==
  ASSUME NEW qs \in [Threads -> Queries \cup {Free}], NEW last \in Int, NEW now \in Nat,
         NEW s, NEW a, Ledger(qs, last, now, s, a)
  PROVE  s[now] <= now * ((N * (N + 1)) \div 2)
<1> PICK bound : bound = (N * (N + 1)) \div 2
  OBVIOUS
<1>1. N \in Nat
  BY ThreadsAreCounted
<1>2. bound \in Nat /\ 2 * bound = N * (N + 1)
  <2>1. PICK h \in Nat : N = 2 * h \/ N = 2 * h + 1
    <3>1. N \div 2 \in Nat /\ (N = 2 * (N \div 2) \/ N = 2 * (N \div 2) + 1)
      BY <1>1
    <3> QED
      BY <3>1
  <2>2. \A x \in Nat : /\ (2 * x) * (2 * x + 1) = 2 * (x * (2 * x + 1))
                       /\ (2 * x + 1) * (2 * x + 1 + 1) = 2 * ((2 * x + 1) * (x + 1))
                       /\ x * (2 * x + 1) \in Nat /\ (2 * x + 1) * (x + 1) \in Nat
    OBVIOUS
  <2>3. PICK b \in Nat : N * (N + 1) = 2 * b
    BY <2>1, <2>2
  <2>4. (2 * b) \div 2 = b
    BY <2>3
  <2> QED
    BY <2>3, <2>4
<1>3. ASSUME NEW u \in 1..now PROVE s[u] <= s[u - 1] + bound
  <2> PICK c, l : c = Counting(qs, last, a, u) /\ l = Lagging(qs, u)
    OBVIOUS
  <2>1. s[u] \in Nat /\ s[u - 1] \in Nat /\ Room(s[u] - s[u - 1], c, l)
    <3>1. u \in 0..now /\ u - 1 \in 0..now
      OBVIOUS
    <3> QED
      BY <3>1 DEF Ledger
  <2>2. Cardinality(c) \in 0..N /\ Cardinality(l) \in 0..N
    BY ThreadsAreCounted DEF Counting, Lagging
  <2>3. Reopened(Cardinality(l)) \in Nat
    BY <2>2, ReopenedCounts
  <2>4. 2 * (s[u] - s[u - 1]) <= N * (N + 1)
    BY <1>1, <1>2, <2>1, <2>2, <2>3 DEF Room
  <2> QED
    BY <1>2, <2>1, <2>4
<1> DEFINE K == {u \in Nat : u <= now => s[u] <= u * bound}
<1>4. 0 \in K
  BY <1>2 DEF Ledger
<1>5. ASSUME NEW u \in Nat, u \in K PROVE u + 1 \in K
  <2> SUFFICES ASSUME u + 1 <= now PROVE s[u + 1] <= (u + 1) * bound
    OBVIOUS
  <2>1. s[u] <= u * bound /\ s[u + 1] <= s[u] + bound
    <3>1. u + 1 \in 1..now /\ (u + 1) - 1 = u
      OBVIOUS
    <3> QED
      BY <1>3, <1>5, <3>1
  <2>2. (u + 1) * bound = u * bound + bound /\ u * bound \in Nat
    BY <1>2
  <2>3. s[u] \in Nat /\ s[u + 1] \in Nat
    BY DEF Ledger
  <2> QED
    BY <1>2, <2>1, <2>2, <2>3
<1>6. now \in K
  <2> HIDE DEF K
  <2> QED
    BY <1>4, <1>5, Numbers!NatSetInduction
<1> QED
  BY <1>6

----------------------------------------------------------------------------
(* Every step keeps the memories covered. *)

\* What of TimeInv the ledgers rest on.
LEMMA ClockFacts ==
  ASSUME TimeInv
  PROVE  /\ query \in [Threads -> Queries \cup {Free}]
         /\ clock \in Nat /\ LastTick \in Nat /\ LastTick <= clock
         /\ \A t \in Serving : query[t].at # "handle" => query[t].now \in Nat /\ query[t].now <= clock
         /\ \A t \in Serving : query[t].at = "tick" => query[t] \in TickQuery
<1>1. query \in [Threads -> Queries \cup {Free}] /\ clock \in Nat /\ idle \in Nat /\ idle <= clock
  BY DEF TimeInv, ClockOK
<1>2. ASSUME NEW t \in Serving, query[t].at # "handle" PROVE query[t].now \in Nat /\ query[t].now <= clock
  BY <1>2, TheQuery DEF TimeInv, ClockOK, Queries, TickQuery
<1>3. \A t \in Serving : query[t].at = "tick" => query[t] \in TickQuery
  BY TheQuery DEF TimeInv
<1> QED
  BY <1>1, <1>2, <1>3 DEF LastTick

\* A step that moves one query, and makes no memory older than it was or
\* than the clock can be.
LEMMA MoveCovers ==
  ASSUME TimeInv, TimeInv', Covered, clock' = clock,
         \A a \in Adapters, time \in Nat : Within(St, a, time) => Within(St', a, time),
         NEW t \in Threads, \A v \in Threads \ {t} : query'[v] = query[v],
         \A a \in Adapters, u \in 1..clock :
           \/ Lags(query[t], u) /\ ~Lags(query'[t], u)
           \/ /\ Lags(query'[t], u) <=> Lags(query[t], u)
              /\ \A v \in Threads : MayCount(query'[v], LastTick', a, u) => MayCount(query[v], LastTick, a, u)
  PROVE  Covered'
<1> PICK qs, rs, last, next, now : /\ qs = query /\ rs = query' /\ last = LastTick /\ next = LastTick'
                                   /\ now = clock
  OBVIOUS
<1>1. /\ qs \in [Threads -> Queries \cup {Free}] /\ rs \in [Threads -> Queries \cup {Free}]
      /\ last \in Int /\ next \in Int /\ now \in Nat
  <2>1. query \in [Threads -> Queries \cup {Free}] /\ clock \in Nat /\ idle \in Nat
    BY DEF TimeInv, ClockOK
  <2>2. query' \in [Threads -> Queries \cup {Free}] /\ clock' \in Nat /\ idle' \in Nat
    BY DEF TimeInv, ClockOK
  <2> QED
    BY <2>1, <2>2 DEF LastTick
<1>2. ASSUME NEW a \in Adapters
      PROVE  \E s : Ledger(rs, next, now, s, a) /\ Within(St', a, s[now])
  <2>1. PICK s : Ledger(qs, last, now, s, a) /\ Within(St, a, s[now])
    BY DEF Covered, CoveredBy
  <2>2. Ledger(rs, next, now, s, a)
    BY <1>1, <2>1, LedgerStays
  <2>3. s[now] \in Nat
    BY <1>1, <2>1 DEF Ledger
  <2>4. Within(St', a, s[now])
    BY <2>1, <2>3
  <2> QED
    BY <2>2, <2>4
<1>3. CoveredBy(rs, next, now, St')
  BY <1>2 DEF CoveredBy
<1>4. CoveredBy(query', LastTick', clock', St')
  BY <1>3
<1> QED
  BY <1>4 DEF Covered

\* A query that comes looks at the clock now, and lags behind nothing.
LEMMA ArriveCovers ==
  ASSUME TimeInv, TimeInv', ListsOK, Covered, NEW t \in Threads, Arrive(t)
  PROVE  ListsOK' /\ Covered'
<1> PICK p : p = [at |-> "compare", now |-> clock]
  OBVIOUS
<1>1. /\ query[t] = Free /\ query \in [Threads -> Queries \cup {Free}]
      /\ query' = [query EXCEPT ![t] = p] /\ UNCHANGED <<vars, idle, clock>>
  BY DEF Arrive, Goto, TimeInv, ClockOK
<1>2. /\ query'[t] = p /\ \A v \in Threads \ {t} : query'[v] = query[v]
      /\ p.at = "compare" /\ p.at # "tick" /\ p.at # "handle" /\ p.now = clock
  BY <1>1
<1>3. St' = St /\ LastTick' = LastTick /\ clock' = clock /\ clock \in Nat
  BY <1>1, ClockFacts DEF St, LastTick, vars
<1>4. \A a \in Adapters, time \in Nat : Within(St, a, time) => Within(St', a, time)
  BY <1>3
<1>5. ASSUME NEW a \in Adapters, NEW u \in 1..clock
      PROVE  /\ Lags(query'[t], u) <=> Lags(query[t], u)
             /\ \A v \in Threads : MayCount(query'[v], LastTick', a, u) => MayCount(query[v], LastTick, a, u)
  <2>1. ~Lags(p, u) /\ ~Lags(Free, u)
    BY <1>2, <1>3 DEF Lags
  <2>2. MayCount(p, LastTick, a, u) => MayCount(Free, LastTick, a, u)
    BY <1>2, <2>1 DEF MayCount
  <2> QED
    BY <1>1, <1>2, <1>3, <2>1, <2>2
<1>6. Covered'
  BY <1>2, <1>3, <1>4, <1>5, MoveCovers
<1>7. ListsOK'
  <2>1. ASSUME NEW v \in Serving', query'[v].at = "tick"
        PROVE  v \in Serving /\ query'[v] = query[v]
    BY <1>1, <1>2, <2>1 DEF Serving
  <2> QED
    BY <2>1 DEF ListsOK, Distinct
<1> QED
  BY <1>6, <1>7

\* A query that compares its clock gives up a count for the one it begins,
\* or lags no more.
LEMMA CompareCovers ==
  ASSUME TimeInv, TimeInv', ListsOK, Covered, NEW t \in Threads, Compare(t)
  PROVE  ListsOK' /\ Covered'
<1> PICK elapsed, q : /\ elapsed = query[t].now - LastTick
                      /\ q = [at |-> "tick", now |-> query[t].now, steps |-> elapsed \div Interval,
                              names |-> order, calls |-> 0]
  OBVIOUS
<1> PICK h : h = [at |-> "handle", ticked |-> FALSE]
  OBVIOUS
<1>1. /\ t \in Serving /\ query[t].at = "compare" /\ query[t].now \in Nat /\ query[t].now <= clock
      /\ query[t] # Free /\ UNCHANGED <<vars, idle, clock>>
      /\ clock \in Nat /\ LastTick \in Nat /\ query \in [Threads -> Queries \cup {Free}]
  BY ClockFacts DEF Compare, Comparing, Serving
<1>2. \/ elapsed < Interval /\ query' = [query EXCEPT ![t] = h]
      \/ ~(elapsed < Interval) /\ query' = [query EXCEPT ![t] = q]
  BY DEF Compare, Unticked, Listed, Goto
<1>3. \A v \in Threads \ {t} : query'[v] = query[v]
  BY <1>1, <1>2
<1>4. St' = St /\ LastTick' = LastTick /\ clock' = clock
  BY <1>1 DEF St, LastTick, vars
<1>5. \A a \in Adapters, time \in Nat : Within(St, a, time) => Within(St', a, time)
  BY <1>4
<1>6. h.at = "handle" /\ h.at # "tick"
  OBVIOUS
<1>7. /\ q.at = "tick" /\ q.at # "handle" /\ q.now = query[t].now /\ q.names = order
      /\ q.steps = elapsed \div Interval
  OBVIOUS
<1>8. ~(elapsed < Interval) => q.steps * Interval <= elapsed /\ q.steps * Interval \in Nat
  <2>1. elapsed \in Int /\ Interval \in Nat
    BY <1>1, IntervalAssumption
  <2>2. ~(elapsed < Interval) => q.steps \in Nat /\ q.steps * Interval <= elapsed
    BY <1>7, <2>1, WholeSteps
  <2> QED
    BY <2>1, <2>2
<1>9. ASSUME NEW a \in Adapters, NEW u \in 1..clock
      PROVE  \/ Lags(query[t], u) /\ ~Lags(query'[t], u)
             \/ /\ Lags(query'[t], u) <=> Lags(query[t], u)
                /\ \A v \in Threads : MayCount(query'[v], LastTick', a, u) => MayCount(query[v], LastTick, a, u)
  <2>1. ~Lags(query[t], u) /\ LastTick < u => MayCount(query[t], LastTick, a, u)
    BY <1>1 DEF MayCount
  <2>2. Lags(query[t], u) <=> query[t].now < u
    BY <1>1 DEF Lags
  <2>3. CASE query' = [query EXCEPT ![t] = h]
    <3>1. query'[t] = h
      BY <1>1, <2>3
    <3>2. ~Lags(h, u) /\ (MayCount(h, LastTick, a, u) => LastTick < u)
      BY <1>6 DEF Lags, MayCount
    <3> QED
      BY <1>3, <1>4, <2>1, <3>1, <3>2
  <2>4. CASE ~(elapsed < Interval) /\ query' = [query EXCEPT ![t] = q]
    <3>1. query'[t] = q
      BY <1>1, <2>4
    <3>2. q # Free
      <4>1. q.steps \in Nat \ {0}
        <5>1. elapsed \in Int /\ elapsed >= Interval
          BY <1>1, <2>4, IntervalAssumption
        <5> QED
          BY <1>7, <5>1, WholeSteps
      <4>2. order \in Seq(Adapters)
        BY SoundStFacts DEF TimeInv, St
      <4>3. q \in TickQuery
        BY <1>1, <1>7, <4>1, <4>2 DEF TickQuery
      <4> QED
        BY <4>3, FreeAssumption DEF Queries
    <3>3. Lags(q, u) <=> Lags(query[t], u)
      BY <1>7, <2>2, <3>2 DEF Lags
    <3>4. MayCount(q, LastTick, a, u) => LastTick < u /\ ~Lags(query[t], u)
      <4>1. MayCount(q, LastTick, a, u) => q.now - q.steps * Interval < u /\ u <= q.now
        BY <1>7, <3>2 DEF MayCount, Covers
      <4> QED
        BY <1>1, <1>7, <1>8, <2>2, <2>4, <4>1
    <3> QED
      BY <1>3, <1>4, <2>1, <3>1, <3>3, <3>4
  <2> QED
    BY <1>2, <2>3, <2>4
<1>10. Covered'
  BY <1>3, <1>4, <1>5, <1>9, MoveCovers
<1>11. ListsOK'
  <2>1. ASSUME NEW v \in Serving', query'[v].at = "tick"
        PROVE  Distinct(query'[v].names) /\ query'[v].steps * Interval <= query'[v].now
    <3>1. CASE v # t
      <4>1. v \in Serving /\ query'[v] = query[v]
        BY <1>3, <3>1 DEF Serving
      <4> QED
        BY <2>1, <4>1 DEF ListsOK
    <3>2. CASE v = t
      <4>1. query'[v] = q /\ ~(elapsed < Interval)
        BY <1>1, <1>2, <1>6, <2>1, <3>2
      <4>2. Distinct(order)
        BY DEF TimeInv, SoundSt, St, Lists
      <4>3. q.steps * Interval <= q.now
        BY <1>1, <1>7, <1>8, <4>1
      <4> QED
        BY <1>7, <4>1, <4>2, <4>3
    <3> QED
      BY <3>1, <3>2
  <2> QED
    BY <2>1 DEF ListsOK, Distinct
<1> QED
  BY <1>10, <1>11

\* The reset sets the clock to what the query saw: behind what it does not
\* lag behind, nothing is left to count.
LEMMA ResetCovers ==
  ASSUME TimeInv, TimeInv', ListsOK, Covered, NEW t \in Threads, Reset(t)
  PROVE  ListsOK' /\ Covered'
<1> PICK q, h : q = query[t] /\ h = [at |-> "handle", ticked |-> TRUE]
  OBVIOUS
<1>1. /\ t \in Serving /\ q.at = "tick" /\ q.at # "handle" /\ q.now \in Nat /\ q.now <= clock /\ q # Free
      /\ idle' = clock - q.now /\ query' = [query EXCEPT ![t] = h] /\ UNCHANGED <<vars, clock>>
      /\ clock \in Nat /\ LastTick \in Nat /\ query \in [Threads -> Queries \cup {Free}]
  BY ClockFacts DEF Reset, Serving, Goto
<1>2. query'[t] = h /\ \A v \in Threads \ {t} : query'[v] = query[v]
  BY <1>1
<1>3. St' = St /\ LastTick' = q.now /\ clock' = clock
  BY <1>1 DEF St, LastTick, vars
<1>4. \A a \in Adapters, time \in Nat : Within(St, a, time) => Within(St', a, time)
  BY <1>3
<1>5. h.at = "handle" /\ h.at # "tick"
  OBVIOUS
<1>6. ASSUME NEW a \in Adapters, NEW u \in 1..clock
      PROVE  \/ Lags(query[t], u) /\ ~Lags(query'[t], u)
             \/ /\ Lags(query'[t], u) <=> Lags(query[t], u)
                /\ \A v \in Threads : MayCount(query'[v], LastTick', a, u) => MayCount(query[v], LastTick, a, u)
  <2>1. ~Lags(h, u) /\ (Lags(q, u) <=> q.now < u)
    BY <1>1, <1>5 DEF Lags
  <2>2. CASE q.now < u
    BY <1>2, <2>1, <2>2
  <2>3. CASE ~(q.now < u)
    <3>1. \A r : MayCount(r, q.now, a, u) => MayCount(r, LastTick, a, u)
      BY <2>3 DEF MayCount
    <3>2. ~MayCount(h, q.now, a, u)
      BY <1>5, <2>3 DEF MayCount
    <3> QED
      BY <1>2, <1>3, <2>1, <2>3, <3>1, <3>2
  <2> QED
    BY <2>2, <2>3
<1>7. Covered'
  BY <1>2, <1>3, <1>4, <1>6, MoveCovers
<1>8. ListsOK'
  <2>1. ASSUME NEW v \in Serving', query'[v].at = "tick"
        PROVE  v \in Serving /\ query'[v] = query[v]
    BY <1>2, <1>5, <2>1 DEF Serving
  <2> QED
    BY <2>1 DEF ListsOK, Distinct
<1> QED
  BY <1>7, <1>8

\* An answer makes nothing older, and its thread may count again as before.
LEMMA AnswerCovers ==
  ASSUME TimeInv, TimeInv', ListsOK, Covered, NEW t \in Threads, NEW a \in Adapters, Answer(t, a)
  PROVE  ListsOK' /\ Covered'
<1>1. /\ t \in Serving /\ query[t].at = "handle" /\ query[t].at # "tick"
      /\ query' = [query EXCEPT ![t] = Free] /\ UNCHANGED <<idle, clock>>
      /\ clock \in Nat /\ query \in [Threads -> Queries \cup {Free}]
  BY ClockFacts DEF Answer, Serving, Goto
<1>2. query'[t] = Free /\ \A v \in Threads \ {t} : query'[v] = query[v]
  BY <1>1
<1>3. LastTick' = LastTick /\ clock' = clock
  BY <1>1 DEF LastTick
<1>4. PICK st : MayAge(St, st, a, 0) /\ Commit(st)
  BY AnswerAges
<1>5. St' = st
  BY <1>4 DEF MayAge, Commit, St, SoundSt
<1>6. ASSUME NEW b \in Adapters, NEW time \in Nat, Within(St, b, time) PROVE Within(St', b, time)
  <2>1. Within(st, b, IF b = a THEN time + 0 * Interval ELSE time)
    BY <1>4, <1>6 DEF MayAge
  <2>2. time + 0 * Interval = time
    BY IntervalAssumption
  <2> QED
    BY <1>5, <2>1, <2>2
<1>7. ASSUME NEW b \in Adapters, NEW u \in 1..clock
      PROVE  /\ Lags(query'[t], u) <=> Lags(query[t], u)
             /\ \A v \in Threads : MayCount(query'[v], LastTick', b, u) => MayCount(query[v], LastTick, b, u)
  <2>1. ~Lags(query[t], u) /\ ~Lags(Free, u)
    BY <1>1 DEF Lags
  <2>2. MayCount(Free, LastTick, b, u) => MayCount(query[t], LastTick, b, u)
    BY <1>1, <2>1 DEF MayCount
  <2> QED
    BY <1>2, <1>3, <2>1, <2>2
<1>8. Covered'
  BY <1>2, <1>3, <1>6, <1>7, MoveCovers
<1>9. ListsOK'
  <2>1. ASSUME NEW v \in Serving', query'[v].at = "tick"
        PROVE  v \in Serving /\ query'[v] = query[v]
    BY <1>2, <2>1 DEF Serving
  <2> QED
    BY <2>1 DEF ListsOK, Distinct
<1> QED
  BY <1>8, <1>9

\* A write stores a memory of no age, and no query moves.
LEMMA WriteCovers ==
  ASSUME TimeInv, ListsOK, Covered, NEW a \in Adapters, NEW k \in Keys, NEW p \in Payloads, Write(a, k, p)
  PROVE  ListsOK' /\ Covered'
<1>1. UNCHANGED <<idle, clock, query>> /\ PostMemory(a, k, p) /\ clock \in Nat
  BY ClockFacts DEF Write, pool, PostMemory
<1>2. LastTick' = LastTick /\ clock' = clock /\ query' = query
  BY <1>1 DEF LastTick
<1>3. \A b \in Adapters, time \in Nat : Within(St, b, time) => Within(St', b, time)
  BY <1>1, WriteEffect DEF TimeInv
<1>4. CoveredBy(query, LastTick, clock, St')
  <2>1. ASSUME NEW b \in Adapters PROVE \E s : Ledger(query, LastTick, clock, s, b) /\ Within(St', b, s[clock])
    <3>1. PICK s : Ledger(query, LastTick, clock, s, b) /\ Within(St, b, s[clock])
      BY DEF Covered, CoveredBy
    <3>2. s[clock] \in Nat
      BY <1>1, <3>1 DEF Ledger
    <3> QED
      BY <1>3, <3>1, <3>2
  <2> QED
    BY <2>1 DEF CoveredBy
<1>5. CoveredBy(query', LastTick', clock', St')
  BY <1>2, <1>4
<1> QED
  BY <1>2, <1>5 DEF Covered, ListsOK, Serving, Distinct

\* Time passes, and opens the unit that ends now.
LEMMA PassCovers ==
  ASSUME TimeInv, ListsOK, Covered, TimedPass
  PROVE  ListsOK' /\ Covered'
<1>1. UNCHANGED <<vars, query>> /\ clock' = clock + 1 /\ idle' = idle + 1 /\ clock \in Nat /\ idle \in Nat
  BY DEF TimedPass, Pass, TimeInv, ClockOK
<1>2. LastTick' = LastTick /\ St' = St /\ query' = query
  BY <1>1 DEF LastTick, St, vars
<1>3. ASSUME NEW a \in Adapters
      PROVE  \E z : Ledger(query, LastTick, clock + 1, z, a) /\ Within(St, a, z[clock + 1])
  <2>1. PICK s : Ledger(query, LastTick, clock, s, a) /\ Within(St, a, s[clock])
    BY DEF Covered, CoveredBy
  <2>2. PICK z : Ledger(query, LastTick, clock + 1, z, a) /\ z[clock + 1] = s[clock]
    BY <2>1, ClockFacts, LedgerOpens
  <2> QED
    BY <2>1, <2>2
<1>4. CoveredBy(query, LastTick, clock + 1, St)
  BY <1>3 DEF CoveredBy
<1>5. CoveredBy(query', LastTick', clock', St')
  BY <1>1, <1>2, <1>4
<1> QED
  BY <1>2, <1>5 DEF Covered, ListsOK, Serving, Distinct

\* A restart frees every thread and starts the clock anew: nothing that has
\* passed can be counted any more.
LEMMA RestartCovers ==
  ASSUME TimeInv, TimeInv', ListsOK, Covered, TimedRestart
  PROVE  ListsOK' /\ Covered'
<1>1. /\ query' = [t \in Threads |-> Free] /\ clock' = clock /\ idle' = 0 /\ clock \in Nat
      /\ DOMAIN tables' = {} /\ disk' = disk
  BY ClockFacts DEF TimedRestart, Restart, Crash
<1>2. LastTick' = clock
  BY <1>1 DEF LastTick
<1>3. \A a \in Adapters : View(St', a) = disk[a] /\ St'.disk[a] = disk[a] /\ St.disk[a] = disk[a]
  BY <1>1 DEF View, St
<1> PICK qs, rs, last, now : qs = query /\ rs = query' /\ last = LastTick /\ now = clock
  OBVIOUS
<1>4. qs \in [Threads -> Queries \cup {Free}] /\ last \in Int /\ now \in Nat /\ N \in Nat
  BY ClockFacts, ThreadsAreCounted
<1>5. ASSUME NEW a \in Adapters, NEW s, Ledger(qs, last, now, s, a) PROVE Ledger(rs, now, now, s, a)
  <2> SUFFICES ASSUME NEW u \in 1..now
               PROVE  Room(s[u] - s[u - 1], Counting(rs, now, a, u), Lagging(rs, u))
    BY <1>5 DEF Ledger
  <2>1. Counting(rs, now, a, u) = {} /\ Lagging(rs, u) = {}
    BY <1>1, <1>4 DEF Counting, Lagging, MayCount, Lags
  <2> PICK n, c, l : n = s[u] - s[u - 1] /\ c = Counting(qs, last, a, u) /\ l = Lagging(qs, u)
    OBVIOUS
  <2>2. n \in Int /\ Room(n, c, l)
    <3>1. u \in 0..now /\ u - 1 \in 0..now
      BY <1>4
    <3> QED
      BY <1>5, <3>1 DEF Ledger
  <2>3. Cardinality(c) \in 0..N /\ Cardinality(l) \in 0..N
    BY ThreadsAreCounted DEF Counting, Lagging
  <2>4. Reopened(Cardinality(l)) \in Nat /\ N * (N + 1) \in Nat
    BY <1>4, <2>3, ReopenedCounts
  <2>5. Cardinality({}) = 0 /\ Reopened(0) = 0
    BY <1>4, FS_EmptySet DEF Reopened
  <2>6. Room(n, {}, {})
    BY <2>2, <2>3, <2>4, <2>5 DEF Room
  <2> QED
    BY <2>1, <2>6
<1>6. ASSUME NEW a \in Adapters PROVE \E s : Ledger(rs, now, now, s, a) /\ Within(St', a, s[now])
  <2>1. PICK s : Ledger(qs, last, now, s, a) /\ Within(St, a, s[now])
    BY DEF Covered, CoveredBy
  <2>2. Within(St', a, s[now])
    BY <1>3, <2>1 DEF Within
  <2> QED
    BY <1>5, <2>1, <2>2
<1>7. CoveredBy(rs, now, now, St')
  BY <1>6 DEF CoveredBy
<1>8. CoveredBy(query', LastTick', clock', St')
  BY <1>1, <1>2, <1>7
<1>9. Serving' = {}
  BY <1>1 DEF Serving
<1> QED
  BY <1>8, <1>9 DEF Covered, ListsOK

\* A call of the loops: the memories it ticks grow older by what their
\* ledger counts for it; to all others it makes no difference.
LEMMA VisitCovers ==
  ASSUME TimeInv, TimeInv', ListsOK, Covered, NEW t \in Threads, Visit(t)
  PROVE  ListsOK' /\ Covered'
<1>1. PICK st, n : Visited(t, st, n)
  BY VisitVisits
<1> PICK q, p, a : q = query[t] /\ p = [q EXCEPT !.calls = @ + 1] /\ a = Named(q)
  OBVIOUS
<1>2. /\ t \in Serving /\ q \in TickQuery /\ q.at = "tick" /\ q.calls < 2 * Len(q.names)
      /\ n = IF q.calls < Len(q.names) THEN q.steps ELSE 0
      /\ n \in Nat /\ a \in Adapters /\ MayAge(St, st, a, n) /\ Commit(st)
      /\ query' = [query EXCEPT ![t] = p] /\ UNCHANGED <<idle, clock>>
      /\ query \in [Threads -> Queries \cup {Free}] /\ clock \in Nat /\ LastTick \in Nat
      /\ q.now \in Nat /\ q.now <= clock /\ q # Free
  BY <1>1, ClockFacts, TheQuery DEF Visited, Visit, TimeInv, TickQuery, Serving
<1>3. /\ p \in TickQuery /\ p.now = q.now /\ p.steps = q.steps /\ p.names = q.names
      /\ Ticked(p) = IF q.calls < Len(q.names) THEN Ticked(q) \cup {a} ELSE Ticked(q)
  <2>1. /\ q \in TickQuery /\ q.calls < 2 * Len(q.names) /\ p = [q EXCEPT !.calls = @ + 1]
        /\ n = IF q.calls < Len(q.names) THEN q.steps ELSE 0
        /\ a = Named(q)
    BY <1>2
  <2> QED
    BY <2>1, DueToTheNext
<1>4. query'[t] = p /\ \A v \in Threads \ {t} : query'[v] = query[v]
  BY <1>2
<1>5. LastTick' = LastTick /\ clock' = clock /\ p.at = "tick" /\ p # Free
  BY <1>2, <1>3, FreeAssumption DEF LastTick, TickQuery, Queries
<1>6. Distinct(q.names) /\ q.steps * Interval <= q.now
  BY <1>2 DEF ListsOK
<1>7. St' = st
  BY <1>2 DEF MayAge, Commit, St, SoundSt
<1>8. ListsOK'
  <2>1. ASSUME NEW v \in Serving', query'[v].at = "tick"
        PROVE  Distinct(query'[v].names) /\ query'[v].steps * Interval <= query'[v].now
    <3>1. CASE v = t
      BY <1>3, <1>4, <1>6, <3>1
    <3>2. CASE v # t
      <4>1. v \in Serving /\ query'[v] = query[v]
        BY <1>4, <3>2 DEF Serving
      <4> QED
        BY <2>1, <4>1 DEF ListsOK
    <3> QED
      BY <3>1, <3>2
  <2> QED
    BY <2>1 DEF ListsOK, Distinct
<1> PICK qs, rs, last, now : qs = query /\ rs = query' /\ last = LastTick /\ now = clock
  OBVIOUS
<1>9. /\ qs \in [Threads -> Queries \cup {Free}] /\ rs \in [Threads -> Queries \cup {Free}]
      /\ last \in Int /\ now \in Nat /\ qs[t] = q /\ rs[t] = p
      /\ \A v \in Threads \ {t} : rs[v] = qs[v]
  BY <1>2, <1>4 DEF TimeInv, ClockOK
<1>10. ASSUME NEW b \in Adapters, NEW s, Ledger(qs, last, now, s, b),
              b # a \/ ~(q.calls < Len(q.names))
       PROVE  Ledger(rs, last, now, s, b)
  <2>1. \A u \in 1..now : Lags(p, u) <=> Lags(q, u)
    BY <1>2, <1>3, <1>5 DEF Lags
  <2>2. b \in Ticked(p) <=> b \in Ticked(q)
    BY <1>3, <1>10
  <2>3. \A u \in 1..now : MayCount(p, last, b, u) => MayCount(q, last, b, u)
    BY <1>2, <1>3, <1>5, <2>2 DEF MayCount, Covers
  <2>4. \A u \in 1..now : \A v \in Threads : MayCount(rs[v], last, b, u) => MayCount(qs[v], last, b, u)
    BY <1>9, <2>3
  <2>5. \A u \in 1..now :
          /\ Lags(rs[t], u) <=> Lags(qs[t], u)
          /\ \A v \in Threads : MayCount(rs[v], last, b, u) => MayCount(qs[v], last, b, u)
    BY <1>9, <2>1, <2>4
  <2> QED
    BY <1>9, <1>10, <2>5, LedgerStays
<1>11. ASSUME NEW b \in Adapters PROVE \E z : Ledger(rs, last, now, z, b) /\ Within(st, b, z[now])
  <2>1. PICK s : Ledger(qs, last, now, s, b) /\ Within(St, b, s[now])
    BY DEF Covered, CoveredBy
  <2>2. s[now] \in Nat
    BY <1>9, <2>1 DEF Ledger
  <2>3. Within(st, b, IF b = a THEN s[now] + n * Interval ELSE s[now])
    BY <1>2, <2>1, <2>2 DEF MayAge
  <2>4. CASE b = a /\ q.calls < Len(q.names)
    <3>1. a \notin Ticked(q)
      BY <1>2, <1>6, <2>4, NextIsUnticked
    <3>2. n = q.steps /\ Ticked(p) = Ticked(q) \cup {a}
      BY <1>2, <1>3, <2>4
    <3> PICK length : length = q.steps * Interval
      OBVIOUS
    <3>3. b \notin Ticked(q) /\ Ticked(p) = Ticked(q) \cup {b} /\ length <= q.now
      BY <1>6, <2>4, <3>1, <3>2
    <3>4. \E z : Ledger(rs, last, now, z, b) /\ z[now] = s[now] + length
      <4>1. Reaches(qs, rs, t, b, length)
        BY <1>2, <1>3, <1>9, <3>3 DEF Reaches
      <4>2. qs[t].now <= now
        BY <1>2, <1>9
      <4> QED
        BY <1>9, <2>1, <4>1, <4>2, LedgerCounts
    <3> QED
      BY <2>3, <2>4, <3>2, <3>4
  <2>5. CASE b # a \/ ~(q.calls < Len(q.names))
    <3>1. Ledger(rs, last, now, s, b)
      BY <1>10, <2>1, <2>5
    <3>2. b = a => s[now] + n * Interval = s[now]
      BY <1>2, <2>2, <2>5, IntervalAssumption
    <3> QED
      BY <2>3, <3>1, <3>2
  <2> QED
    BY <2>4, <2>5
<1>12. CoveredBy(rs, last, now, st)
  BY <1>11 DEF CoveredBy
<1>13. CoveredBy(query', LastTick', clock', St')
  BY <1>5, <1>7, <1>12
<1> QED
  BY <1>8, <1>13 DEF Covered

----------------------------------------------------------------------------

\* Whatever queries overlap, a ledger covers the memories of each adapter.
LEMMA CoveredSound == TimeSpec => [](ListsOK /\ Covered)
<1>1. TimeInit => ListsOK /\ Covered
  <2> SUFFICES ASSUME TimeInit PROVE ListsOK /\ Covered
    OBVIOUS
  <2>1. /\ Init /\ clock = 0 /\ query = [t \in Threads |-> Free]
    BY DEF TimeInit, ApiInit
  <2>2. \A a \in Adapters : View(St, a) = NoRows /\ St.disk[a] = NoRows
    BY <2>1 DEF Init, View, St
  <2> DEFINE s == [u \in 0..0 |-> 0]
  <2>3. \A a \in Adapters : Ledger(query, LastTick, 0, s, a) /\ Within(St, a, s[0])
    BY <2>2 DEF Ledger, Within, Younger, NoRows
  <2>4. CoveredBy(query, LastTick, 0, St)
    BY <2>3 DEF CoveredBy
  <2>5. Serving = {}
    BY <2>1 DEF Serving
  <2> QED
    BY <2>1, <2>4, <2>5 DEF Covered, ListsOK
<1>2. TimeInv /\ TimeInv' /\ (ListsOK /\ Covered) /\ [TimeNext]_timeVars => (ListsOK /\ Covered)'
  <2> SUFFICES ASSUME TimeInv, TimeInv', ListsOK, Covered, [TimeNext]_timeVars
               PROVE  ListsOK' /\ Covered'
    OBVIOUS
  <2>1. CASE TimedPass
    BY <2>1, PassCovers
  <2>2. CASE TimedRestart
    BY <2>2, RestartCovers
  <2>3. CASE \E a \in Adapters, k \in Keys, p \in Payloads : Write(a, k, p)
    BY <2>3, WriteCovers
  <2>4. ASSUME NEW t \in Threads, Arrive(t) PROVE ListsOK' /\ Covered'
    BY <2>4, ArriveCovers
  <2>5. ASSUME NEW t \in Threads, Serve(t) PROVE ListsOK' /\ Covered'
    BY <2>5, CompareCovers, VisitCovers, ResetCovers, AnswerCovers DEF Serve
  <2>6. CASE UNCHANGED timeVars
    <3>1. query' = query /\ LastTick' = LastTick /\ clock' = clock /\ St' = St
      BY <2>6 DEF timeVars, LastTick, St
    <3>2. CoveredBy(query', LastTick', clock', St')
      BY <3>1 DEF Covered
    <3> QED
      BY <3>1, <3>2 DEF Covered, ListsOK, Serving, Distinct
  <2> QED
    BY <2>1, <2>2, <2>3, <2>4, <2>5, <2>6 DEF TimeNext
<1> QED
  BY <1>1, <1>2, TimeSound, PTL DEF TimeSpec

\* Queries that overlap count the same time again, and a slow one sets the
\* clock of _auto_tick back; but with N threads no unit of time is counted
\* more than 1 + 2 + ... + N times, in RAM or on disk, whatever they do.
THEOREM OvercountHasABound == TimeSpec => []OvercountIsBounded
<1>1. TimeInv /\ ListsOK /\ Covered => OvercountIsBounded
  <2> SUFFICES ASSUME TimeInv, Covered, NEW a \in Adapters, NEW k \in DOMAIN Memories(a)
               PROVE  AgeOf(a, k) * Interval <= clock * ((N * (N + 1)) \div 2)
    BY DEF OvercountIsBounded, N
  <2>1. PICK s : Ledger(query, LastTick, clock, s, a) /\ Within(St, a, s[clock])
    BY DEF Covered, CoveredBy
  <2>2. s[clock] <= clock * ((N * (N + 1)) \div 2) /\ s[clock] \in Nat
    <3> PICK qs, last, now : qs = query /\ last = LastTick /\ now = clock
      OBVIOUS
    <3>1. qs \in [Threads -> Queries \cup {Free}] /\ last \in Int /\ now \in Nat
      BY ClockFacts
    <3>2. s[now] <= now * ((N * (N + 1)) \div 2)
      BY <2>1, <3>1, LedgerIsBounded
    <3>3. s[now] \in Nat
      BY <2>1, <3>1 DEF Ledger
    <3> QED
      BY <3>2, <3>3
  <2>3. clock * ((N * (N + 1)) \div 2) \in Int
    BY ClockFacts, ThreadsAreCounted
  <2>4. View(St, a) = Memories(a)
    BY DEF View, St, Memories
  <2>5. Within(St, a, clock * ((N * (N + 1)) \div 2))
    BY <2>1, <2>2, <2>3, WithinMore DEF TimeInv
  <2> QED
    BY <2>4, <2>5 DEF Within, Younger, AgeOf
<1> QED
  BY <1>1, TimeSound, CoveredSound, PTL
=============================================================================
