----------------------------- MODULE ApiServer -----------------------------
(***************************************************************************)
(* api.py: the HTTP endpoints over one bridge.  Several reach past the     *)
(* manager into a table, and every query first applies the time that has   *)
(* passed.  A request is one step; ApiTime lets queries overlap.  Counters *)
(* for /stats are left out, and the automatic tag "adapter:<name>" of a    *)
(* write is the adapter itself.                                            *)
(***************************************************************************)
EXTENDS Bridge

CONSTANTS Override,     \* PER_ADAPTER_THRESHOLD: a function on some adapters
          Interval,     \* TICK_INTERVAL_SECONDS, in units of the clock
          MaxIdle,      \* bound: the longest time between two ticks
          Deltas,       \* decay_delta of packets, in tenths of a day
          Boosts,       \* salience_boost of packets: functions on some tags
          LeastSalience,\* bound: negative boosts do not go below it
          Edits,        \* bodies of update requests: functions on some fields
          Levels,       \* saliences of bulk updates by tag
          HintLists,    \* adapter_hints of cross queries
          NoKey         \* result of a query whose text cannot be hashed

\* An adapter's own threshold is there to keep its memories longer.
ASSUME OverrideAssumption ==
  /\ DOMAIN Override \subseteq Adapters
  /\ \A a \in DOMAIN Override : Override[a] \in 1..EvictionThreshold
ASSUME IntervalAssumption == Interval \in Nat \ {0}
ASSUME TagAssumption == Adapters \subseteq Tags

\* What a request's body may hold, after the types of its model.
Fields == [salience |-> Int, affect |-> Int, tags |-> SUBSET Tags, text |-> Texts]

ASSUME BodyAssumption ==
  /\ Deltas \subseteq Int /\ Levels \subseteq Int /\ HintLists \subseteq Seq(Adapters)
  /\ \A boost \in Boosts : boost \in [DOMAIN boost -> Int]
  /\ \A edit \in Edits : \A f \in DOMAIN edit : f \in DOMAIN Fields /\ edit[f] \in Fields[f]
ASSUME MaxIdleAssumption == MaxIdle \in Nat

VARIABLE idle           \* time since _last_tick_mono

apiVars == <<order, tables, disk, ret, idle>>

ApiInit == Init /\ idle = 0

\* Time passes.
Pass == idle < MaxIdle /\ idle' = idle + 1 /\ UNCHANGED vars

ThresholdOf(a) == IF a \in DOMAIN Override THEN Override[a] ELSE EvictionThreshold

\* Every table in RAM is ticked, then every one swept, in the order the
\* names had before; each call touches its table.
AutoTicked(st, steps) ==
  LET Aged(s, a) == InTable(Touch(s, a), a, LAMBDA t : Tick(t, steps))
      Pruned(s, a) == InTable(Touch(s, a), a, LAMBDA t : EvictStale(t, ThresholdOf(a)))
  IN  FoldLeft(Pruned, FoldLeft(Aged, st, st.order), st.order)

\* What is left of the clock after a tick: the part of the elapsed time
\* that makes no whole step is dropped with the rest.
Remaining(t) == IF t >= Interval THEN 0 ELSE t

\* Run a request on the state the automatic tick leaves.
AfterAutoTick(Handle(_)) ==
  /\ \E o \in Handle(IF idle >= Interval THEN AutoTicked(St, idle \div Interval) ELSE St) :
       Commit(o.st) /\ ret' = IF o.ok THEN o.value ELSE Raised
  /\ idle' = Remaining(idle)

Query(a, hash) == AfterAutoTick(LAMBDA st : HandleTrigger(st, a, hash))

QueryCross(hints, hash) == AfterAutoTick(LAMBDA st : HandleCrossTrigger(st, hints, hash))

\* The hasher raises on some texts (see NgramHasher), but only after the tick.
QueryUnhashable == AfterAutoTick(LAMBDA st : {[st |-> st, ok |-> TRUE, value |-> NoKey]})

\* A write whose text cannot be hashed raises before it does anything.
PostMemory(a, k, p) == WriteMemory(a, k, [p EXCEPT !.tags = @ \cup {a}]) /\ UNCHANGED idle

FetchMemory(a, k) == GetMemory(a, k) /\ UNCHANGED idle

\* The entry is taken out of the dict behind the table's back.
DeleteMemory(a, k) ==
  /\ OnTable(a, LAMBDA t : [t EXCEPT !.store = Without(@, {k})], LAMBDA t : Done)
  /\ UNCHANGED idle

Clamped(low, high, n) == Max({low, Min({high, n})})

\* The payload after an update request: only the fields it names change.
Edited(payload, edit) ==
  [f \in DOMAIN payload |->
     IF f \notin DOMAIN edit THEN payload[f]
     ELSE CASE f = "salience" -> Clamped(0, One, edit[f])
            [] f = "affect"   -> Clamped(-One, One, edit[f])
            [] OTHER          -> edit[f]]

\* Payloads of the keys in S are changed in place; the flag is not raised.
Amended(table, S, edit) ==
  [table EXCEPT !.store =
     [k \in DOMAIN @ |-> IF k \in S THEN Edited(@[k], edit) ELSE @[k]]]

UpdateMemory(a, k, edit) ==
  /\ OnTable(a, LAMBDA t : Amended(t, {k}, edit),
             LAMBDA t : IF k \in DOMAIN t.store THEN Done ELSE Absent)
  /\ UNCHANGED idle

UpdateByTag(a, tag, level) ==
  /\ OnTable(a, LAMBDA t : Amended(t, {k \in DOMAIN t.store : tag \in t.store[k].tags},
                                   [f \in {"salience"} |-> level]),
             LAMBDA t : Done)
  /\ UNCHANGED idle

\* The tick and the sweep of one request; the second mount only touches.
TickMemory(a, steps, threshold) ==
  /\ OnTable(a, LAMBDA t : EvictStale(Tick(t, steps), threshold),
             LAMBDA t : [evicted |-> EvictedCount(Tick(t, steps), threshold)])
  /\ UNCHANGED idle

Sync(a, tenths, boost) ==
  /\ \A k \in DOMAIN Memories(a) :
       /\ Memories(a)[k].age + ConvertPidxDelta(tenths) <= MaxAge
       /\ \A tag \in DOMAIN boost : Memories(a)[k].salience + boost[tag] >= LeastSalience
  /\ Finish(HandlePidxSync(St, a, tenths, boost))
  /\ UNCHANGED idle

\* What the end of the process leaves behind: the databases.
Ended(st) == [st EXCEPT !.order = <<>>, !.tables = [a \in {} |-> Absent]]

\* The process ends, cleanly (atexit) or not, and another one starts.  An
\* exit handler that raises does not keep the process alive.
Shutdown ==
  /\ \E o \in FlushAll(St) : Commit(Ended(o.st)) /\ ret' = IF o.ok THEN Done ELSE Crashed
  /\ idle' = 0
Restart == Crash /\ idle' = 0

Lookup ==
  \/ \E k \in Keys : (\E a \in Adapters : Query(a, k)) \/ (\E hints \in HintLists : QueryCross(hints, k))
  \/ QueryUnhashable

Request(a) ==
  \/ \E k \in Keys : FetchMemory(a, k) \/ DeleteMemory(a, k)
  \/ \E k \in Keys, p \in Payloads : PostMemory(a, k, p)
  \/ \E k \in Keys, edit \in Edits : UpdateMemory(a, k, edit)
  \/ \E tag \in Tags, level \in Levels : UpdateByTag(a, tag, level)
  \/ \E steps \in Steps, threshold \in Thresholds \cup {ThresholdOf(a)} : TickMemory(a, steps, threshold)
  \/ \E tenths \in Deltas, boost \in Boosts : Sync(a, tenths, boost)

ApiNext == Pass \/ Lookup \/ (\E a \in Adapters : Request(a)) \/ Shutdown \/ Restart

ApiSpec == ApiInit /\ [][ApiNext]_apiVars

----------------------------------------------------------------------------
(* Properties. *)

\* The state the endpoints share: the manager's, and the time since the tick.
ApiTypeOK == TypeOK /\ idle \in 0..MaxIdle

\* No request whose text has a key fails while the disk works and writes stay
\* in range, whatever packets boost, in either direction: bridge.py refuses a response whose
\* salience lies outside [0, 1], and the sweep, the clamps and the limit
\* of a boost together keep such a memory out of every response.
NoRequestFails == ret # Raised

\* Slots are shared, memories are not: unless time is applied, a request
\* drops or alters no memory of an adapter other than the one used last,
\* though it may push that adapter's table out of RAM; only what is stale
\* may go, or fall back to its row, when a cross query sweeps on its way.
OthersUntouched ==
  [][ret' # Crashed /\ idle' >= idle =>
       \A b \in Adapters \ {order'[i] : i \in {Len(order')} \ {0}} :
         \A k \in DOMAIN Memories(b) \ Stale(Memories(b), EvictionThreshold) :
           ValueAt(Memories(b)', k) = Row(Memories(b)[k])]_apiVars

\* interface.py:117: "Since eviction ran first, if hit is present, it is
\* guaranteed live and valid".  The memory a query hits is not evictable,
\* at least under one of the thresholds the server evicts with.
HitIsLive ==
  ret \in [hit : Payload, band : BandNames] =>
    \E threshold \in {EvictionThreshold} \cup Range(Override) :
      ~IsEvictable(Policy, ret.hit.salience, ret.hit.age, threshold)
=============================================================================
