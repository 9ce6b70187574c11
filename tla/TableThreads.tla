---------------------------- MODULE TableThreads ---------------------------
(***************************************************************************)
(* One EngRamTable under several threads: api.py's pool writes, deletes,   *)
(* ticks and sweeps the same object with no lock around it.  A step here   *)
(* lasts from one point where CPython (3.11 and later, with the lock) lets *)
(* another thread run to the next: a call, or the end of a pass of a loop. *)
(* So put and delete are one step, and tick and evict_stale one per memory *)
(* or so; their loops go over the live dict, which raises once its size is *)
(* another than when the loop began.  The table stays in RAM; reads and    *)
(* updates in place are left out.                                          *)
(***************************************************************************)
EXTENDS EngramTable, TLC

CONSTANTS Threads,      \* bound: threads at work at once
          Payloads,     \* payloads requests write
          Steps,        \* steps of a tick
          Threshold,    \* eviction threshold
          MaxAge        \* bound: a tick begins while all are younger

ASSUME ThreadAssumption == IsFiniteSet(Threads) /\ Threads # {}
ASSUME WriteAssumption == Payloads \subseteq Payload /\ Steps \subseteq Nat \ {0}

VARIABLES table,        \* the table
          call,         \* what each thread is at, with its locals there
          log,          \* history: the contents each call began with, and what
                        \* other threads have touched since
          unswept       \* history: touched since the last whole sweep began

vars == <<table, call, log, unswept>>

Idle == [at |-> "idle"]
Raised == [at |-> "raised"]
Waiting(t) == call[t] \in {Idle, Raised}

NoMemories == [k \in {} |-> Absent]
Unlogged == [start |-> NoMemories, touched |-> {}]
Begun == [start |-> table.store, touched |-> {}]

Init ==
  /\ table = [store |-> NoMemories, needsEviction |-> TRUE]
  /\ call = [t \in Threads |-> Idle]
  /\ log = [t \in Threads |-> Unlogged]
  /\ unswept = {}

Ticking(t) == call[t].at = "tick"
Sweeping(t) == call[t].at \in {"scan", "remove"}

\* Thread t, its own log being "own", writes, deletes, ages or moves these.
Logged(t, own, keys) ==
  log' = [u \in Threads |-> IF u = t THEN own
                            ELSE IF Ticking(u) \/ Sweeping(u)
                            THEN [log[u] EXCEPT !.touched = @ \cup keys]
                            ELSE Unlogged]

\* Thread t goes on to q.  What other loops over the dict have yet to reach:
\* a new key comes last, one that is deleted, or moved back when an insertion
\* has the dict rebuilt, never.
Goto(t, q, new, missed) ==
  call' = [u \in Threads |->
             IF u = t THEN q
             ELSE IF call[u].at \in {"tick", "scan"} THEN [call[u] EXCEPT !.left = (@ \cup new) \ missed]
             ELSE call[u]]

PutMemory(t, k, p) ==
  LET new == {k} \ DOMAIN table.store
  IN  /\ Waiting(t)
      /\ table' = Put(table, k, p)
      /\ \E moved \in IF new = {} THEN {{}} ELSE SUBSET DOMAIN table.store :
           /\ Goto(t, Idle, new, moved)
           /\ Logged(t, Unlogged, {k} \cup moved)
           /\ unswept' = unswept \cup {k} \cup moved

DeleteMemory(t, k) ==
  /\ Waiting(t) /\ k \in DOMAIN table.store
  /\ table' = [table EXCEPT !.store = Without(@, {k})]
  /\ Goto(t, Idle, {}, {k})
  /\ Logged(t, Unlogged, {k})
  /\ UNCHANGED unswept

\* A loop knows the keys it has yet to reach, and the size it began with.
Loop(place) ==
  [at |-> place, left |-> DOMAIN table.store, size |-> Cardinality(DOMAIN table.store)]
Resized(q) == Cardinality(DOMAIN table.store) # q.size

Raise(t) == Goto(t, Raised, {}, {}) /\ Logged(t, Unlogged, {}) /\ UNCHANGED <<table, unswept>>

----------------------------------------------------------------------------
(* tick *)

AgeOne(t, q, own) ==
  \E k \in q.left :
    /\ table' = [table EXCEPT !.store[k].age = @ + q.steps]
    /\ Goto(t, [q EXCEPT !.left = @ \ {k}], {}, {})
    /\ Logged(t, own, {k})
    /\ unswept' = unswept \cup {k}

TickDone(t) ==
  /\ table' = [table EXCEPT !.needsEviction = TRUE]
  /\ Goto(t, Idle, {}, {}) /\ Logged(t, Unlogged, {}) /\ UNCHANGED unswept

\* Mutant: the loop ends one memory early.
AgeAllButOne(t, q, own) ==
  IF Resized(q) THEN Raise(t)
  ELSE IF Cardinality(q.left) <= 1 THEN TickDone(t) ELSE AgeOne(t, q, own)

\* A pass of the loop: it raises, or is over, or ages the next memory.
AgeNext(t, q, own) ==
  IF Resized(q) THEN Raise(t)
  ELSE IF q.left = {} THEN TickDone(t) ELSE AgeOne(t, q, own)

BeginTick(t, steps) ==
  /\ Waiting(t) /\ \A k \in DOMAIN table.store : table.store[k].age < MaxAge
  /\ AgeNext(t, Loop("tick") @@ [steps |-> steps], Begun)

TickOn(t) == Ticking(t) /\ AgeNext(t, call[t], log[t])

----------------------------------------------------------------------------
(* evict_stale, if the flag is raised; otherwise it does nothing *)

BeginSweep(t) ==
  /\ Waiting(t) /\ table.needsEviction
  /\ Goto(t, Loop("scan") @@ [toDrop |-> {}], {}, {})
  /\ Logged(t, Begun, {}) /\ UNCHANGED <<table, unswept>>

\* The next key of the list is removed from the dict, whatever it has now.
RemoveNext(t, toDrop) ==
  IF toDrop = {}
  THEN /\ table' = [table EXCEPT !.needsEviction = FALSE]
       /\ unswept' = log[t].touched
       /\ Goto(t, Idle, {}, {}) /\ Logged(t, Unlogged, {})
  ELSE \E k \in toDrop :
         IF k \notin DOMAIN table.store THEN Raise(t)
         ELSE /\ table' = [table EXCEPT !.store = Without(@, {k})]
              /\ Goto(t, [at |-> "remove", toDrop |-> toDrop \ {k}], {}, {k})
              /\ Logged(t, log[t], {k})
              /\ UNCHANGED unswept

\* Mutant: the list has memories at the threshold, too.
ScanInclusively(t) ==
  LET q == call[t]
  IN  /\ q.at = "scan"
      /\ IF Resized(q) THEN Raise(t)
         ELSE IF q.left = {} THEN RemoveNext(t, q.toDrop)
         ELSE \E k \in q.left :
                /\ Goto(t, [q EXCEPT !.left = @ \ {k},
                                     !.toDrop = @ \cup ({k} \cap Stale(table.store, Threshold + 1))],
                        {}, {})
                /\ UNCHANGED <<table, log, unswept>>

\* Mutant: saliences are compared undecayed.
ScanUndecayed(t) ==
  LET q == call[t]
  IN  /\ q.at = "scan"
      /\ IF Resized(q) THEN Raise(t)
         ELSE IF q.left = {} THEN RemoveNext(t, q.toDrop)
         ELSE \E k \in q.left :
                /\ Goto(t, [q EXCEPT
                               !.left = @ \ {k},
                               !.toDrop = @ \cup {j \in {k} : table.store[j].salience < Threshold}],
                        {}, {})
                /\ UNCHANGED <<table, log, unswept>>

\* A pass of the scan: it raises, or is over, or looks at the next memory.
Scan(t) ==
  LET q == call[t]
  IN  /\ q.at = "scan"
      /\ IF Resized(q) THEN Raise(t)
         ELSE IF q.left = {} THEN RemoveNext(t, q.toDrop)
         ELSE \E k \in q.left :
                /\ Goto(t, [q EXCEPT !.left = @ \ {k},
                                     !.toDrop = @ \cup ({k} \cap Stale(table.store, Threshold))],
                        {}, {})
                /\ UNCHANGED <<table, log, unswept>>

Remove(t) == call[t].at = "remove" /\ RemoveNext(t, call[t].toDrop)

Next ==
  \E t \in Threads :
    \/ \E k \in Keys, p \in Payloads : PutMemory(t, k, p)
    \/ \E k \in Keys : DeleteMemory(t, k)
    \/ \E steps \in Steps : BeginTick(t, steps)
    \/ TickOn(t)
    \/ BeginSweep(t) \/ Scan(t) \/ Remove(t)

Spec == Init /\ [][Next]_vars

----------------------------------------------------------------------------
(* Properties. *)

\* What a call leaves behind when it runs alone.
Alone(t) ==
  LET start == [store |-> log[t].start, needsEviction |-> TRUE]
  IN  IF Ticking(t) THEN Tick(start, call[t].steps) ELSE EvictStale(start, Threshold)

\* engram_table.py:65: "Age all entries by `steps` simulated time steps."  A
\* tick does so, and evict_stale removes what line 73 says, for all memories
\* no other thread touches (or moves) under the call, whatever happens to the
\* others.
\* If it raises, only some may have aged or gone (then api.py:93 goes on as
\* if nothing were amiss, and api.py:104 resets the clock: the rest never get
\* that time); and it raises only when others have touched the table.
UntouchedAsAlone ==
  [][\A t \in Threads :
       LET rest == Keys \ log[t].touched
           was == log[t].start
       IN  Ticking(t) \/ Sweeping(t) =>
             /\ call'[t] = Idle => \A k \in rest : Get(table', k) = Get(Alone(t), k)
             /\ call'[t] = Raised =>
                  /\ log[t].touched # {}
                  /\ \A k \in rest : Get(table', k) \in {ValueAt(was, k), Get(Alone(t), k)}]_vars

\* interface.py:117: "Since eviction ran first, if hit is present, it is
\* guaranteed live and valid".  It is not, when another thread has written or
\* aged it behind the scan of a sweep, which then clears the flag.  But the
\* flag lies only of memories touched since the last whole sweep began, or
\* moved past its scan when the dict was rebuilt: all others are live whenever
\* it is clear, however many writes, ticks and sweeps overlap and whichever
\* of them raise.
LeftAloneIsLive ==
  ~table.needsEviction => Stale(table.store, Threshold) \subseteq unswept

\* What a step of a sweep removes.
Removed(t) ==
  IF Sweeping(t) /\ call'[t] # call[t] /\ call'[t].at = "remove"
  THEN DOMAIN table.store \ DOMAIN table'.store ELSE {}

\* A sweep lists keys first and deletes by key: a memory just written may go
\* with them.  But it removes a live memory only if another thread has
\* touched the key since the sweep began.
RemovesLiveOnlyIfTouched ==
  [][\A t \in Threads : Removed(t) \subseteq Stale(table.store, Threshold) \cup log[t].touched]_vars
=============================================================================
