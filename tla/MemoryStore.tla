---------------------------- MODULE MemoryStore ----------------------------
(***************************************************************************)
(* What the memory broker promises its callers, with no tables, no slots   *)
(* and no recency order: each adapter has the memories a caller sees now   *)
(* (live) and the ones a restart would find (saved).  A call touches the   *)
(* live memories of the one adapter it names.  Any other adapter may be    *)
(* checkpointed on the way, which is invisible but for metadata and for    *)
(* removed memories that the store never forgot.  Only a call that raises  *)
(* may take something back, from a single adapter, and then exactly what   *)
(* was not yet saved of it.                                                *)
(***************************************************************************)
EXTENDS SqliteBackend

CONSTANTS Adapters,
          Payloads, Steps, Thresholds,  \* what callers pass
          Done, Raised, Crashed         \* results of calls that return nothing

VARIABLES live, saved,
          ret           \* what the last call returned

vars == <<live, saved, ret>>

Init ==
  /\ live = [a \in Adapters |-> NoRows]
  /\ saved = [a \in Adapters |-> NoRows]
  /\ ret = Done

Same(a) == live'[a] = live[a] /\ saved'[a] = saved[a]

Checkpointed(a) ==
  /\ saved'[a] = Upserted(saved[a], Rows(live[a]))
  /\ live'[a] = saved'[a]

Reverted(a) == saved'[a] = saved[a] /\ live'[a] = saved[a]

\* Nothing but a checkpoint happens to the adapters of S.
Settled(S) == \A a \in S : Same(a) \/ Checkpointed(a)

Shaped ==
  /\ DOMAIN live' = Adapters /\ DOMAIN saved' = Adapters
  /\ \A a \in Adapters : IsContents(live'[a]) /\ IsContents(saved'[a])

\* A call on adapter a leaves contents as its live memories.
Answer(a, contents, value) ==
  /\ ret' = value
  /\ live'[a] = contents
  /\ saved'[a] = saved[a]
  /\ Settled(Adapters \ {a})
  /\ Shaped

Write(a, k, p) == Answer(a, With(live[a], k, p), Done)

Read(a, k) == Answer(a, live[a], [adapter |-> a, key |-> k, value |-> ValueAt(live[a], k)])

\* Time does not run backwards: a negative number of steps ages nothing.
Age(a, steps) ==
  LET passed == IF steps > 0 THEN steps ELSE 0
  IN  Answer(a, [k \in DOMAIN live[a] |-> [live[a][k] EXCEPT !.age = @ + passed]], Done)

\* A sweep may spare what is stale, never take what is not, and counts it.
Sweep(a, threshold) ==
  \E S \in SUBSET Stale(live[a], threshold) :
    Answer(a, Without(live[a], S),
           [adapter |-> a, threshold |-> threshold, count |-> Cardinality(S)])

\* A call that raises: at most one adapter falls back to what was saved.
Fail ==
  /\ ret' = Raised
  /\ \E a \in Adapters : Settled(Adapters \ {a}) /\ (Same(a) \/ Checkpointed(a) \/ Reverted(a))
  /\ Shaped

\* Unmounting is a checkpoint of the adapters unmounted.
Checkpoint == ret' = Done /\ Settled(Adapters) /\ Shaped

\* Retiring an adapter drops its database; memories in use stay in use.
Retire(a) ==
  /\ ret' = Done
  /\ saved'[a] = NoRows
  /\ live'[a] \in {live[a], NoRows}
  /\ Settled(Adapters \ {a})
  /\ Shaped

\* The process dies: what was not saved is gone.
Crash == ret' = Crashed /\ (\A a \in Adapters : Reverted(a)) /\ Shaped

Next ==
  \/ \E a \in Adapters :
       \/ \E k \in Keys : Read(a, k) \/ \E p \in Payloads : Write(a, k, p)
       \/ \E steps \in Steps : Age(a, steps)
       \/ \E threshold \in Thresholds : Sweep(a, threshold)
       \/ Retire(a)
  \/ Fail \/ Checkpoint \/ Crash

Spec == Init /\ [][Next]_vars
=============================================================================
