---------------------------- MODULE MemoryAging ----------------------------
(***************************************************************************)
(* One memory growing old under one policy (mrag/router/decay.py) as PIDX  *)
(* packets arrive: handle_pidx_sync (mrag/bridge/interface.py) converts a  *)
(* packet's decay_delta, a number of days, to whole steps and ticks the    *)
(* table by them.  The age is watched against the days that passed, the    *)
(* threshold that evict_stale compares with and the number of steps that   *)
(* steps_until_eviction promised.                                          *)
(***************************************************************************)
EXTENDS Decay

CONSTANTS Policies, Saliences, Thresholds,
          Deltas,       \* decay_delta values, in tenths of a day
          MaxAge,       \* bound: predictions considered
          MaxSyncs      \* bound: packets considered

ASSUME DeltasAssumption == Deltas \subseteq Int
ASSUME AgingAssumption ==
  /\ \A p \in Policies : IsPolicy(p)
  /\ Saliences \subseteq Int /\ Thresholds \subseteq Nat \ {0}

VARIABLES policy, salience, threshold,
          age,          \* steps the memory was aged by
          elapsed,      \* tenths of a day that PIDX has reported in all
          syncs         \* packets handled

vars == <<policy, salience, threshold, age, elapsed, syncs>>

\* 0.95^1000 is below every threshold in use: under the default policy, the
\* one that has a lookup table, the zero that replaces the power where the
\* table ends never decides an eviction on its own.
LookupReaches ==
  policy.kind = "exponential" /\ policy.keep = DefaultKeep =>
    salience * Pow(policy.keep.num, LookupSize) < threshold * Pow(policy.keep.den, LookupSize)

Init ==
  /\ policy \in Policies
  /\ salience \in Saliences
  /\ threshold \in Thresholds
  /\ LookupReaches
  /\ age = 0 /\ elapsed = 0 /\ syncs = 0

\* What the conversion rounds away is not carried to the next packet.
PidxSync(delta) ==
  /\ syncs < MaxSyncs
  /\ syncs' = syncs + 1
  /\ elapsed' = IF delta > 0 THEN elapsed + delta ELSE elapsed
  /\ age' = age + ConvertPidxDelta(delta)
  /\ UNCHANGED <<policy, salience, threshold>>

Next == \E delta \in Deltas : PidxSync(delta)
Spec == Init /\ [][Next]_vars

Evictable == IsEvictable(policy, salience, age, threshold)
Decayed == DecayedSalience(policy, salience, age)

Predicted(n) == PredictsEviction(policy, salience, threshold, n)

\* A packet never raises what a memory is worth: once evictable under a
\* threshold it stays so, also across the end of the lookup table.
DecayNeverRises == [][NotBelow(Decayed, Decayed') /\ (Evictable => Evictable')]_vars

\* steps_until_eviction is exact up to ties: before the step it names the
\* memory is kept, and from that step on its salience is at or under the
\* threshold (under it, and so evictable, one step later at the latest).
PredictionIsTight ==
  \A n \in 0..MaxAge :
    Predicted(n) => /\ age < n => ~Evictable
                    /\ age >= n => NotBelow(Whole(threshold), Decayed)
                    /\ age > n => Evictable

Magnitude(n) == IF n < 0 THEN -n ELSE n

\* decay.py:13-16: a step is a PIDX day.  A packet puts the age of a memory
\* at most half a step off PIDX's days, in either direction, so n packets
\* put it at most n halves off.
DriftPerSync == 2 * Magnitude(TenthsPerDay * age - elapsed) <= TenthsPerDay * syncs
=============================================================================
