------------------------ MODULE MemoryAging_proofs -------------------------
(***************************************************************************)
(* What time and rounding do to one memory, for every policy, salience and *)
(* threshold, every length of the lookup table, and every sequence of      *)
(* packets.  Of StoreTheorems only the lemmas about powers are used, and   *)
(* none of the constants it has beside those of MemoryAging.               *)
(***************************************************************************)
EXTENDS MemoryAging, StoreTheorems

----------------------------------------------------------------------------
(* The age against PIDX's days. *)

\* The state DriftPerSync speaks of holds whole numbers.
AgingTypeOK == age \in Nat /\ elapsed \in Int /\ syncs \in Nat

\* convert_pidx_delta (decay.py:150-157) rounds to a nearest number of days,
\* and a packet that reports no time takes no step.
LEMMA ConversionRounds ==
  ASSUME NEW tenths \in Int
  PROVE  /\ ConvertPidxDelta(tenths) \in Nat
         /\ tenths <= 0 => ConvertPidxDelta(tenths) = 0
         /\ tenths > 0 => LET off == TenthsPerDay * ConvertPidxDelta(tenths) - tenths
                          IN  2 * off <= TenthsPerDay /\ -2 * off <= TenthsPerDay
BY DEF ConvertPidxDelta, TenthsPerDay

\* A packet moves the age and PIDX's time apart by half a day at most, and
\* the age never back.
LEMMA SyncDrifts ==
  ASSUME AgingTypeOK, NEW delta \in Deltas, PidxSync(delta)
  PROVE  AgingTypeOK' /\ age' >= age /\ (DriftPerSync => DriftPerSync')
<1> DEFINE steps == ConvertPidxDelta(delta)
<1>1. delta \in Int
  BY DeltasAssumption
<1>2. /\ steps \in Nat
      /\ delta <= 0 => steps = 0
      /\ delta > 0 => LET off == TenthsPerDay * steps - delta
                      IN  2 * off <= TenthsPerDay /\ -2 * off <= TenthsPerDay
  BY <1>1, ConversionRounds
<1>3. age' = age + steps /\ syncs' = syncs + 1 /\ elapsed' = IF delta > 0 THEN elapsed + delta ELSE elapsed
  BY DEF PidxSync
<1> HIDE DEF steps
<1> QED
  BY <1>1, <1>2, <1>3 DEF AgingTypeOK, DriftPerSync, Magnitude, TenthsPerDay

----------------------------------------------------------------------------
(* Decay, policy by policy.  A salience at an age is compared with a       *)
(* threshold as the code compares them, numerator by denominator.          *)

\* Where x is at most y, and so is u at most v, the products are.
LEMMA Scaling ==
  ASSUME NEW x \in Int, NEW y \in Nat \ {0}, NEW u \in Nat \ {0}, NEW v \in Nat \ {0}, u <= v
  PROVE  /\ x < y => x * u < y * v
         /\ x <= y => x * u <= y * v
         /\ x <= y /\ u < v => x * u < y * v
<1>1. (x <= y => x * u <= y * u) /\ (x < y => x * u < y * u)
  OBVIOUS
<1>2. y * u <= y * v /\ (u < v => y * u < y * v)
  OBVIOUS
<1>3. x * u \in Int /\ y * u \in Int /\ y * v \in Int
  OBVIOUS
<1> QED
  BY <1>1, <1>2, <1>3

\* A rate between 0 and 1, and n steps of it.
IsKeep(keep) == keep.num \in Nat \ {0} /\ keep.den \in Nat \ {0} /\ keep.num < keep.den

\* The powers of such a rate are fractions, below 1 from the first step on.
LEMMA KeepPowers ==
  ASSUME NEW keep, IsKeep(keep), NEW n \in Nat
  PROVE  /\ Pow(keep.num, n) \in Nat \ {0} /\ Pow(keep.den, n) \in Nat \ {0}
         /\ Pow(keep.num, n) <= Pow(keep.den, n)
         /\ n > 0 => Pow(keep.num, n) < Pow(keep.den, n)
<1>1. /\ keep.num \in Nat \ {0} /\ keep.den \in Nat \ {0} /\ keep.num < keep.den
  BY DEF IsKeep
<1>2. /\ \A k \in Nat : Pow(keep.num, k) \in Nat \ {0} /\ Pow(keep.den, k) \in Nat \ {0}
      /\ \A k \in Nat : Pow(keep.num, k) <= Pow(keep.den, k)
  BY <1>1, PowPositive, PowMonotone
<1>3. ASSUME n > 0 PROVE Pow(keep.num, n) < Pow(keep.den, n)
  <2> DEFINE m == n - 1
  <2>1. m \in Nat /\ n = m + 1
    BY <1>3
  <2> HIDE DEF m
  <2>2. Pow(keep.num, n) = keep.num * Pow(keep.num, m) /\ Pow(keep.den, n) = keep.den * Pow(keep.den, m)
    BY <2>1, PowNext
  <2>3. Pow(keep.num, m) \in Nat \ {0} /\ Pow(keep.den, m) \in Nat \ {0} /\ Pow(keep.num, m) <= Pow(keep.den, m)
    BY <1>2, <2>1
  <2>4. Pow(keep.num, m) * keep.num < Pow(keep.den, m) * keep.den
    BY <1>1, <2>3, Scaling
  <2>5. \A x, y \in Nat : x * y = y * x
    OBVIOUS
  <2> QED
    BY <1>1, <2>2, <2>3, <2>4, <2>5
<1> QED
  BY <1>2, <1>3

\* How salience * keep^n compares with a limit, in units.
Under(keep, s, n, limit) == s * Pow(keep.num, n) < limit * Pow(keep.den, n)
UpTo(keep, s, n, limit) == s * Pow(keep.num, n) <= limit * Pow(keep.den, n)

\* What is under a limit stays under it, and what is no more than a limit
\* stays so and is under it with the next step.
LEMMA UnderLater ==
  ASSUME NEW keep, IsKeep(keep), NEW s \in Int, NEW limit \in Nat \ {0},
         NEW m \in Nat, NEW n \in Nat, m <= n
  PROVE  /\ Under(keep, s, m, limit) => Under(keep, s, n, limit)
         /\ UpTo(keep, s, m, limit) => UpTo(keep, s, n, limit)
         /\ UpTo(keep, s, m, limit) /\ m < n => Under(keep, s, n, limit)
<1> DEFINE c == n - m
           N(k) == Pow(keep.num, k)
           D(k) == Pow(keep.den, k)
<1>1. c \in Nat /\ n = m + c /\ (m < n => c > 0)
  OBVIOUS
<1> HIDE DEF c
<1>2. keep.num \in Nat \ {0} /\ keep.den \in Nat \ {0}
  BY DEF IsKeep
<1>3. N(n) = N(m) * N(c) /\ D(n) = D(m) * D(c)
  BY <1>1, <1>2, PowSum
<1>4. /\ N(m) \in Nat \ {0} /\ D(m) \in Nat \ {0} /\ N(c) \in Nat \ {0} /\ D(c) \in Nat \ {0}
      /\ N(c) <= D(c) /\ (c > 0 => N(c) < D(c))
  BY <1>1, KeepPowers
<1> HIDE DEF N, D
<1>5. \A i, j, k \in Int : i * (j * k) = (i * j) * k
  OBVIOUS
<1>6. s * N(n) = (s * N(m)) * N(c) /\ limit * D(n) = (limit * D(m)) * D(c)
  BY <1>3, <1>4, <1>5
<1>7. s * N(m) \in Int /\ limit * D(m) \in Nat \ {0}
  BY <1>4
<1>8. /\ s * N(m) < limit * D(m) => s * N(n) < limit * D(n)
      /\ s * N(m) <= limit * D(m) => s * N(n) <= limit * D(n)
      /\ s * N(m) <= limit * D(m) /\ m < n => s * N(n) < limit * D(n)
  BY <1>1, <1>4, <1>6, <1>7, Scaling
<1> QED
  BY <1>8 DEF Under, UpTo, N, D

\* Of a salience that is not negative, less is left with every step.
LEMMA PowerFalls ==
  ASSUME NEW keep, IsKeep(keep), NEW s \in Nat, NEW m \in Nat, NEW n \in Nat, m <= n
  PROVE  NotBelow(Power(keep, s, m), Power(keep, s, n))
<1> DEFINE c == n - m
           N(k) == Pow(keep.num, k)
           D(k) == Pow(keep.den, k)
<1>1. c \in Nat /\ n = m + c
  OBVIOUS
<1> HIDE DEF c
<1>2. keep.num \in Nat \ {0} /\ keep.den \in Nat \ {0}
  BY DEF IsKeep
<1>3. N(n) = N(m) * N(c) /\ D(n) = D(m) * D(c)
  BY <1>1, <1>2, PowSum
<1>4. /\ N(m) \in Nat /\ D(m) \in Nat /\ N(c) \in Nat /\ D(c) \in Nat /\ N(c) <= D(c)
  BY <1>1, KeepPowers
<1>5. /\ Power(keep, s, m) = [num |-> s * N(m), den |-> D(m)]
      /\ Power(keep, s, n) = [num |-> s * N(n), den |-> D(n)]
  BY DEF Power
<1> HIDE DEF N, D
<1>6. \A i, j, k, l \in Nat : (i * j) * (k * l) = (i * j * k) * l
  OBVIOUS
<1>7. \A i, j, k, l \in Nat : (i * (j * l)) * k = (i * j * k) * l
  OBVIOUS
<1> DEFINE z == s * N(m) * D(m)
<1>8. (s * N(m)) * (D(m) * D(c)) = z * D(c) /\ (s * (N(m) * N(c))) * D(m) = z * N(c)
  BY <1>4, <1>6, <1>7
<1>9. z \in Nat
  BY <1>4
<1> HIDE DEF z
<1>10. z * D(c) >= z * N(c)
  BY <1>4, <1>9
<1> QED
  BY <1>3, <1>5, <1>8, <1>10 DEF NotBelow

\* The lookup table gives the power, and beyond its end there is nothing.
LEMMA ExponentialCases ==
  ASSUME NEW keep, NEW s, NEW n \in Nat
  PROVE  \/ Exponential(keep, s, n) = Power(keep, s, n)
         \/ n >= LookupSize /\ keep = DefaultKeep /\ Exponential(keep, s, n) = Whole(0)
<1>1. LookupIndex(n) = n
  BY DEF LookupIndex
<1> QED
  BY <1>1, LookupSizeAssumption DEF Exponential

\* The comparisons of MemoryAging, for what a power and zero are.
LEMMA Compared ==
  ASSUME NEW keep, IsKeep(keep), NEW s \in Int, NEW n \in Nat, NEW limit \in Nat \ {0}
  PROVE  /\ Below(Power(keep, s, n), limit) <=> Under(keep, s, n, limit)
         /\ NotBelow(Whole(limit), Power(keep, s, n)) <=> UpTo(keep, s, n, limit)
         /\ s \in Nat => NotBelow(Power(keep, s, n), Whole(0))
         /\ Below(Whole(0), limit) /\ NotBelow(Whole(limit), Whole(0)) /\ NotBelow(Whole(0), Whole(0))
<1>1. Power(keep, s, n) = [num |-> s * Pow(keep.num, n), den |-> Pow(keep.den, n)]
  BY DEF Power
<1>2. Pow(keep.num, n) \in Nat /\ Pow(keep.den, n) \in Nat
  BY KeepPowers
<1>3. \A x \in Int : x * 1 = x /\ 0 * x = 0
  OBVIOUS
<1>4. s * Pow(keep.num, n) \in Int /\ (s \in Nat => s * Pow(keep.num, n) >= 0)
  BY <1>2
<1>5. NotBelow(Whole(limit), Power(keep, s, n)) <=> UpTo(keep, s, n, limit)
  BY <1>1, <1>3, <1>4, <1>2 DEF NotBelow, UpTo, Whole
<1>6. s \in Nat => NotBelow(Power(keep, s, n), Whole(0))
  BY <1>1, <1>2, <1>3, <1>4 DEF NotBelow, Whole
<1> QED
  BY <1>1, <1>5, <1>6 DEF Below, NotBelow, Under, Whole

\* What IsPolicy says of an exponential policy, in the terms used here.
LEMMA ExponentialKeep ==
  ASSUME NEW p, IsPolicy(p), p.kind = "exponential"
  PROVE  IsKeep(p.keep) /\ \A s, n : DecayedSalience(p, s, n) = Exponential(p.keep, s, n)
BY DEF IsPolicy, IsKeep, DecayedSalience

\* Under a linear policy the salience left is never negative.
LEMMA LinearWorth ==
  ASSUME NEW rate \in Nat \ {0}, NEW s \in Int, NEW n \in Nat
  PROVE  /\ n * rate \in Nat
         /\ Linear(rate, s, n) = Whole(IF n * rate < s THEN s - n * rate ELSE 0)
BY DEF Linear

\* What a memory is worth does not rise with its age, and once it is
\* evictable it stays so; the second also if it is worth less than nothing.
LEMMA WorthFalls ==
  ASSUME NEW p, IsPolicy(p), NEW s \in Int, NEW m \in Nat, NEW n \in Nat, m <= n,
         NEW limit \in Nat \ {0}
  PROVE  /\ s \in Nat => NotBelow(DecayedSalience(p, s, m), DecayedSalience(p, s, n))
         /\ IsEvictable(p, s, m, limit) => IsEvictable(p, s, n, limit)
<1>1. CASE p.kind = "exponential"
  <2> DEFINE keep == p.keep
  <2>1. IsKeep(keep) /\ \A k : DecayedSalience(p, s, k) = Exponential(keep, s, k)
    BY <1>1, ExponentialKeep
  <2> HIDE DEF keep
  <2>2. CASE Exponential(keep, s, n) = Whole(0)
    <3>1. s \in Nat => NotBelow(Exponential(keep, s, m), Whole(0))
      BY <2>1, ExponentialCases, Compared
    <3>2. Below(Whole(0), limit)
      BY <2>1, Compared
    <3> QED
      BY <2>1, <2>2, <3>1, <3>2 DEF IsEvictable
  <2>3. CASE Exponential(keep, s, n) # Whole(0)
    <3>1. Exponential(keep, s, n) = Power(keep, s, n)
      BY <2>3, ExponentialCases
    <3>2. Exponential(keep, s, m) = Power(keep, s, m)
      <4>1. keep = DefaultKeep => n < LookupSize
        BY <2>3, LookupSizeAssumption DEF Exponential
      <4>2. LookupIndex(m) = m
        BY DEF LookupIndex
      <4> QED
        BY <4>1, <4>2, LookupSizeAssumption DEF Exponential
    <3> QED
      BY <2>1, <3>1, <3>2, PowerFalls, UnderLater, Compared DEF IsEvictable
  <2> QED
    BY <2>2, <2>3
<1>2. CASE p.kind = "linear"
  <2> DEFINE rate == p.rate
  <2>1. rate \in Nat \ {0} /\ \A k : DecayedSalience(p, s, k) = Linear(rate, s, k)
    BY <1>2 DEF IsPolicy, DecayedSalience
  <2> HIDE DEF rate
  <2>2. m * rate \in Nat /\ n * rate \in Nat /\ m * rate <= n * rate
    BY <2>1
  <2> DEFINE w(k) == IF k * rate < s THEN s - k * rate ELSE 0
  <2>3. w(m) \in Nat /\ w(n) \in Nat /\ w(n) <= w(m)
    BY <2>2
  <2>4. DecayedSalience(p, s, m) = Whole(w(m)) /\ DecayedSalience(p, s, n) = Whole(w(n))
    BY <2>1, LinearWorth
  <2> HIDE DEF w
  <2> QED
    BY <2>3, <2>4 DEF IsEvictable, Below, NotBelow, Whole
<1>3. CASE p.kind = "none"
  BY <1>3 DEF DecayedSalience, IsEvictable, Below, NotBelow, Whole
<1> QED
  BY <1>1, <1>2, <1>3 DEF IsPolicy

\* steps_until_eviction, of a policy whose lookup table reaches far enough.
LEMMA PredictionHolds ==
  ASSUME NEW p, IsPolicy(p), NEW s \in Int, NEW limit \in Nat \ {0}, NEW a \in Nat, NEW n \in Nat,
         p.kind = "exponential" /\ p.keep = DefaultKeep => Under(p.keep, s, LookupSize, limit),
         PredictsEviction(p, s, limit, n)
  PROVE  /\ a < n => ~IsEvictable(p, s, a, limit)
         /\ a >= n => NotBelow(Whole(limit), DecayedSalience(p, s, a))
         /\ a > n => IsEvictable(p, s, a, limit)
<1>1. CASE p.kind = "exponential"
  <2> DEFINE keep == p.keep
  <2>1. IsKeep(keep) /\ \A k : DecayedSalience(p, s, k) = Exponential(keep, s, k)
    BY <1>1, ExponentialKeep
  <2>2. (keep = DefaultKeep => Under(keep, s, LookupSize, limit)) /\ LookupSize \in Nat
    BY <1>1, LookupSizeAssumption
  <2>3. /\ UpTo(keep, s, n, limit)
        /\ s < limit => n = 0 /\ Under(keep, s, 0, limit)
        /\ n > 0 => ~Under(keep, s, n - 1, limit)
    <3>1. CASE s < limit \/ s <= 0
      <4>1. n = 0 /\ s < limit
        BY <1>1, <3>1 DEF PredictsEviction
      <4>2. Pow(keep.num, 0) = 1 /\ Pow(keep.den, 0) = 1
        BY PowNext
      <4> HIDE DEF keep
      <4>3. s * 1 = s /\ limit * 1 = limit
        OBVIOUS
      <4> QED
        BY <4>1, <4>2, <4>3 DEF Under, UpTo
    <3>2. CASE ~(s < limit \/ s <= 0)
      <4>1. LogSteps(keep, s, limit, n)
        BY <1>1, <3>2 DEF PredictsEviction
      <4> HIDE DEF keep
      <4>2. /\ s * Pow(keep.num, n) <= limit * Pow(keep.den, n)
            /\ n > 0 => s * Pow(keep.num, n - 1) > limit * Pow(keep.den, n - 1)
        BY <4>1 DEF LogSteps
      <4>3. n > 0 => ~Under(keep, s, n - 1, limit)
        <5> SUFFICES ASSUME n > 0 PROVE ~Under(keep, s, n - 1, limit)
          OBVIOUS
        <5>1. n - 1 \in Nat
          OBVIOUS
        <5>2. Pow(keep.num, n - 1) \in Nat /\ Pow(keep.den, n - 1) \in Nat
          BY <2>1, <5>1, KeepPowers
        <5>3. s * Pow(keep.num, n - 1) \in Int /\ limit * Pow(keep.den, n - 1) \in Int
          BY <5>2
        <5> QED
          BY <4>2, <5>3 DEF Under
      <4> QED
        BY <3>2, <4>2, <4>3 DEF UpTo
    <3> QED
      BY <3>1, <3>2
  <2> HIDE DEF keep
  <2>4. ASSUME a < n PROVE ~IsEvictable(p, s, a, limit)
    <3>1. n - 1 \in Nat /\ a <= n - 1 /\ ~Under(keep, s, n - 1, limit)
      BY <2>3, <2>4
    <3>2. ~Under(keep, s, a, limit) /\ ~(keep = DefaultKeep /\ LookupSize <= n - 1)
      BY <2>1, <2>2, <3>1, UnderLater
    <3>3. Exponential(keep, s, a) = Power(keep, s, a)
      BY <2>2, <3>1, <3>2, ExponentialCases
    <3> QED
      BY <2>1, <3>2, <3>3, Compared DEF IsEvictable
  <2>5. ASSUME a >= n
        PROVE  /\ NotBelow(Whole(limit), DecayedSalience(p, s, a))
               /\ a > n => IsEvictable(p, s, a, limit)
    <3>1. UpTo(keep, s, a, limit) /\ (a > n => Under(keep, s, a, limit))
      BY <2>1, <2>3, <2>5, UnderLater
    <3> QED
      BY <2>1, <3>1, ExponentialCases, Compared DEF IsEvictable
  <2> QED
    BY <2>4, <2>5
<1>2. CASE p.kind = "linear"
  <2> DEFINE rate == p.rate
             w == IF a * rate < s THEN s - a * rate ELSE 0
  <2>1. rate \in Nat \ {0} /\ DecayedSalience(p, s, a) = Linear(rate, s, a)
    BY <1>2 DEF IsPolicy, DecayedSalience
  <2>2. IF s < limit \/ s <= 0 THEN n = 0 ELSE n = (s - limit + rate - 1) \div rate
    BY <1>2 DEF PredictsEviction
  <2> HIDE DEF rate
  <2>3. DecayedSalience(p, s, a) = Whole(w)
    BY <2>1, LinearWorth
  <2>4. a * rate \in Nat
    BY <2>1
  <2>5. CASE s < limit \/ s <= 0
    <3>1. w < limit /\ w \in Nat
      BY <2>4, <2>5
    <3> HIDE DEF w
    <3> QED
      BY <2>2, <2>3, <2>5, <3>1 DEF IsEvictable, Below, NotBelow, Whole
  <2>6. CASE ~(s < limit \/ s <= 0)
    <3> DEFINE q == s - limit + rate - 1
    <3>1. q \in Nat /\ n = q \div rate
      BY <2>1, <2>2, <2>6
    <3>2. n * rate <= q /\ q < n * rate + rate /\ n * rate \in Nat
      BY <2>1, <3>1
    <3>3. a < n => a * rate + rate <= n * rate
      <4>1. a < n => (a + 1) * rate <= n * rate
        BY <2>1
      <4>2. (a + 1) * rate = a * rate + rate
        BY <2>1
      <4> QED
        BY <4>1, <4>2
    <3>4. a >= n => a * rate >= n * rate
      BY <2>1
    <3>5. a > n => a * rate >= n * rate + rate
      <4>1. a > n => a * rate >= (n + 1) * rate
        BY <2>1
      <4>2. (n + 1) * rate = n * rate + rate
        BY <2>1
      <4> QED
        BY <4>1, <4>2
    <3>6. w \in Nat /\ (a < n => w >= limit) /\ (a >= n => w <= limit) /\ (a > n => w < limit)
      BY <2>1, <2>4, <2>6, <3>2, <3>3, <3>4, <3>5
    <3> HIDE DEF w
    <3> QED
      BY <2>3, <3>6 DEF IsEvictable, Below, NotBelow, Whole
  <2> QED
    BY <2>5, <2>6
<1>3. CASE p.kind = "none"
  <2>1. n = 0 /\ s < limit
    BY <1>3 DEF PredictsEviction
  <2> QED
    BY <1>3, <2>1 DEF DecayedSalience, IsEvictable, Below, NotBelow, Whole
<1> QED
  BY <1>1, <1>2, <1>3 DEF IsPolicy
----------------------------------------------------------------------------
(* The life of one memory. *)

\* What aging and packets leave alone, beside the counters.
AgingInv ==
  /\ AgingTypeOK
  /\ policy \in Policies /\ salience \in Saliences /\ threshold \in Thresholds
  /\ LookupReaches
  /\ DriftPerSync

\* Every state of a run satisfies AgingInv.
LEMMA AgingSound == Spec => []AgingInv
<1>1. Init => AgingInv
  <2>1. 2 * Magnitude(TenthsPerDay * 0 - 0) <= TenthsPerDay * 0
    BY DEF Magnitude, TenthsPerDay
  <2> QED
    BY <2>1 DEF Init, AgingInv, AgingTypeOK, DriftPerSync
<1>2. AgingInv /\ [Next]_vars => AgingInv'
  <2> SUFFICES ASSUME AgingInv, [Next]_vars PROVE AgingInv'
    OBVIOUS
  <2>1. CASE Next
    <3>1. PICK delta \in Deltas : PidxSync(delta)
      BY <2>1 DEF Next
    <3>2. AgingTypeOK' /\ DriftPerSync'
      BY <3>1, SyncDrifts DEF AgingInv
    <3>3. UNCHANGED <<policy, salience, threshold>>
      BY <3>1 DEF PidxSync
    <3> QED
      BY <3>2, <3>3 DEF AgingInv, LookupReaches
  <2>2. CASE UNCHANGED vars
    BY <2>2 DEF AgingInv, AgingTypeOK, LookupReaches, DriftPerSync, Magnitude, vars
  <2> QED
    BY <2>1, <2>2
<1> QED
  BY <1>1, <1>2, PTL DEF Spec

\* However many packets come, and whatever each reports, the age is at most
\* half a step a packet off the days that PIDX counts.
THEOREM DriftIsBounded == Spec => []DriftPerSync
<1>1. AgingInv => DriftPerSync
  BY DEF AgingInv
<1> QED
  BY <1>1, AgingSound, PTL

\* For every policy, salience and threshold, steps_until_eviction names the
\* step at which the memory goes, or the one before it where it is tied.
THEOREM PredictionIsExact == Spec => []PredictionIsTight
<1>1. AgingInv => PredictionIsTight
  <2> SUFFICES ASSUME AgingInv, NEW n \in 0..MaxAge, Predicted(n)
               PROVE  /\ age < n => ~Evictable
                      /\ age >= n => NotBelow(Whole(threshold), Decayed)
                      /\ age > n => Evictable
    BY DEF PredictionIsTight
  <2>1. IsPolicy(policy) /\ salience \in Int /\ threshold \in Nat \ {0} /\ age \in Nat /\ n \in Nat
    BY AgingAssumption DEF AgingInv, AgingTypeOK
  <2>2. policy.kind = "exponential" /\ policy.keep = DefaultKeep
          => Under(policy.keep, salience, LookupSize, threshold)
    BY DEF AgingInv, LookupReaches, Under
  <2>3. PredictsEviction(policy, salience, threshold, n)
    BY DEF Predicted
  <2> QED
    BY <2>1, <2>2, <2>3, PredictionHolds DEF Evictable, Decayed
<1> QED
  BY <1>1, AgingSound, PTL

\* A packet leaves the policy and the memory's salience, and ages it.
LEMMA StepAges ==
  ASSUME AgingInv, [Next]_vars
  PROVE  /\ policy' = policy /\ salience' = salience /\ threshold' = threshold
         /\ age' \in Nat /\ age <= age'
         /\ IsPolicy(policy) /\ salience \in Int /\ threshold \in Nat \ {0} /\ age \in Nat
<1>1. IsPolicy(policy) /\ salience \in Int /\ threshold \in Nat \ {0} /\ age \in Nat
  BY AgingAssumption DEF AgingInv, AgingTypeOK
<1>2. CASE Next
  <2>1. PICK delta \in Deltas : PidxSync(delta)
    BY <1>2 DEF Next
  <2>2. age' \in Nat /\ age' >= age
    BY <2>1, SyncDrifts DEF AgingInv, AgingTypeOK
  <2> QED
    BY <1>1, <2>1, <2>2 DEF PidxSync
<1>3. CASE UNCHANGED vars
  BY <1>1, <1>3 DEF vars
<1> QED
  BY <1>2, <1>3

\* What makes a memory go keeps being so: no packet, under no policy, takes an
\* evictable memory back over the threshold, at the lookup table's end or
\* elsewhere.  This holds of a negative salience too.
THEOREM EvictableForGood == Spec => [][Evictable => Evictable']_vars
<1>1. AgingInv /\ [Next]_vars => [Evictable => Evictable']_vars
  BY StepAges, WorthFalls DEF Evictable
<1> QED
  BY <1>1, AgingSound, PTL DEF Spec

\* Where no salience is negative, what a memory is worth never rises either.
\* (A negative one decays towards zero, which is upwards.)
THEOREM WorthNeverRises == Saliences \subseteq Nat => (Spec => DecayNeverRises)
<1>1. ASSUME Saliences \subseteq Nat, AgingInv, [Next]_vars
      PROVE  NotBelow(Decayed, Decayed') /\ (Evictable => Evictable')
  <2>1. salience \in Nat
    BY <1>1 DEF AgingInv
  <2> QED
    BY <1>1, <2>1, StepAges, WorthFalls DEF Evictable, Decayed
<1>2. ASSUME Saliences \subseteq Nat
      PROVE  AgingInv /\ [Next]_vars => [NotBelow(Decayed, Decayed') /\ (Evictable => Evictable')]_vars
  BY <1>1, <1>2
<1>3. ASSUME Saliences \subseteq Nat PROVE Spec => DecayNeverRises
  BY <1>2, <1>3, AgingSound, PTL DEF Spec, DecayNeverRises
<1> QED
  BY <1>3
=============================================================================
