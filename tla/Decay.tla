------------------------------- MODULE Decay -------------------------------
(***************************************************************************)
(* The decay policies of mrag/router/decay.py.  A salience is a whole      *)
(* number of units (the code's float times a fixed scale), a threshold is  *)
(* counted in the same units, and what a salience decays to is an exact    *)
(* fraction: floating-point rounding is the one thing left out.  A policy  *)
(* is a record, as the code's is an object; Exponential keeps num/den of   *)
(* the salience at each step (the code's 1 - rate).                        *)
(***************************************************************************)
EXTENDS Integers

CONSTANTS DefaultKeep,  \* [num, den]: 1 - DEFAULT_DECAY_RATE
          LookupSize    \* length of _DECAY_LOOKUP

ASSUME DefaultKeepAssumption ==
  /\ DefaultKeep \in [num : Nat, den : Nat]
  /\ 0 < DefaultKeep.num /\ DefaultKeep.num < DefaultKeep.den

ASSUME LookupSizeAssumption == LookupSize \in Nat \ {0}

ExponentialDecay(keep) == [kind |-> "exponential", keep |-> keep]
LinearDecay(rate) == [kind |-> "linear", rate |-> rate]
NoDecay == [kind |-> "none"]

DefaultPolicy == ExponentialDecay(DefaultKeep)

\* A policy with a rate in between: a memory keeps a part of its salience.
IsPolicy(policy) ==
  /\ policy.kind \in {"exponential", "linear", "none"}
  /\ policy.kind = "exponential" =>
       /\ policy.keep \in [num : Nat, den : Nat]
       /\ 0 < policy.keep.num /\ policy.keep.num < policy.keep.den
  /\ policy.kind = "linear" => policy.rate \in Nat \ {0}

Whole(n) == [num |-> n, den |-> 1]
Below(x, n) == x.num < n * x.den
NotBelow(x, y) == x.num * y.den >= y.num * x.den

\* base to the n-th, for n in Nat.
Pow(base, n) == LET p[i \in 0..n] == IF i = 0 THEN 1 ELSE base * p[i - 1] IN p[n]

\* salience * keep^n.
Power(keep, salience, n) ==
  IF n >= 0 THEN [num |-> salience * Pow(keep.num, n), den |-> Pow(keep.den, n)]
            ELSE [num |-> salience * Pow(keep.den, -n), den |-> Pow(keep.num, -n)]

\* A negative age, which write_memory does not refuse, indexes the list of
\* powers from its end (and is out of its range below -LookupSize).
LookupIndex(age) == IF age < 0 THEN age + LookupSize ELSE age

\* Mutant: past the table's end the salience comes back undecayed.
UndecayedPastLookup(keep, salience, age) ==
  IF keep # DefaultKeep THEN Power(keep, salience, age)
  ELSE IF age < LookupSize THEN Power(keep, salience, LookupIndex(age))
  ELSE Whole(salience)

Exponential(keep, salience, age) ==
  IF keep # DefaultKeep THEN Power(keep, salience, age)
  ELSE IF age < LookupSize THEN Power(keep, salience, LookupIndex(age))
  ELSE Whole(0)

Linear(rate, salience, age) ==
  IF age * rate < salience THEN Whole(salience - age * rate) ELSE Whole(0)

DecayedSalience(policy, salience, age) ==
  CASE policy.kind = "exponential" -> Exponential(policy.keep, salience, age)
    [] policy.kind = "linear"      -> Linear(policy.rate, salience, age)
    [] policy.kind = "none"        -> Whole(salience)

IsEvictable(policy, salience, age, threshold) ==
  Below(DecayedSalience(policy, salience, age), threshold)

\* Mutant: math.floor in the place of math.ceil.
FloorOfLogarithm(keep, salience, threshold, n) ==
  /\ salience * Pow(keep.num, n) >= threshold * Pow(keep.den, n)
  /\ salience * Pow(keep.num, n + 1) < threshold * Pow(keep.den, n + 1)

\* math.ceil of the logarithms' quotient: the least n with salience * keep^n
\* at or under the threshold.  The quotient never consults the lookup table.
LogSteps(keep, salience, threshold, n) ==
  /\ salience * Pow(keep.num, n) <= threshold * Pow(keep.den, n)
  /\ n > 0 => salience * Pow(keep.num, n - 1) > threshold * Pow(keep.den, n - 1)

\* TRUE iff steps_until_eviction returns n.  NoDecay's math.inf is no n at all.
PredictsEviction(policy, salience, threshold, n) ==
  IF salience < threshold \/ (salience <= 0 /\ policy.kind # "none")
  THEN n = 0
  ELSE CASE policy.kind = "exponential" -> LogSteps(policy.keep, salience, threshold, n)
         [] policy.kind = "linear" ->
              n = (salience - threshold + policy.rate - 1) \div policy.rate
         [] policy.kind = "none" -> FALSE

\* convert_pidx_delta: Python's round() of a number of days given in
\* tenths, ties to the even step; both decay constants are 0.05.
TenthsPerDay == 10

\* Mutant: int() in the place of round().
TruncatedPidxDelta(tenths) == IF tenths <= 0 THEN 0 ELSE tenths \div TenthsPerDay

ConvertPidxDelta(tenths) ==
  LET down == tenths \div TenthsPerDay
      rest == tenths % TenthsPerDay
  IN  IF tenths <= 0 THEN 0
      ELSE IF 2 * rest < TenthsPerDay \/ (2 * rest = TenthsPerDay /\ down % 2 = 0)
           THEN down
           ELSE down + 1
=============================================================================
