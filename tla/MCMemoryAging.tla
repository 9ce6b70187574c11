--------------------------- MODULE MCMemoryAging ---------------------------
(* Saliences and thresholds are counted in sixteenths here. *)
EXTENDS MemoryAging

Half == [num |-> 1, den |-> 2]
ThreeQuarters == [num |-> 3, den |-> 4]

AllPolicies ==
  {ExponentialDecay(Half), ExponentialDecay(ThreeQuarters), NoDecay}
    \cup {LinearDecay(r) : r \in 1..3}

\* Days in tenths, with ties both ways.
MixedDeltas == {-5, 3, 5, 10, 15, 18, 25}
=============================================================================
