---------------------------- MODULE FoldTheorems ----------------------------
(***************************************************************************)
(* Induction over the natural numbers and along a fold.  The provers do    *)
(* not instantiate a theorem over an operator, but INSTANCE does: a module *)
(* that needs the induction of a fold takes an instance of this one, with  *)
(* its own step and its own claim in the place of op and P.                *)
(***************************************************************************)
EXTENDS SequencesExt, Integers, WellFoundedInduction, TLAPS

CONSTANTS op(_, _, _),  \* op(p, x, y): what becomes of x when y is met, given p
          P(_, _, _)    \* P(q, k, x): what x is to be after k elements, given q

Fold(p, base, seq) == FoldLeft(LAMBDA x, y : op(p, x, y), base, seq)

\* Induction over the natural numbers, with a set in the place of a predicate.
LEMMA NatSetInduction ==
  ASSUME NEW S, 0 \in S, \A k \in Nat : k \in S => k + 1 \in S
  PROVE  Nat \subseteq S
<1> SUFFICES ASSUME NEW m \in Nat, m \notin S PROVE FALSE
  OBVIOUS
<1> DEFINE T == {k \in Nat : k \notin S}
<1>1. T \subseteq Nat /\ T # {}
  OBVIOUS
<1> HIDE DEF T
<1>2. PICK x \in T : \A y \in T : <<y, x>> \notin OpToRel(<, Nat)
  BY <1>1, NatLessThanWellFounded, WFMin
<1>3. \A y \in T : ~(y < x)
  BY <1>1, <1>2 DEF OpToRel
<1> QED
  BY <1>1, <1>3 DEF T

\* The greatest element of a set that the greatest number of a range is in.
LEMMA MaxOfRange ==
  ASSUME NEW k \in Nat, NEW s, s \subseteq 1..k, k \in s
  PROVE  Max(s) = k
<1>1. \A m \in s : (\A x \in s : m >= x) <=> m = k
  OBVIOUS
<1> QED
  BY <1>1 DEF Max

\* A fold is computed along the greatest indices of sets of them.
Body(p, base, seq, g, s) == IF s = {} THEN base ELSE op(p, g[s \ {Max(s)}], seq[Max(s)])

\* What the fold rests on exists: a value for each set of indices.
LEMMA FoldExists ==
  ASSUME NEW p, NEW base, NEW seq, NEW n \in Nat
  PROVE  \E g : g = [s \in SUBSET (1..n) |-> Body(p, base, seq, g, s)]
<1> DEFINE Exists(k) == \E g : g = [s \in SUBSET (1..k) |-> Body(p, base, seq, g, s)]
           K == {k \in Nat : Exists(k)}
<1>1. Exists(0)
  <2> DEFINE g == [s \in SUBSET (1..0) |-> base]
  <2>1. \A s \in SUBSET (1..0) : base = Body(p, base, seq, g, s)
    BY DEF Body
  <2>2. g = [s \in SUBSET (1..0) |-> Body(p, base, seq, g, s)]
    BY <2>1
  <2> QED
    BY <2>2
<1>2. ASSUME NEW k \in Nat, Exists(k) PROVE Exists(k + 1)
  <2>1. PICK g : g = [s \in SUBSET (1..k) |-> Body(p, base, seq, g, s)]
    BY <1>2
  <2> DEFINE Next(s) == op(p, g[s \ {k + 1}], seq[k + 1])
             h == [s \in SUBSET (1..k + 1) |-> IF k + 1 \in s THEN Next(s) ELSE g[s]]
  <2>2. ASSUME NEW s \in SUBSET (1..k + 1), k + 1 \in s PROVE h[s] = Body(p, base, seq, h, s)
    <3>1. s \subseteq 1..k + 1 /\ k + 1 \in Nat /\ s # {}
      BY <2>2
    <3>2. Max(s) = k + 1
      BY <2>2, <3>1, MaxOfRange
    <3>3. s \ {k + 1} \in SUBSET (1..k + 1) /\ h[s \ {k + 1}] = g[s \ {k + 1}]
      OBVIOUS
    <3>4. h[s] = Next(s)
      BY <2>2
    <3> HIDE DEF h
    <3> QED
      BY <3>1, <3>2, <3>3, <3>4 DEF Body
  <2>3. ASSUME NEW s \in SUBSET (1..k + 1), k + 1 \notin s PROVE h[s] = Body(p, base, seq, h, s)
    <3>1. s \in SUBSET (1..k)
      BY <2>3
    <3>2. h[s] = Body(p, base, seq, g, s)
      BY <2>1, <2>3, <3>1
    <3>3. s \ {Max(s)} \in SUBSET (1..k + 1) /\ h[s \ {Max(s)}] = g[s \ {Max(s)}]
      BY <2>3
    <3> HIDE DEF h
    <3> QED
      BY <3>2, <3>3 DEF Body
  <2>4. \A s \in SUBSET (1..k + 1) : h[s] = Body(p, base, seq, h, s)
    BY <2>2, <2>3
  <2>5. h = [s \in SUBSET (1..k + 1) |-> h[s]]
    OBVIOUS
  <2> HIDE DEF h
  <2>6. h = [s \in SUBSET (1..k + 1) |-> Body(p, base, seq, h, s)]
    BY <2>4, <2>5
  <2> QED
    BY <2>6
<1> HIDE DEF Exists
<1>3. 0 \in K /\ \A k \in Nat : k \in K => k + 1 \in K
  BY <1>1, <1>2
<1> HIDE DEF K
<1>4. n \in K
  BY <1>3, NatSetInduction
<1> QED
  BY <1>4 DEF K, Exists

\* What holds of the start, and passes from what comes before an element to
\* what comes after it, holds of the result.
LEMMA FoldInduction ==
  ASSUME NEW p, NEW q, NEW base, NEW seq, NEW n \in Nat, DOMAIN seq = 1..n,
         P(q, 0, base),
         \A i \in 1..n : \A x : P(q, i - 1, x) => P(q, i, op(p, x, seq[i]))
  PROVE  P(q, n, Fold(p, base, seq))
<1> DEFINE iter == CHOOSE g : g = [s \in SUBSET (1..n) |-> Body(p, base, seq, g, s)]
           L == {k \in Nat : k <= n => P(q, k, iter[1..k])}
<1>1. Fold(p, base, seq) = iter[1..n]
  BY DEF Fold, FoldLeft, MapThenFoldSet, Body
<1>2. iter = [s \in SUBSET (1..n) |-> Body(p, base, seq, iter, s)]
  BY FoldExists
<1> HIDE DEF iter
<1>3. iter[1..0] = base
  <2>1. 1..0 = {} /\ 1..0 \in SUBSET (1..n)
    OBVIOUS
  <2> QED
    BY <1>2, <2>1 DEF Body
<1>4. ASSUME NEW i \in 1..n PROVE iter[1..i] = op(p, iter[1..i - 1], seq[i])
  <2>1. 1..i \in SUBSET (1..n) /\ 1..i # {} /\ (1..i) \ {i} = 1..i - 1
    OBVIOUS
  <2>2. Max(1..i) = i
    BY MaxOfRange
  <2> QED
    BY <1>2, <2>1, <2>2 DEF Body
<1>5. 0 \in L
  BY <1>3
<1>6. ASSUME NEW k \in Nat, k \in L PROVE k + 1 \in L
  <2> SUFFICES ASSUME k + 1 <= n PROVE P(q, k + 1, iter[1..k + 1])
    OBVIOUS
  <2>1. k + 1 \in 1..n /\ (k + 1) - 1 = k /\ P(q, k, iter[1..k])
    BY <1>6
  <2> QED
    BY <1>4, <2>1
<1> HIDE DEF L
<1>7. n \in L
  BY <1>5, <1>6, NatSetInduction
<1> QED
  BY <1>1, <1>7 DEF L
=============================================================================
