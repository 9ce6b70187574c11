---------------------------- MODULE AffectRouter ----------------------------
(***************************************************************************)
(* mrag/router/affect_router.py: the band of a mean affect.  Bounds are    *)
(* counted in hundredths; an affect is an exact fraction [num, den].  A    *)
(* response of one adapter keeps the band only; a hint needs the label, an *)
(* adapter's name with the band after it.  A name is the sequence of the   *)
(* pieces between its underscores.                                         *)
(***************************************************************************)
EXTENDS Integers, Sequences

\* Highest first; the outermost bounds lie beyond the clamp.
AffectBands ==
  <<[low |-> 60,   high |-> 101, name |-> "warm"],
    [low |-> 20,   high |-> 60,  name |-> "cordial"],
    [low |-> -20,  high |-> 20,  name |-> "neutral"],
    [low |-> -60,  high |-> -20, name |-> "guarded"],
    [low |-> -101, high |-> -60, name |-> "hostile"]>>

BandNames == {AffectBands[i].name : i \in DOMAIN AffectBands}

ClampedAffect(affect) ==
  IF affect.num > affect.den THEN [num |-> 1, den |-> 1]
  ELSE IF affect.num < -affect.den THEN [num |-> -1, den |-> 1]
  ELSE affect

\* Inclusive below, exclusive above.
InBand(band, affect) ==
  band.low * affect.den <= 100 * affect.num /\ 100 * affect.num < band.high * affect.den

\* The bands _band_for may return: the first that matches, or none, and
\* then it raises.
BandsFor(affect) ==
  LET matches == {i \in DOMAIN AffectBands : InBand(AffectBands[i], ClampedAffect(affect))}
  IN  {AffectBands[i].name : i \in {j \in matches : \A m \in matches : j <= m}}

Label(adapter, band) == Append(adapter, band)
=============================================================================
