----------------------------- MODULE MCLruOrder ----------------------------
(* Saliences are counted in quarters; a step halves them.  A payload       *)
(* without text is a generic Engram, and one may carry metadata.           *)
EXTENDS LruOrder

Half == [num |-> 1, den |-> 2]
HalfLife == ExponentialDecay(Half)

Mem(text, metadata) ==
  [text |-> text, salience |-> 4, affect |-> 0, age |-> 0, tags |-> {},
   metadata |-> metadata]

AnyPayloads == {Mem(t, NoMetadata) : t \in Texts \cup {NoText}}
                 \cup {Mem(CHOOSE t \in Texts : TRUE, m) : m \in Metadata}

Symmetry == Permutations(Adapters)
=============================================================================
