-------------------------- MODULE MCEngRamManager --------------------------
(* Saliences are counted in quarters; a step halves them. *)
EXTENDS EngRamManager

Half == [num |-> 1, den |-> 2]
HalfLife == ExponentialDecay(Half)

Mem(text, salience, metadata) ==
  [text |-> text, salience |-> salience, affect |-> 0, age |-> 0, tags |-> {},
   metadata |-> metadata]

TextPayloads == {Mem(t, 4, NoMetadata) : t \in Texts}

StepCounts == {-1, 0, 1}

Symmetry == Permutations(Adapters)
=============================================================================
