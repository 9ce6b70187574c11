----------------------------- MODULE MCApiTime -----------------------------
(* Saliences are counted in 64ths of 1.0; a step halves them. *)
EXTENDS ApiTime

Half == [num |-> 1, den |-> 2]

Fresh == {[text |-> CHOOSE t \in Texts : TRUE, salience |-> 64, affect |-> 0, age |-> 0,
           tags |-> {}, metadata |-> NoMetadata]}

\* Every adapter is an identity: its memories are kept down to 24, and others to 48.
AllIdentities == [a \in Adapters |-> 24]

Symmetry == Permutations(Adapters) \cup Permutations(Threads)
=============================================================================
