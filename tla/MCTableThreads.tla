---------------------------- MODULE MCTableThreads -------------------------
(* A memory is written at the threshold, 2, and a step takes it below. *)
EXTENDS TableThreads

Half == [num |-> 1, den |-> 2]

Fresh == {[text |-> CHOOSE t \in Texts : TRUE, salience |-> 2, affect |-> 0, age |-> 0,
           tags |-> {}, metadata |-> NoMetadata]}

Symmetry == Permutations(Keys) \cup Permutations(Threads)
=============================================================================
