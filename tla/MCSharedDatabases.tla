------------------------- MODULE MCSharedDatabases -------------------------
(* Saliences are counted in quarters of 1.0; a step halves them. *)
EXTENDS SharedDatabases

Half == [num |-> 1, den |-> 2]

Fresh == {[text |-> CHOOSE t \in Texts : TRUE, salience |-> 3, affect |-> 0, age |-> 0,
           tags |-> {}, metadata |-> NoMetadata]}

NoOverride == [a \in {} |-> 0]

Worthless == {[f \in {"salience"} |-> 0]}

BothOrders == {s \in [1..2 -> Adapters] : s[1] # s[2]}

Symmetry == Permutations(Adapters)
=============================================================================
