---------------------------- MODULE MCApiServer ----------------------------
(* Saliences are counted in quarters of 1.0; a step halves them. *)
EXTENDS ApiServer

Half == [num |-> 1, den |-> 2]

Fresh == {[text |-> CHOOSE t \in Texts : TRUE, salience |-> 3, affect |-> 4, age |-> 0,
           tags |-> {}, metadata |-> NoMetadata]}

\* Every adapter is an identity: its memories are kept down to 0.25.
AllIdentities == [a \in Adapters |-> 1]

\* An update out of range in both fields.
Overdone == {[f \in {"salience", "affect"} |-> 9]}

\* A packet without a boost, one up and one down.
BoostsTried == {[t \in {} |-> 0]} \cup UNION {{[t \in {a} |-> 4], [t \in {a} |-> -4]} : a \in Adapters}
Debt == -1

BothOrders == {s \in [1..2 -> Adapters] : s[1] # s[2]}

Symmetry == Permutations(Adapters)
=============================================================================
