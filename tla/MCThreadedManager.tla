----------------------------- MODULE MCThreadedManager ---------------------
(* An adapter whose name ends like a label, beside the one it would be one of. *)
EXTENDS ThreadedManager

Smiths == {<<"smith">>, <<"smith", "warm">>}

Half == [num |-> 1, den |-> 2]

\* One payload: whether a key is there is all that can differ.
Fresh == {[text |-> CHOOSE t \in Texts : TRUE, salience |-> 4, affect |-> 0, age |-> 0,
           tags |-> {}, metadata |-> NoMetadata]}
=============================================================================
