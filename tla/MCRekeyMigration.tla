-------------------------- MODULE MCRekeyMigration --------------------------
(* Two texts with one key, though one ends in a Polish letter, and the      *)
(* first more salient than the other or less; a third with the letters of   *)
(* the first, and two that cannot be hashed.  The tags play no part but     *)
(* that a rewrite turns them into quotes.                                   *)
EXTENDS RekeyMigration

CONSTANTS quote

\* str.lower, of the characters used here.
LowerCase(c) ==
  CASE c \in 65..90 \cup 192..222 -> <<c + 32>>
    [] c = 304                     -> <<105, 775>>
    [] OTHER                       -> <<c>>

wez  == <<119, 101, 122>>
wezh == <<119, 101, 378>>
wze  == <<119, 122, 101>>
ee   == <<233, 233>>
long == <<40845, 97, 98>>

Words == {wez, wezh, wze, ee, long}

\* Texts of one to four letters, in one case and the other.
Questions ==
  UNION {[1..n -> {69, 101, 122, 233}] : n \in 0..2} \cup [1..3 -> {90, 101, 119, 122, 233}]
    \cup [1..4 -> {101, 119, 122}]

Quotes == {quote}

AllKeys == OldKeys \cup {TextKey(t) : t \in {u \in Words : Hashable(u)}}

Mem(text, salience) ==
  [text |-> text, salience |-> salience, affect |-> 0, age |-> 0, tags |-> {},
   metadata |-> NoMetadata]

Rivals == {Mem(wez, 1), Mem(wez, 3), Mem(wezh, 2), Mem(wze, 1), Mem(ee, 1), Mem(long, 1)}

Symmetry == Permutations(OldKeys)

Half == [num |-> 1, den |-> 2]
=============================================================================
