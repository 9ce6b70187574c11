--------------------------- MODULE RekeyMigration ---------------------------
(***************************************************************************)
(* rekey_migration.py: a script that rewrites every database under the     *)
(* keys the current hasher computes.  It reads all rows, works out the new *)
(* ones, and replaces the old in one transaction; between the two, and     *)
(* before and after, the manager of another process may hold a table of    *)
(* the same database and save it.                                          *)
(***************************************************************************)
EXTENDS EngRamManager, NgramHasher

CONSTANTS OldKeys,      \* keys no text hashes to: an older hasher's, or a client's own
          Characters,   \* what a string of JSON is when read as a list of tags
          Asked,        \* bound: the texts queries look for
          MaxRows       \* bound: memories of an adapter

\* The key of each text that can be hashed.
NewKey == [t \in {u \in Texts : Hashable(u)} |-> TextKey(t)]

ASSUME KeysAssumption == Keys = OldKeys \cup Range(NewKey)
ASSUME CharactersAssumption == Characters \subseteq Tags
ASSUME OldKeysAssumption == IsFiniteSet(OldKeys)

\* A text is the sequence of its code points.
ASSUME TextsAssumption == Texts \cup Asked \subseteq Seq(Nat)

\* external: str.lower of a character below U+0100 is such a character, none
\* of the capitals that U+00C2 and U+00C3 are.
ASSUME LowerAssumption == \A c \in 1..255 : \E d \in (1..255) \ {194, 195} : Lower(c) = <<d>>

\* external: what encode accepts.
CodePoints == {c \in Nat : c <= 1114111 /\ ~Surrogate(c)}

\* sqlite keeps texts as UTF-8, so without lone surrogates, and str.lower makes none.
ASSUME FoldedAssumption == \A t \in Texts : Lowered(t) \in Seq(CodePoints)

\* The column of texts is NOT NULL.
ASSUME RowsAssumption == \A p \in Payloads : p.text \in Texts

VARIABLE reading        \* the rows the script has read, of one adapter at most

rekeyVars == <<order, tables, disk, ret, reading>>

Nothing == [a \in {} |-> NoRows]

\* A database that an older version, or clients with keys of their own,
\* have written.  Bound: rows with such a key are there from the start.
OldRows == UNION {[S -> Payloads] : S \in SUBSET OldKeys}

RekeyInit ==
  /\ order = <<>> /\ tables = [a \in {} |-> Absent] /\ ret = Done
  /\ disk \in [Adapters -> OldRows]
  /\ reading = Nothing

\* Mutant: of two texts with one key the less salient stays.
KeepLessSalient(new, row) ==
  IF /\ row.text \in DOMAIN NewKey
     /\ NewKey[row.text] \in DOMAIN new =>
          \/ new[NewKey[row.text]].text = row.text
          \/ row.salience < new[NewKey[row.text]].salience
  THEN With(new, NewKey[row.text], row)
  ELSE new

\* Mutant: of two texts with one key the one met first stays.
KeepEarlier(new, row) ==
  IF /\ row.text \in DOMAIN NewKey
     /\ NewKey[row.text] \in DOMAIN new => new[NewKey[row.text]].text = row.text
  THEN With(new, NewKey[row.text], row)
  ELSE new

\* One round of the loop: a row whose text cannot be hashed is skipped; of
\* two texts with one key the more salient stays; but a row takes the place
\* of one with its own text, whatever their saliences.
Placed(new, row) ==
  IF /\ row.text \in DOMAIN NewKey
     /\ NewKey[row.text] \in DOMAIN new =>
          \/ new[NewKey[row.text]].text = row.text
          \/ row.salience > new[NewKey[row.text]].salience
  THEN With(new, NewKey[row.text], row)
  ELSE new

\* new_map after the rows were met in some order.  The column of tags is
\* JSON already when it is encoded once more.
NewMap(rows, met) ==
  LET new == FoldLeft(LAMBDA map, k : Placed(map, rows[k]), NoRows, met)
  IN  [k \in DOMAIN new |-> [new[k] EXCEPT !.tags = Characters]]

\* Whether the run writes at all.  Two texts with one key have two old keys,
\* so a collision is a change.
Changed(rows) == \E k \in DOMAIN rows : rows[k].text \in DOMAIN NewKey /\ NewKey[rows[k].text] # k

\* Mutant: the rows are inserted and the old ones not deleted.
InsertedBeside(old, new) == Upserted(old, new)

Replaced(old, new) == new

ReadRows(a) ==
  /\ reading = Nothing /\ disk[a] # NoRows
  /\ reading' = [b \in {a} |-> disk[a]]
  /\ UNCHANGED vars

\* DELETE, INSERTs and commit: whatever was saved since the rows were read
\* is deleted with them.
Rewrite(a) ==
  /\ a \in DOMAIN reading
  /\ \E met \in SetToSeqs(DOMAIN reading[a]) :
       disk' = IF Changed(reading[a])
               THEN [disk EXCEPT ![a] = Replaced(@, NewMap(reading[a], met))]
               ELSE disk
  /\ reading' = Nothing
  /\ UNCHANGED <<order, tables, ret>>

\* A dry run, or the end of the script: what it has not committed is undone.
Abandon == reading # Nothing /\ reading' = Nothing /\ UNCHANGED vars

\* The manager's calls that change a database, or what one will be given;
\* a memory is written under the key of its text, or not at all.
ManagerWorks ==
  /\ \/ \E a \in Adapters, p \in Payloads :
          /\ p.text \in DOMAIN NewKey
          /\ Cardinality(DOMAIN Memories(a) \cup {NewKey[p.text]}) <= MaxRows
          /\ WriteMemory(a, NewKey[p.text], p)
     \/ \E a \in Adapters : Unmount(a) \/ Retire(a)
     \/ Crash
  /\ UNCHANGED reading

RekeyNext == (\E a \in Adapters : ReadRows(a) \/ Rewrite(a)) \/ Abandon \/ ManagerWorks

RekeySpec == RekeyInit /\ [][RekeyNext]_rekeyVars

----------------------------------------------------------------------------
(* Properties. *)

\* The script holds rows of one database, in the form the manager reads.
RekeyTypeOK ==
  /\ TypeOK
  /\ Cardinality(DOMAIN reading) <= 1
  /\ \A a \in DOMAIN reading : IsContents(reading[a])

\* The databases a step of the script has rewritten.
JustRewritten == {a \in DOMAIN reading \ DOMAIN reading' : disk'[a] # disk[a]}

\* rekey_migration.py:5-6: the hashes are regenerated "so queries can find
\* it again".  A database that was rewritten holds nothing but memories
\* under the key that their text has now, whatever was saved meanwhile.
FoundByHash ==
  [][\A a \in JustRewritten : \A k \in DOMAIN disk'[a] :
       disk'[a][k].text \in DOMAIN NewKey /\ NewKey[disk'[a][k].text] = k]_rekeyVars

\* The rows whose texts have one key.
Sharing(rows, key) == {k \in DOMAIN rows : rows[k].text \in DOMAIN NewKey /\ NewKey[rows[k].text] = key}

\* No text that can be hashed is lost, but to another text with its key that
\* has a row at least as salient as a row of its own, in whatever order the
\* rows are met and however many of them share a text or a key.
LosesToMoreSalient ==
  [][\A a \in JustRewritten : \A k \in DOMAIN reading[a] :
       LET rows == reading[a]
           text == rows[k].text
       IN  text \in DOMAIN NewKey =>
             /\ NewKey[text] \in DOMAIN disk'[a]
             /\ \/ disk'[a][NewKey[text]].text = text
                \/ \E i, j \in Sharing(rows, NewKey[text]) :
                     /\ rows[i].text # text /\ rows[j].text = text
                     /\ rows[i].salience >= rows[j].salience]_rekeyVars

\* No text is there with one salience and with another.
EachOnce(rows, S) == \A i, j \in S : rows[i].text = rows[j].text => rows[i].salience = rows[j].salience

\* And where no text with the key has rows of different salience, what stays
\* is as salient as any of them: "Keep the higher-salience entry", as
\* rekey_migration.py:61 says.  (Elsewhere it may not be: a row replaces a
\* more salient one of its own text, and a row of another text may then be
\* found more salient than what is left, or have been dropped already.)
MostSalientStays ==
  [][\A a \in JustRewritten : \A h \in DOMAIN disk'[a] :
       LET rows == reading[a]
           S    == Sharing(rows, h)
       IN  EachOnce(rows, S) => \A k \in S : disk'[a][h].salience >= rows[k].salience]_rekeyVars

Latin(text) == \A i \in DOMAIN text : text[i] \in 1..255
Ascii(c) == c < 128
Folded == [t \in Texts |-> Lowered(t)]

\* Texts that cannot be hashed are gone after a rewrite, and others may give
\* way to a text with their key.  But between Latin texts a rewrite does not
\* choose: each that can be hashed is still there but for its case, unless a
\* text beyond Latin has its place.
LatinTextsKeepApart ==
  [][\A a \in JustRewritten : \A k \in DOMAIN reading[a] :
       LET text == reading[a][k].text IN
         Latin(text) /\ text \in DOMAIN NewKey =>
           \E j \in DOMAIN disk'[a] :
             LET found == disk'[a][j].text
             IN  (~Latin(found) /\ j = NewKey[text]) \/ Folded[found] = Folded[text]]_rekeyVars

\* ngram_hasher.py:116: the hasher "Works on any text".  The texts that a
\* rewrite finds no place for, and no query can look for, are exactly these:
\* of three characters or more, those with one beyond U+7FFF before the last
\* two; shorter ones, if they are not short in bytes as well.
SkipsExactly ==
  [][\A a \in JustRewritten : \A k \in DOMAIN reading[a] :
       LET text == reading[a][k].text
           c == Folded[text]
       IN  text \in DOMAIN NewKey /\ NewKey[text] \in DOMAIN disk'[a] <=>
             \/ Len(c) > 2 /\ \A i \in 1..(Len(c) - 2) : c[i] < 32768
             \/ Len(c) = 2 /\ ((c[1] < 65536 /\ Ascii(c[2])) \/ (Ascii(c[1]) /\ c[2] < 2048))
             \/ Len(c) = 1 /\ c[1] < 65536
             \/ Len(c) = 0]_rekeyVars

\* The queries by a Latin text that can be hashed.
Queries ==
  {[folded |-> Lowered(t), key |-> TextKey(t)] : t \in {u \in Asked : Latin(u) /\ Hashable(u)}}

\* ngram_hasher.py:101: "Full-sequence hashing gives stable, unique keys."  In
\* a database that was rewritten a query by a Latin text hits a Latin memory
\* if the two are the same but for case, and only then.
HitsAreRight ==
  [][\A a \in JustRewritten : \A k \in DOMAIN disk'[a] :
       LET found == disk'[a][k].text
       IN  Latin(found) => \A q \in Queries : q.key = k <=> q.folded = Folded[found]]_rekeyVars

Trigrams(text) == {SubSeq(Lowered(text), i, i + 2) : i \in 1..(Len(text) - 2)}

\* Each text a memory may have, compared with the Latin queries: what
\* text_similarity returns, and the similarity of the trigrams themselves.
Compared ==
  [c \in Texts |-> {<<TextSimilarity(q, c), Jaccard(Trigrams(q), Trigrams(c))>> :
                      q \in {u \in Asked : Latin(u) /\ Len(u) > 2}}]

\* The "Character-trigram Jaccard similarity" of ngram_hasher.py:145, by which
\* the memories of a table are ranked against a query, is that of the
\* trigrams between Latin texts that have any: packing makes no two alike.
SimilarityIsJaccard ==
  [][\A a \in JustRewritten : \A k \in DOMAIN disk'[a] :
       LET text == disk'[a][k].text
       IN  Latin(text) /\ Len(text) > 2 => \A pair \in Compared[text] : pair[1] = pair[2]]_rekeyVars
=============================================================================
