----------------------- MODULE EngRamManager_proofs ------------------------
(***************************************************************************)
(* Proofs about EngRamManager, for every set of adapters, keys and         *)
(* payloads, every number of slots, every decay policy and every choice of *)
(* disk faults.                                                            *)
(***************************************************************************)
EXTENDS EngRamManager, StoreTheorems

----------------------------------------------------------------------------
(* Internal methods.  A state is sound when the dict and its order agree,  *)
(* no more than MaxLoaded tables are in RAM, and tables and databases are  *)
(* well-formed.                                                            *)

SoundSt(st) ==
  /\ st \in [order : {st.order}, tables : {st.tables}, disk : {st.disk}]
  /\ DOMAIN st.tables \subseteq Adapters
  /\ Lists(st.order, DOMAIN st.tables)
  /\ Len(st.order) <= MaxLoaded
  /\ \A a \in DOMAIN st.tables : IsTable(st.tables[a])
  /\ DOMAIN st.disk = Adapters
  /\ \A a \in Adapters : IsContents(st.disk[a])

\* The adapters in RAM are adapters, and the order counts them.
LEMMA SoundStFacts ==
  ASSUME NEW st, SoundSt(st)
  PROVE  /\ DOMAIN st.tables \subseteq Adapters
         /\ Len(st.order) \in Nat
         /\ \A i \in 1..Len(st.order) : st.order[i] \in DOMAIN st.tables
         /\ st.order \in Seq(Adapters)
BY LenProperties, ElementOfSeq DEF SoundSt, Lists, ToSet

\* t is st without the table of a, and with the database of a as given.
IsWithout(t, st, a, rows) ==
  /\ SoundSt(t)
  /\ t.order = RemoveFirst(st.order, a) /\ Len(t.order) = Len(st.order) - 1
  /\ DOMAIN t.tables = DOMAIN st.tables \ {a}
  /\ \A b \in DOMAIN t.tables : t.tables[b] = st.tables[b]
  /\ \A b \in Adapters : t.disk[b] = IF b = a THEN rows ELSE st.disk[b]

\* dict.pop takes one table away and leaves everything else.
LEMMA DropIsWithout ==
  ASSUME NEW st, SoundSt(st), NEW a \in DOMAIN st.tables
  PROVE  IsWithout(Drop(st, a), st, a, st.disk[a])
<1> DEFINE t == Drop(st, a)
<1>1. /\ t \in [order : {t.order}, tables : {t.tables}, disk : {t.disk}]
      /\ t.order = RemoveFirst(st.order, a)
      /\ t.tables = Restrict(st.tables, DOMAIN st.tables \ {a})
      /\ t.disk = st.disk
  BY DEF SoundSt, Drop
<1>2. /\ DOMAIN t.tables = DOMAIN st.tables \ {a}
      /\ \A b \in DOMAIN t.tables : t.tables[b] = st.tables[b]
  BY <1>1 DEF Restrict
<1>3. Lists(t.order, DOMAIN t.tables) /\ Len(t.order) = Len(st.order) - 1
  BY <1>1, <1>2, ListsRemove DEF SoundSt
<1>4. Len(t.order) <= MaxLoaded
  BY <1>3, SoundStFacts, MaxLoadedAssumption DEF SoundSt
<1> HIDE DEF t
<1>5. SoundSt(t)
  BY <1>1, <1>2, <1>3, <1>4 DEF SoundSt
<1> QED
  BY <1>1, <1>2, <1>3, <1>5 DEF IsWithout, t

\* _evict_lru and unmount: popped and saved, or popped and lost.
LEMMA DropAndSaveOutcome ==
  ASSUME NEW st, SoundSt(st), NEW a \in DOMAIN st.tables, NEW o \in DropAndSave(st, a)
  PROVE  /\ o.ok \in BOOLEAN
         /\ IsWithout(o.st, st, a,
                      IF o.ok THEN Save(st.disk[a], st.tables[a]) ELSE st.disk[a])
<1> DEFINE t == Drop(st, a)
           rows == Save(st.disk[a], st.tables[a])
           saved == [t EXCEPT !.disk[a] = Save(@, st.tables[a])]
<1>1. o = [st |-> saved, ok |-> TRUE] \/ o = [st |-> t, ok |-> FALSE]
  BY DEF DropAndSave, Returns, Raises
<1>2. IsWithout(t, st, a, st.disk[a])
  BY DropIsWithout
<1>3. a \in Adapters /\ IsContents(rows)
  BY SoundStFacts, SaveIsContents DEF SoundSt
<1> HIDE DEF t, rows
<1>4. /\ saved.order = t.order /\ saved.tables = t.tables
      /\ saved.disk = [t.disk EXCEPT ![a] = rows]
      /\ saved \in [order : {saved.order}, tables : {saved.tables}, disk : {saved.disk}]
  BY <1>2, <1>3 DEF IsWithout, SoundSt, rows
<1>5. IsWithout(saved, st, a, rows)
  <2> HIDE DEF saved
  <2> QED
    BY <1>2, <1>3, <1>4 DEF IsWithout, SoundSt
<1> HIDE DEF saved
<1>6. CASE o = [st |-> saved, ok |-> TRUE]
  <2>1. o.st = saved /\ o.ok = TRUE
    BY <1>6
  <2> QED
    BY <2>1, <1>5 DEF rows
<1>7. CASE o = [st |-> t, ok |-> FALSE]
  <2>1. o.st = t /\ o.ok = FALSE
    BY <1>7
  <2> QED
    BY <2>1, <1>2
<1> QED
  BY <1>1, <1>6, <1>7

(* What a method does to the memories of one adapter, as a caller sees     *)
(* them: the vocabulary of MemoryStore over a pair of states.              *)

View(st, a) == IF a \in DOMAIN st.tables THEN st.tables[a].store ELSE st.disk[a]

Kept(st, t, a) == View(t, a) = View(st, a) /\ t.disk[a] = st.disk[a]
Saved(st, t, a) == t.disk[a] = Upserted(st.disk[a], Rows(View(st, a))) /\ View(t, a) = t.disk[a]
Lost(st, t, a) == t.disk[a] = st.disk[a] /\ View(t, a) = st.disk[a]

KeptOrSaved(st, t, S) == \A a \in S : Kept(st, t, a) \/ Saved(st, t, a)

\* The effect of a raise: one adapter at the most loses what was not saved.
Failed(st, t) ==
  \E a \in Adapters : /\ KeptOrSaved(st, t, Adapters \ {a})
                      /\ Kept(st, t, a) \/ Saved(st, t, a) \/ Lost(st, t, a)

\* The tables of t are tables of st, but for one that a load made for a.
Carried(st, t, a) ==
  \A b \in DOMAIN t.tables :
    \/ b \in DOMAIN st.tables /\ t.tables[b] = st.tables[b]
    \/ b = a /\ b \notin DOMAIN st.tables /\ t.tables[b] = Load(st.disk[b])

\* To a caller a saved table is a checkpoint, a lost one a loss of what was
\* not saved, of that adapter alone.
LEMMA DropAndSaveEffect ==
  ASSUME NEW st, SoundSt(st), NEW a \in DOMAIN st.tables, NEW o \in DropAndSave(st, a)
  PROVE  /\ o.ok \in BOOLEAN
         /\ SoundSt(o.st)
         /\ Len(o.st.order) = Len(st.order) - 1
         /\ DOMAIN o.st.tables = DOMAIN st.tables \ {a}
         /\ \A b \in Adapters \ {a} : Kept(st, o.st, b)
         /\ \A b \in DOMAIN o.st.tables : o.st.tables[b] = st.tables[b]
         /\ o.ok => KeptOrSaved(st, o.st, Adapters)
         /\ ~o.ok => Failed(st, o.st)
<1> DEFINE t == o.st
           rows == IF o.ok THEN Save(st.disk[a], st.tables[a]) ELSE st.disk[a]
<1>1. o.ok \in BOOLEAN /\ IsWithout(t, st, a, rows)
  BY DropAndSaveOutcome
<1>2. a \in Adapters
  BY SoundStFacts
<1> HIDE DEF t, rows
<1>3. \A b \in Adapters \ {a} : Kept(st, t, b)
  BY <1>1 DEF IsWithout, Kept, View
<1>4. View(t, a) = rows /\ t.disk[a] = rows
  BY <1>1, <1>2 DEF IsWithout, View
<1>5. o.ok => Saved(st, t, a)
  BY <1>4 DEF Saved, View, Save, rows
<1>6. ~o.ok => Lost(st, t, a)
  BY <1>4 DEF Lost, rows
<1>7. o.ok => KeptOrSaved(st, t, Adapters)
  BY <1>3, <1>5 DEF KeptOrSaved
<1>8. ~o.ok => Failed(st, t)
  BY <1>2, <1>3, <1>6 DEF KeptOrSaved, Failed
<1> QED
  BY <1>1, <1>3, <1>7, <1>8 DEF IsWithout, t

\* _touch moves a table to the end of the order and changes nothing else.
LEMMA TouchEffect ==
  ASSUME NEW st, SoundSt(st), NEW a \in DOMAIN st.tables
  PROVE  /\ SoundSt(Touch(st, a))
         /\ Touch(st, a).tables = st.tables
         /\ Touch(st, a).disk = st.disk
<1> DEFINE t == Touch(st, a)
           r == RemoveFirst(st.order, a)
<1>1. /\ t.order = Append(r, a) /\ t.tables = st.tables /\ t.disk = st.disk
      /\ t \in [order : {t.order}, tables : {t.tables}, disk : {t.disk}]
  BY DEF SoundSt, Touch
<1>2. Lists(r, DOMAIN st.tables \ {a}) /\ Len(r) = Len(st.order) - 1
  BY ListsRemove DEF SoundSt
<1>3. a \in Adapters \ (DOMAIN st.tables \ {a})
  BY SoundStFacts
<1> HIDE DEF r, t
<1>4. /\ Lists(Append(r, a), (DOMAIN st.tables \ {a}) \cup {a})
      /\ Len(Append(r, a)) = Len(r) + 1
  BY <1>2, <1>3, ListsAppend
<1>5. (DOMAIN st.tables \ {a}) \cup {a} = DOMAIN st.tables
  OBVIOUS
<1>6. Len(Append(r, a)) = Len(st.order)
  BY <1>2, <1>4, SoundStFacts
<1>7. SoundSt(t)
  BY <1>1, <1>4, <1>5, <1>6 DEF SoundSt
<1> QED
  BY <1>1, <1>7 DEF t

\* A load into a free slot, returned or raised, is invisible to callers.
LEMMA LoadTableEffect ==
  ASSUME NEW st, SoundSt(st), NEW a \in Adapters \ DOMAIN st.tables,
         Len(st.order) < MaxLoaded, NEW o \in LoadTable(st, a)
  PROVE  /\ o.ok \in BOOLEAN
         /\ SoundSt(o.st)
         /\ o.ok => a \in DOMAIN o.st.tables
         /\ Carried(st, o.st, a)
         /\ \A b \in Adapters : Kept(st, o.st, b)
<1> DEFINE loaded == [b \in DOMAIN st.tables \cup {a} |->
                        IF b = a THEN Load(st.disk[a]) ELSE st.tables[b]]
           t == [st EXCEPT !.order = Append(@, a), !.tables = loaded]
<1>1. (o.st = t /\ o.ok = TRUE) \/ (o.st = st /\ o.ok = FALSE)
  <2>1. o = [st |-> t, ok |-> TRUE] \/ o = [st |-> st, ok |-> FALSE]
    BY DEF LoadTable, Returns, Raises
  <2> HIDE DEF t
  <2> QED
    BY <2>1
<1>2. /\ t.order = Append(st.order, a) /\ t.tables = loaded /\ t.disk = st.disk
      /\ t \in [order : {t.order}, tables : {t.tables}, disk : {t.disk}]
  BY DEF SoundSt
<1>3. Lists(Append(st.order, a), DOMAIN loaded) /\ Len(Append(st.order, a)) = Len(st.order) + 1
  BY ListsAppend DEF SoundSt
<1>4. Len(st.order) + 1 <= MaxLoaded
  BY SoundStFacts, MaxLoadedAssumption
<1>5. IsTable(Load(st.disk[a])) /\ Load(st.disk[a]).store = st.disk[a]
  BY LoadIsTable DEF SoundSt, Load
<1> HIDE DEF t
<1>6. SoundSt(t)
  BY <1>2, <1>3, <1>4, <1>5 DEF SoundSt
<1>7. \A b \in Adapters : Kept(st, t, b) /\ Kept(st, st, b)
  BY <1>2, <1>5 DEF Kept, View
<1>8. a \in DOMAIN t.tables
  BY <1>2
<1>9. Carried(st, t, a) /\ Carried(st, st, a)
  BY <1>2 DEF Carried
<1> QED
  BY <1>1, <1>6, <1>7, <1>8, <1>9

\* Composition: what is kept after a step is what the step left.
LEMMA EffectThenKept ==
  ASSUME NEW st, NEW mid, NEW t, \A b \in Adapters : Kept(mid, t, b)
  PROVE  /\ \A b \in Adapters : Kept(st, mid, b) => Kept(st, t, b)
         /\ \A S \in SUBSET Adapters : KeptOrSaved(st, mid, S) => KeptOrSaved(st, t, S)
BY DEF Kept, Saved, KeptOrSaved

\* mount: on return a's table is in RAM with the memories a caller saw
\* before, and of the others one was checkpointed at the most; on a raise
\* one adapter at the most lost what was not saved of it.
LEMMA MountEffect ==
  ASSUME NEW st, SoundSt(st), NEW a \in Adapters, NEW m \in Mount(st, a)
  PROVE  /\ m.ok \in BOOLEAN
         /\ SoundSt(m.st)
         /\ Carried(st, m.st, a)
         /\ m.ok => /\ a \in DOMAIN m.st.tables
                    /\ Kept(st, m.st, a)
                    /\ KeptOrSaved(st, m.st, Adapters \ {a})
         /\ ~m.ok => Failed(st, m.st)
<1>1. CASE a \in DOMAIN st.tables
  <2>1. m.st = Touch(st, a) /\ m.ok = TRUE
    BY <1>1 DEF Mount, Returns
  <2>2. \A b \in Adapters : Kept(st, m.st, b)
    BY <1>1, <2>1, TouchEffect DEF Kept, View
  <2>3. Carried(st, m.st, a)
    BY <1>1, <2>1, TouchEffect DEF Carried
  <2> QED
    BY <1>1, <2>1, <2>2, <2>3, TouchEffect DEF KeptOrSaved
<1>2. CASE a \notin DOMAIN st.tables /\ Len(st.order) < MaxLoaded
  <2>1. m \in LoadTable(st, a)
    BY <1>2, SoundStFacts, MaxLoadedAssumption DEF Mount
  <2>2. /\ m.ok \in BOOLEAN /\ SoundSt(m.st)
        /\ m.ok => a \in DOMAIN m.st.tables
        /\ Carried(st, m.st, a)
        /\ \A b \in Adapters : Kept(st, m.st, b)
    BY <1>2, <2>1, LoadTableEffect
  <2> QED
    BY <2>2 DEF KeptOrSaved, Failed
<1>3. CASE a \notin DOMAIN st.tables /\ Len(st.order) >= MaxLoaded
  <2> DEFINE v == Head(st.order)
  <2>1. v \in DOMAIN st.tables
    BY <1>3, SoundStFacts, MaxLoadedAssumption
  <2>2. m \in AndThen(EvictLru(st), LAMBDA s : LoadTable(s, a))
    BY <1>3 DEF Mount
  <2>3. \/ m \in EvictLru(st) /\ ~m.ok
        \/ \E o \in EvictLru(st) : o.ok /\ m \in LoadTable(o.st, a)
    BY <2>2 DEF AndThen
  <2>4. CASE m \in EvictLru(st) /\ ~m.ok
    BY <2>1, <2>4, DropAndSaveEffect DEF EvictLru, Carried
  <2>5. CASE \E o \in EvictLru(st) : o.ok /\ m \in LoadTable(o.st, a)
    <3>1. PICK o \in EvictLru(st) : o.ok /\ m \in LoadTable(o.st, a)
      BY <2>5
    <3>2. /\ SoundSt(o.st) /\ Len(o.st.order) = Len(st.order) - 1
          /\ DOMAIN o.st.tables = DOMAIN st.tables \ {v}
          /\ KeptOrSaved(st, o.st, Adapters)
          /\ \A b \in Adapters \ {v} : Kept(st, o.st, b)
          /\ \A b \in DOMAIN o.st.tables : o.st.tables[b] = st.tables[b]
      BY <2>1, <3>1, DropAndSaveEffect DEF EvictLru
    <3>3. a \in Adapters \ DOMAIN o.st.tables /\ Len(o.st.order) < MaxLoaded
      BY <1>3, <3>2, SoundStFacts, MaxLoadedAssumption DEF SoundSt
    <3>4. /\ m.ok \in BOOLEAN /\ SoundSt(m.st)
          /\ m.ok => a \in DOMAIN m.st.tables
          /\ Carried(o.st, m.st, a)
          /\ \A b \in Adapters : Kept(o.st, m.st, b)
      BY <3>1, <3>2, <3>3, LoadTableEffect
    <3>5. KeptOrSaved(st, m.st, Adapters)
      BY <3>2, <3>4, EffectThenKept
    <3>6. Kept(st, o.st, a)
      BY <1>3, <2>1, <3>2
    <3>7. Carried(st, m.st, a)
      BY <1>3, <3>2, <3>4, <3>6 DEF Carried, Kept
    <3> QED
      BY <3>4, <3>5, <3>6, <3>7, EffectThenKept DEF KeptOrSaved, Failed
  <2> QED
    BY <2>3, <2>4, <2>5
<1> QED
  BY <1>1, <1>2, <1>3, SoundStFacts, MaxLoadedAssumption

\* Saving and dropping a prefix of the order checkpoints its adapters.
LEMMA FlushedEffect ==
  ASSUME NEW st, SoundSt(st), NEW n \in 0..Len(st.order),
         \A i \in 1..n : Saveable(st.tables[st.order[i]])
  PROVE  /\ SoundSt(Flushed(st, n))
         /\ KeptOrSaved(st, Flushed(st, n), Adapters)
         /\ \A a \in DOMAIN Flushed(st, n).tables : Kept(st, Flushed(st, n), a)
         /\ \A a \in DOMAIN Flushed(st, n).tables :
              a \in DOMAIN st.tables /\ Flushed(st, n).tables[a] = st.tables[a]
         /\ \A i \in n + 1..Len(st.order) : st.order[i] \in DOMAIN Flushed(st, n).tables
<1> DEFINE t == Flushed(st, n)
           gone == {st.order[i] : i \in 1..n}
           left == DOMAIN st.tables \ gone
<1>1. /\ t.order = SubSeq(st.order, n + 1, Len(st.order))
      /\ t.tables = Restrict(st.tables, left)
      /\ t.disk = [a \in Adapters |-> IF a \in gone THEN Save(st.disk[a], st.tables[a])
                                                    ELSE st.disk[a]]
      /\ t \in [order : {t.order}, tables : {t.tables}, disk : {t.disk}]
  BY DEF Flushed
<1>2. Lists(t.order, left) /\ Len(t.order) = Len(st.order) - n
  BY <1>1, ListsTail DEF SoundSt
<1>3. Len(t.order) <= MaxLoaded
  BY <1>2, SoundStFacts, MaxLoadedAssumption DEF SoundSt
<1>4. gone \subseteq DOMAIN st.tables /\ DOMAIN st.tables \subseteq Adapters
  BY SoundStFacts
<1>5. DOMAIN t.tables = left /\ \A a \in left : t.tables[a] = st.tables[a]
  BY <1>1 DEF Restrict
<1>6. \A a \in gone : IsContents(Save(st.disk[a], st.tables[a]))
  BY <1>4, SaveIsContents DEF SoundSt
<1>7. \A i \in n + 1..Len(st.order) : st.order[i] \in left
  BY SoundStFacts DEF SoundSt, Lists, Distinct
<1> HIDE DEF t, gone
<1>8. SoundSt(t)
  <2>1. Lists(t.order, DOMAIN t.tables)
    BY <1>2, <1>5
  <2>2. \A a \in DOMAIN t.tables : IsTable(t.tables[a])
    BY <1>5 DEF SoundSt
  <2>3. DOMAIN t.disk = Adapters
    BY <1>1
  <2>4. \A a \in Adapters : IsContents(t.disk[a])
    BY <1>1, <1>6 DEF SoundSt
  <2> QED
    BY <1>1, <1>3, <1>4, <1>5, <2>1, <2>2, <2>3, <2>4 DEF SoundSt
<1>9. \A a \in Adapters \ gone : Kept(st, t, a)
  BY <1>1, <1>5 DEF Kept, View
<1>10. \A a \in gone : Saved(st, t, a)
  BY <1>1, <1>4, <1>5 DEF Saved, View, Save
<1> QED
  BY <1>4, <1>5, <1>7, <1>8, <1>9, <1>10 DEF KeptOrSaved, t

\* unmount_all checkpoints every table, or stops at the one it loses.
LEMMA FlushAllEffect ==
  ASSUME NEW st, SoundSt(st), NEW o \in FlushAll(st)
  PROVE  /\ o.ok \in BOOLEAN
         /\ SoundSt(o.st)
         /\ \A a \in DOMAIN o.st.tables :
              a \in DOMAIN st.tables /\ o.st.tables[a] = st.tables[a]
         /\ o.ok => KeptOrSaved(st, o.st, Adapters)
         /\ ~o.ok => Failed(st, o.st)
<1> DEFINE n == Len(st.order)
           SavedTo(j) == \A i \in 1..j : Saveable(st.tables[st.order[i]])
<1>1. n \in Nat
  BY SoundStFacts
<1>2. \/ o = [st |-> Flushed(st, n), ok |-> TRUE] /\ SavedTo(n)
      \/ \E j \in 1..n : /\ SavedTo(j - 1)
                         /\ o = [st |-> Drop(Flushed(st, j - 1), st.order[j]), ok |-> FALSE]
  BY DEF FlushAll, Returns, Raises
<1>3. CASE o = [st |-> Flushed(st, n), ok |-> TRUE] /\ SavedTo(n)
  <2>1. o.st = Flushed(st, n) /\ o.ok = TRUE
    BY <1>3
  <2> QED
    BY <2>1, <1>1, <1>3, FlushedEffect
<1>4. CASE \E j \in 1..n : /\ SavedTo(j - 1)
                           /\ o = [st |-> Drop(Flushed(st, j - 1), st.order[j]), ok |-> FALSE]
  <2>1. PICK j \in 1..n : /\ SavedTo(j - 1)
                          /\ o = [st |-> Drop(Flushed(st, j - 1), st.order[j]), ok |-> FALSE]
    BY <1>4
  <2> DEFINE mid == Flushed(st, j - 1)
             a == st.order[j]
             t == Drop(mid, a)
  <2>2. j - 1 \in 0..n
    BY <1>1
  <2>3. /\ SoundSt(mid)
        /\ KeptOrSaved(st, mid, Adapters)
        /\ \A b \in DOMAIN mid.tables :
             Kept(st, mid, b) /\ b \in DOMAIN st.tables /\ mid.tables[b] = st.tables[b]
        /\ a \in DOMAIN mid.tables
    BY <1>1, <2>1, <2>2, FlushedEffect
  <2> HIDE DEF mid, a
  <2>4. IsWithout(t, mid, a, mid.disk[a])
    BY <2>3, DropIsWithout
  <2>5. o.st = t /\ o.ok = FALSE
    BY <2>1 DEF mid, a
  <2> HIDE DEF t
  <2>6. \A b \in Adapters \ {a} : Kept(mid, t, b)
    BY <2>4 DEF IsWithout, Kept, View
  <2>7. KeptOrSaved(st, t, Adapters \ {a})
    BY <2>3, <2>6 DEF Kept, Saved, KeptOrSaved
  <2>8. a \in Adapters /\ Lost(st, t, a)
    BY <2>3, <2>4, SoundStFacts DEF IsWithout, Kept, Lost, View
  <2>9. \A b \in DOMAIN t.tables : b \in DOMAIN st.tables /\ t.tables[b] = st.tables[b]
    BY <2>3, <2>4 DEF IsWithout
  <2> QED
    BY <2>4, <2>5, <2>7, <2>8, <2>9 DEF Failed, IsWithout
<1> QED
  BY <1>2, <1>3, <1>4

----------------------------------------------------------------------------
(* From internal methods to steps.  Every step commits the state some      *)
(* method left, after a change to one table if the method returned.        *)

\* Replacing one table by a sound one disturbs no other adapter.
LEMMA ChangeTable ==
  ASSUME NEW st, SoundSt(st), NEW a \in DOMAIN st.tables, NEW table, IsTable(table),
         NEW t, t = [st EXCEPT !.tables[a] = table]
  PROVE  /\ SoundSt(t)
         /\ View(t, a) = table.store
         /\ \A b \in Adapters : t.disk[b] = st.disk[b]
         /\ \A b \in Adapters \ {a} : Kept(st, t, b)
<1>1. /\ t.order = st.order /\ t.disk = st.disk
      /\ t.tables = [st.tables EXCEPT ![a] = table]
      /\ t \in [order : {t.order}, tables : {t.tables}, disk : {t.disk}]
  BY DEF SoundSt
<1>2. /\ DOMAIN t.tables = DOMAIN st.tables
      /\ \A b \in DOMAIN st.tables : t.tables[b] = IF b = a THEN table ELSE st.tables[b]
  BY <1>1
<1>3. SoundSt(t)
  BY <1>1, <1>2 DEF SoundSt
<1> QED
  BY <1>1, <1>2, <1>3 DEF View, Kept

\* The abstract store's operators on tables and rows are the manager's.
LEMMA StoreContents ==
  /\ \A x : Store!IsContents(x) <=> IsContents(x)
  /\ \A x, y : Store!Upserted(x, Store!Rows(y)) = Upserted(x, Rows(y))
<1>1. \A x : Store!IsContents(x) <=> IsContents(x)
  BY DEF Store!IsContents, IsContents, Store!Payload, Payload
<1>2. \A x, y : Store!Upserted(x, y) = Upserted(x, y)
  BY DEF Store!Upserted, Upserted
<1>3. \A y : Store!Rows(y) = Rows(y)
  BY DEF Store!Rows, Rows, Store!Row, Row
<1> QED
  BY <1>1, <1>2, <1>3

\* The abstract store judges staleness by the same decay policy.
LEMMA StoreStale ==
  \A store, threshold : Store!Stale(store, threshold) = Stale(store, threshold)
<1>0. \A b, n : Store!Pow(b, n) = Pow(b, n)
  BY DEF Store!Pow, Pow
<1>1. \A k, s, a : Store!Exponential(k, s, a) = Exponential(k, s, a)
  BY <1>0 DEF Store!Exponential, Exponential, Store!Power, Power,
         Store!LookupIndex, LookupIndex, Store!Whole, Whole
<1>2. \A p, s, a : Store!DecayedSalience(p, s, a) = DecayedSalience(p, s, a)
  <2>1. \A r, s, a : Store!Linear(r, s, a) = Linear(r, s, a)
    BY DEF Store!Linear, Linear, Store!Whole, Whole
  <2>2. \A s : Store!Whole(s) = Whole(s)
    BY DEF Store!Whole, Whole
  <2> QED
    BY <1>1, <2>1, <2>2 DEF Store!DecayedSalience, DecayedSalience
<1>3. \A p, s, a, t : Store!IsEvictable(p, s, a, t) <=> IsEvictable(p, s, a, t)
  BY <1>2 DEF Store!IsEvictable, IsEvictable, Store!Below, Below
<1> QED
  BY <1>3 DEF Store!Stale, Stale

\* The abstract store counts as the manager does.
LEMMA StoreCardinality == \A S : Store!Cardinality(S) = Cardinality(S)
  BY DEF Store!Cardinality, Cardinality

\* A committed state, read as a step of the abstract store.
LEMMA CommitAsStore ==
  ASSUME NEW t, SoundSt(t), Commit(t)
  PROVE  /\ St' = t
         /\ Store!Shaped
         /\ \A a \in Adapters :
              /\ Kept(St, t, a) => Store!Same(a)
              /\ Saved(St, t, a) => Store!Checkpointed(a)
              /\ Lost(St, t, a) => Store!Reverted(a)
         /\ \A S \in SUBSET Adapters : KeptOrSaved(St, t, S) => Store!Settled(S)
         /\ Failed(St, t) /\ ret' = Raised => Store!Fail
<1>1. St' = t
  BY DEF St, Commit, SoundSt
<1>2. \A a \in Adapters : /\ Memories(a) = View(St, a)
                          /\ Memories(a)' = View(t, a)
                          /\ disk[a] = St.disk[a]
                          /\ disk'[a] = t.disk[a]
  BY DEF Memories, View, St, Commit
<1>3. \A a \in Adapters : IsContents(Memories(a)') /\ IsContents(disk'[a])
  BY <1>2 DEF SoundSt, View, IsTable
<1>4. Store!Shaped
  BY <1>3, StoreContents DEF Store!Shaped, SoundSt, Commit
<1>5. \A a \in Adapters :
        /\ Kept(St, t, a) => Store!Same(a)
        /\ Saved(St, t, a) => Store!Checkpointed(a)
        /\ Lost(St, t, a) => Store!Reverted(a)
  BY <1>2, StoreContents DEF Kept, Saved, Lost, Store!Same, Store!Checkpointed, Store!Reverted
<1>6. \A S \in SUBSET Adapters : KeptOrSaved(St, t, S) => Store!Settled(S)
  BY <1>5 DEF KeptOrSaved, Store!Settled
<1>7. Failed(St, t) /\ ret' = Raised => Store!Fail
  BY <1>4, <1>5, <1>6 DEF Failed, Store!Fail
<1> QED
  BY <1>1, <1>4, <1>5, <1>6, <1>7

\* A manager is created empty, and so sound.
LEMMA InitSound ==
  ASSUME Init
  PROVE  SoundSt(St)
<1>1. /\ St \in [order : {St.order}, tables : {St.tables}, disk : {St.disk}]
      /\ St.order = <<>> /\ St.tables = [a \in {} |-> Absent]
      /\ St.disk = [a \in Adapters |-> NoRows]
  BY DEF Init, St
<1>2. IsContents(NoRows)
  BY DEF IsContents, NoRows
<1>3. Lists(<<>>, {}) /\ Len(<<>>) = 0
  BY ListsEmpty, EmptySeq
<1> HIDE DEF St
<1> QED
  BY <1>1, <1>2, <1>3, MaxLoadedAssumption DEF SoundSt

\* The common part of the calls that mount a: m is what mount left and
\* table what the call made of a's table.
LEMMA AnswerStep ==
  ASSUME SoundSt(St), NEW a \in Adapters, NEW m \in Mount(St, a), m.ok,
         NEW table, IsTable(table), Commit([m.st EXCEPT !.tables[a] = table])
  PROVE  /\ SoundSt(St')
         /\ m.st.tables[a].store = Memories(a)
         /\ IsTable(m.st.tables[a])
         /\ Store!Answer(a, table.store, ret')
<1> DEFINE t == [m.st EXCEPT !.tables[a] = table]
<1>1. /\ SoundSt(m.st) /\ a \in DOMAIN m.st.tables
      /\ Kept(St, m.st, a) /\ KeptOrSaved(St, m.st, Adapters \ {a})
  BY MountEffect
<1>2. /\ SoundSt(t) /\ View(t, a) = table.store
      /\ \A b \in Adapters : t.disk[b] = m.st.disk[b]
      /\ \A b \in Adapters \ {a} : Kept(m.st, t, b)
  <2>1. t = [m.st EXCEPT !.tables[a] = table]
    OBVIOUS
  <2> HIDE DEF t
  <2> QED
    BY <1>1, <2>1, ChangeTable
<1> HIDE DEF t
<1>3. St' = t /\ Store!Shaped
      /\ (KeptOrSaved(St, t, Adapters \ {a}) => Store!Settled(Adapters \ {a}))
  BY <1>2, CommitAsStore DEF t
<1>4. KeptOrSaved(St, t, Adapters \ {a})
  BY <1>1, <1>2 DEF KeptOrSaved, Kept, Saved
<1>5. Memories(a)' = table.store /\ disk'[a] = disk[a]
  BY <1>1, <1>2, <1>3 DEF St, Memories, View, Kept
<1>6. m.st.tables[a].store = Memories(a)
  BY <1>1 DEF Kept, View, Memories, St
<1>7. IsTable(m.st.tables[a])
  BY <1>1 DEF SoundSt
<1> QED
  BY <1>2, <1>3, <1>4, <1>5, <1>6, <1>7 DEF Store!Answer

\* A call whose mount raised is a failure of the abstract store.
LEMMA RaiseStep ==
  ASSUME SoundSt(St), NEW a \in Adapters, NEW m \in Mount(St, a), ~m.ok,
         Commit(m.st), ret' = Raised
  PROVE  SoundSt(St') /\ Store!Fail
<1>1. SoundSt(m.st) /\ Failed(St, m.st)
  BY MountEffect
<1>2. St' = m.st /\ Store!Fail
  BY <1>1, CommitAsStore
<1> QED
  BY <1>1, <1>2

----------------------------------------------------------------------------
(* One lemma per public call: it keeps the state sound, and it is a step   *)
(* of the abstract store.                                                  *)

StoreStep == Store!Next \/ UNCHANGED Store!vars

\* write_memory is a Write of the store, or a failure.
LEMMA WriteStep ==
  ASSUME SoundSt(St), NEW a \in Adapters, NEW k \in Keys, NEW p \in Payloads,
         WriteMemory(a, k, p)
  PROVE  SoundSt(St') /\ StoreStep
<1>1. PICK m \in Mount(St, a) :
        \/ m.ok /\ Commit([m.st EXCEPT !.tables[a] = Put(m.st.tables[a], k, p)]) /\ ret' = Done
        \/ ~m.ok /\ Commit(m.st) /\ ret' = Raised
  BY DEF WriteMemory, OnTable
<1>2. CASE m.ok /\ Commit([m.st EXCEPT !.tables[a] = Put(m.st.tables[a], k, p)]) /\ ret' = Done
  <2> DEFINE table == Put(m.st.tables[a], k, p)
  <2>1. IsTable(table)
    BY <1>2, MountEffect, PutIsTable, InputAssumption DEF SoundSt
  <2>2. /\ SoundSt(St') /\ m.st.tables[a].store = Memories(a)
        /\ Store!Answer(a, table.store, ret')
    BY <1>2, <2>1, AnswerStep
  <2>3. table.store = With(Memories(a), k, p)
    BY <2>2 DEF Put
  <2>4. Store!Write(a, k, p)
    BY <1>2, <2>2, <2>3 DEF Store!Write, Store!With, With
  <2> QED
    BY <2>2, <2>4 DEF StoreStep, Store!Next
<1>3. CASE ~m.ok /\ Commit(m.st) /\ ret' = Raised
  BY <1>3, RaiseStep DEF StoreStep, Store!Next
<1> QED
  BY <1>1, <1>2, <1>3

\* get_memory is a Read of the store, or a failure.
LEMMA GetStep ==
  ASSUME SoundSt(St), NEW a \in Adapters, NEW k \in Keys, GetMemory(a, k)
  PROVE  SoundSt(St') /\ StoreStep
<1> DEFINE Value(t) == [adapter |-> a, key |-> k, value |-> Get(t, k)]
<1>1. PICK m \in Mount(St, a) :
        \/ /\ m.ok
           /\ Commit([m.st EXCEPT !.tables[a] = m.st.tables[a]])
           /\ ret' = Value(m.st.tables[a])
        \/ ~m.ok /\ Commit(m.st) /\ ret' = Raised
  BY DEF GetMemory, OnTable
<1>2. CASE /\ m.ok
           /\ Commit([m.st EXCEPT !.tables[a] = m.st.tables[a]])
           /\ ret' = Value(m.st.tables[a])
  <2>1. IsTable(m.st.tables[a])
    BY <1>2, MountEffect DEF SoundSt
  <2>2. /\ SoundSt(St') /\ m.st.tables[a].store = Memories(a)
        /\ Store!Answer(a, m.st.tables[a].store, ret')
    BY <1>2, <2>1, AnswerStep
  <2>3. Store!Read(a, k)
    BY <1>2, <2>2 DEF Store!Read, Store!ValueAt, ValueAt, Get
  <2> QED
    BY <2>2, <2>3 DEF StoreStep, Store!Next
<1>3. CASE ~m.ok /\ Commit(m.st) /\ ret' = Raised
  BY <1>3, RaiseStep DEF StoreStep, Store!Next
<1> QED
  BY <1>1, <1>2, <1>3

\* tick_adapter is an Age of the store, or a failure.
LEMMA TickStep ==
  ASSUME SoundSt(St), NEW a \in Adapters, NEW steps \in Steps, TickAdapter(a, steps)
  PROVE  SoundSt(St') /\ StoreStep
<1>1. PICK m \in Mount(St, a) :
        \/ m.ok /\ Commit([m.st EXCEPT !.tables[a] = Tick(m.st.tables[a], steps)]) /\ ret' = Done
        \/ ~m.ok /\ Commit(m.st) /\ ret' = Raised
  BY DEF TickAdapter, OnTable
<1>2. CASE m.ok /\ Commit([m.st EXCEPT !.tables[a] = Tick(m.st.tables[a], steps)]) /\ ret' = Done
  <2> DEFINE table == Tick(m.st.tables[a], steps)
             passed == IF steps > 0 THEN steps ELSE 0
             aged == [k \in DOMAIN Memories(a) |-> [Memories(a)[k] EXCEPT !.age = @ + passed]]
  <2>1. steps \in Int /\ IsTable(m.st.tables[a]) /\ IsTable(table)
    BY <1>2, MountEffect, TickIsTable, InputAssumption DEF SoundSt
  <2>2. /\ SoundSt(St') /\ m.st.tables[a].store = Memories(a)
        /\ Store!Answer(a, table.store, ret')
    BY <1>2, <2>1, AnswerStep
  <2>3. table.store = aged
    <3>1. CASE steps > 0
      BY <2>2, <3>1 DEF Tick
    <3>2. CASE ~(steps > 0)
      <4>1. IsContents(Memories(a)) /\ table.store = Memories(a)
        BY <2>1, <2>2, <3>2 DEF Tick, IsTable
      <4>2. \A k \in DOMAIN Memories(a) :
              [Memories(a)[k] EXCEPT !.age = @ + passed] = Memories(a)[k]
        BY <3>2, <4>1 DEF IsContents, Payload
      <4>3. Memories(a) = [k \in DOMAIN Memories(a) |-> Memories(a)[k]]
        BY <4>1 DEF IsContents
      <4> QED
        BY <4>1, <4>2, <4>3
    <3> QED
      BY <3>1, <3>2
  <2>4. Store!Age(a, steps)
    BY <1>2, <2>2, <2>3 DEF Store!Age
  <2> QED
    BY <2>2, <2>4 DEF StoreStep, Store!Next
<1>3. CASE ~m.ok /\ Commit(m.st) /\ ret' = Raised
  BY <1>3, RaiseStep DEF StoreStep, Store!Next
<1> QED
  BY <1>1, <1>2, <1>3

\* evict_stale is a Sweep of the store, or a failure.
LEMMA EvictStep ==
  ASSUME SoundSt(St), NEW a \in Adapters, NEW threshold \in Thresholds,
         EvictStaleFrom(a, threshold)
  PROVE  SoundSt(St') /\ StoreStep
<1> DEFINE Count(t) == [adapter |-> a, threshold |-> threshold,
                        count |-> EvictedCount(t, threshold)]
<1>1. PICK m \in Mount(St, a) :
        \/ /\ m.ok
           /\ Commit([m.st EXCEPT !.tables[a] = EvictStale(m.st.tables[a], threshold)])
           /\ ret' = Count(m.st.tables[a])
        \/ ~m.ok /\ Commit(m.st) /\ ret' = Raised
  BY DEF EvictStaleFrom, OnTable
<1>2. CASE /\ m.ok
           /\ Commit([m.st EXCEPT !.tables[a] = EvictStale(m.st.tables[a], threshold)])
           /\ ret' = Count(m.st.tables[a])
  <2> DEFINE old == m.st.tables[a]
             table == EvictStale(old, threshold)
             dropped == IF old.needsEviction THEN Stale(Memories(a), threshold) ELSE {}
  <2>1. IsTable(old) /\ IsTable(table)
    BY <1>2, MountEffect, EvictIsTable DEF SoundSt
  <2>2. /\ SoundSt(St') /\ old.store = Memories(a)
        /\ Store!Answer(a, table.store, ret')
    BY <1>2, <2>1, AnswerStep
  <2>3. /\ dropped \in SUBSET Stale(Memories(a), threshold)
        /\ EvictedCount(old, threshold) = Cardinality(dropped)
    BY <2>2, FS_EmptySet DEF EvictedCount
  <2>4. table.store = Without(Memories(a), dropped)
    <3>1. CASE old.needsEviction
      BY <2>2, <3>1 DEF EvictStale
    <3>2. CASE ~old.needsEviction
      <4>1. table.store = Memories(a) /\ IsContents(Memories(a))
        BY <2>1, <2>2, <3>2 DEF EvictStale, IsTable
      <4>2. Without(Memories(a), {}) = Memories(a)
        BY <4>1 DEF Without, Restrict, IsContents
      <4> QED
        BY <3>2, <4>1, <4>2
    <3> QED
      BY <3>1, <3>2
  <2> HIDE DEF dropped, table, old
  <2>5. Store!Sweep(a, threshold)
    <3> \A x, y : Store!Without(x, y) = Without(x, y)
      BY DEF Store!Without, Without, Store!Restrict, Restrict
    <3>1. Store!Answer(a, Store!Without(Memories(a), dropped),
                       [adapter |-> a, threshold |-> threshold, count |-> Cardinality(dropped)])
      BY <1>2, <2>2, <2>3, <2>4 DEF old
    <3>2. dropped \in SUBSET Store!Stale(Memories(a), threshold)
      BY <2>3, StoreStale
    <3> QED
      BY <3>1, <3>2, StoreCardinality DEF Store!Sweep
  <2> QED
    BY <2>2, <2>5 DEF StoreStep, Store!Next
<1>3. CASE ~m.ok /\ Commit(m.st) /\ ret' = Raised
  BY <1>3, RaiseStep DEF StoreStep, Store!Next
<1> QED
  BY <1>1, <1>2, <1>3

\* unmount, unmount_all: each commits an outcome and raises if that did.
LEMMA FinishStep ==
  ASSUME SoundSt(St), NEW o, o.ok \in BOOLEAN, SoundSt(o.st),
         o.ok => KeptOrSaved(St, o.st, Adapters), ~o.ok => Failed(St, o.st),
         Commit(o.st), ret' = IF o.ok THEN Done ELSE Raised
  PROVE  SoundSt(St') /\ StoreStep
<1>1. St' = o.st /\ Store!Shaped
      /\ (KeptOrSaved(St, o.st, Adapters) => Store!Settled(Adapters))
      /\ (Failed(St, o.st) /\ ret' = Raised => Store!Fail)
  BY CommitAsStore
<1>2. o.ok => Store!Checkpoint
  BY <1>1 DEF Store!Checkpoint
<1>3. ~o.ok => Store!Fail
  BY <1>1
<1> QED
  BY <1>1, <1>2, <1>3 DEF StoreStep, Store!Next

\* unmount is a Checkpoint, or a failure.
LEMMA UnmountStep ==
  ASSUME SoundSt(St), NEW a \in Adapters, Unmount(a)
  PROVE  SoundSt(St') /\ StoreStep
<1>1. CASE a \in DOMAIN tables
  <2>1. PICK o \in DropAndSave(St, a) :
          Commit(o.st) /\ ret' = IF o.ok THEN Done ELSE Raised
    BY <1>1 DEF Unmount, Finish
  <2>2. a \in DOMAIN St.tables
    BY <1>1 DEF St
  <2>3. /\ o.ok \in BOOLEAN /\ SoundSt(o.st)
        /\ o.ok => KeptOrSaved(St, o.st, Adapters)
        /\ ~o.ok => Failed(St, o.st)
    BY <2>1, <2>2, DropAndSaveEffect
  <2> QED
    BY <2>1, <2>3, FinishStep
<1>2. CASE a \notin DOMAIN tables
  <2>1. PICK o \in {Returns(St)} : Commit(o.st) /\ ret' = IF o.ok THEN Done ELSE Raised
    BY <1>2 DEF Unmount, Finish
  <2>2. o.st = St /\ o.ok = TRUE
    BY DEF Returns
  <2>3. /\ o.ok \in BOOLEAN /\ SoundSt(o.st)
        /\ o.ok => KeptOrSaved(St, o.st, Adapters)
        /\ ~o.ok => Failed(St, o.st)
    BY <2>2 DEF KeptOrSaved, Kept
  <2> QED
    BY <2>1, <2>3, FinishStep
<1> QED
  BY <1>1, <1>2

\* unmount_all is a Checkpoint, or a failure.
LEMMA UnmountAllStep ==
  ASSUME SoundSt(St), UnmountAll
  PROVE  SoundSt(St') /\ StoreStep
<1>1. PICK o \in FlushAll(St) : Commit(o.st) /\ ret' = IF o.ok THEN Done ELSE Raised
  BY DEF UnmountAll, Finish
<1> QED
  BY <1>1, FlushAllEffect, FinishStep

\* SqliteBackend.delete under a running manager is a Retire of the store.
LEMMA RetireStep ==
  ASSUME SoundSt(St), NEW a \in Adapters, Retire(a)
  PROVE  SoundSt(St') /\ StoreStep
<1> DEFINE t == [order |-> order, tables |-> tables, disk |-> [disk EXCEPT ![a] = NoRows]]
<1>1. IsContents(NoRows)
  BY DEF IsContents, NoRows
<1>2. /\ t.order = St.order /\ t.tables = St.tables
      /\ t.disk = [St.disk EXCEPT ![a] = NoRows]
      /\ t \in [order : {t.order}, tables : {t.tables}, disk : {t.disk}]
  BY DEF St
<1>3. Commit(t) /\ ret' = Done
  BY DEF Retire, Commit
<1> HIDE DEF t
<1>4. SoundSt(t)
  BY <1>1, <1>2 DEF SoundSt
<1>5. \A b \in Adapters \ {a} : Kept(St, t, b)
  BY <1>2, <1>4 DEF Kept, View, SoundSt
<1>6. St' = t /\ Store!Shaped /\ Store!Settled(Adapters \ {a})
  BY <1>3, <1>4, <1>5, CommitAsStore DEF KeptOrSaved
<1>7. disk'[a] = NoRows /\ Memories(a)' \in {Memories(a), NoRows}
  BY <1>2, <1>3, <1>4 DEF Commit, Memories, St, SoundSt
<1>8. Store!Retire(a)
  BY <1>3, <1>6, <1>7 DEF Store!Retire, Store!NoRows, NoRows
<1> QED
  BY <1>4, <1>6, <1>8 DEF StoreStep, Store!Next

\* The end of the process is a Crash of the store.
LEMMA CrashStep ==
  ASSUME SoundSt(St), Crash
  PROVE  SoundSt(St') /\ StoreStep
<1> DEFINE t == [order |-> <<>>, tables |-> [a \in {} |-> Absent], disk |-> disk]
<1>1. /\ t.order = <<>> /\ DOMAIN t.tables = {} /\ t.disk = St.disk
      /\ t \in [order : {t.order}, tables : {t.tables}, disk : {t.disk}]
  BY DEF St
<1>2. Commit(t) /\ ret' = Crashed
  BY DEF Crash, Commit
<1> HIDE DEF t
<1>3. Lists(<<>>, {}) /\ Len(<<>>) = 0
  BY ListsEmpty, EmptySeq
<1>4. SoundSt(t)
  BY <1>1, <1>3, MaxLoadedAssumption DEF SoundSt
<1>5. \A a \in Adapters : Lost(St, t, a)
  BY <1>1 DEF Lost, View
<1>6. St' = t /\ Store!Shaped /\ \A a \in Adapters : Store!Reverted(a)
  BY <1>2, <1>4, <1>5, CommitAsStore
<1>7. Store!Crash
  BY <1>2, <1>6 DEF Store!Crash
<1> QED
  BY <1>4, <1>6, <1>7 DEF StoreStep, Store!Next

----------------------------------------------------------------------------
(* The theorems. *)

\* Every step keeps the state sound and is a step of the store or a stutter.
LEMMA NextStep ==
  ASSUME SoundSt(St), [Next]_vars
  PROVE  SoundSt(St') /\ StoreStep
<1>1. CASE UNCHANGED vars
  <2>1. St' = St /\ \A a \in Adapters : Memories(a)' = Memories(a)
    BY <1>1 DEF vars, St, Memories
  <2>2. UNCHANGED Store!vars
    BY <1>1, <2>1 DEF vars, Store!vars
  <2> QED
    BY <2>1, <2>2 DEF StoreStep
<1>2. ASSUME NEW a \in Adapters, Use(a) PROVE SoundSt(St') /\ StoreStep
  BY <1>2, WriteStep, GetStep, TickStep, EvictStep DEF Use
<1>3. CASE Release
  BY <1>3, UnmountStep, RetireStep, UnmountAllStep, CrashStep DEF Release
<1> QED
  BY <1>1, <1>2, <1>3 DEF Next

\* The inductive invariant.  In every reachable state the dict and its order
\* agree, no slot is used twice, and every table and database is
\* well-formed.  None of these is inductive alone: mount evicts one table
\* only because order and dict have the same length, and the popped name is
\* in the dict only because the order lists it.
THEOREM Soundness == Spec => []SoundSt(St)
<1>1. Init => SoundSt(St)
  BY InitSound
<1>2. SoundSt(St) /\ [Next]_vars => SoundSt(St)'
  <2> SUFFICES ASSUME SoundSt(St), [Next]_vars PROVE SoundSt(St)'
    OBVIOUS
  <2>1. SoundSt(St')
    BY NextStep
  <2> QED
    BY <2>1 DEF SoundSt, Lists, Distinct
<1> QED
  BY <1>1, <1>2, PTL DEF Spec

\* Order, dict and databases always have their types, and the order names
\* exactly the adapters in RAM.
THEOREM TypeCorrect == Spec => []TypeOK
<1>1. SoundSt(St) => TypeOK
  BY DEF SoundSt, St, TypeOK, Lists
<1> QED
  BY <1>1, Soundness, PTL

\* manager.py: never more than max_loaded tables in RAM, whatever mounts,
\* loads and saves fail on the way.
THEOREM SlotsAreRespected == Spec => []SlotsRespected
<1>1. SoundSt(St) => SlotsRespected
  <2> SUFFICES ASSUME SoundSt(St) PROVE SlotsRespected
    OBVIOUS
  <2>1. Lists(order, DOMAIN tables) /\ Len(order) <= MaxLoaded
    BY DEF SoundSt, St
  <2> QED
    BY <2>1, ListsCardinality DEF SlotsRespected
<1> QED
  BY <1>1, Soundness, PTL

\* The LRU manager implements the memory store: mounting, evicting, loading
\* and flushing are invisible to callers but for what MemoryStore allows.
THEOREM Refinement == Spec => RefinesMemoryStore
<1>1. Init => Store!Init
  BY DEF Init, Store!Init, Memories, Store!NoRows, NoRows
<1>2. SoundSt(St) /\ [Next]_vars => [Store!Next]_(Store!vars)
  BY NextStep DEF StoreStep
<1> QED
  BY <1>1, <1>2, Soundness, PTL DEF Spec, RefinesMemoryStore, Store!Spec

----------------------------------------------------------------------------
(* The flag of a table. *)

\* The clear flag of a table can be trusted.
Trusted(table) ==
  ~table.needsEviction => \E threshold \in Thresholds : Stale(table.store, threshold) = {}

\* The tables that are carried over, or loaded, can be trusted if those in
\* RAM can.
LEMMA CarriedCanBeTrusted ==
  ASSUME CleanMeansSwept, NEW t, NEW a, Carried(St, t, a)
  PROVE  \A b \in DOMAIN t.tables : Trusted(t.tables[b])
<1>1. \A b \in DOMAIN tables : Trusted(tables[b])
  BY DEF CleanMeansSwept, Trusted
<1>2. \A contents : Trusted(Load(contents))
  BY DEF Trusted, Load
<1>3. St.tables = tables
  BY DEF St
<1> QED
  BY <1>1, <1>2, <1>3 DEF Carried

\* Tables that are carried over or loaded, and one that a call has changed:
\* if that one can be trusted, so can all.
LEMMA AnswerTrusted ==
  ASSUME SoundSt(St), CleanMeansSwept, NEW a \in Adapters, NEW m \in Mount(St, a), m.ok,
         NEW table, Trusted(m.st.tables[a]) => Trusted(table),
         Commit([m.st EXCEPT !.tables[a] = table])
  PROVE  CleanMeansSwept'
<1>1. SoundSt(m.st) /\ a \in DOMAIN m.st.tables /\ Carried(St, m.st, a)
  BY MountEffect
<1>2. \A b \in DOMAIN m.st.tables : Trusted(m.st.tables[b])
  BY <1>1, CarriedCanBeTrusted
<1>3. tables' = [m.st.tables EXCEPT ![a] = table]
  BY <1>1 DEF Commit, SoundSt
<1>4. \A b \in DOMAIN tables' : Trusted(tables'[b])
  BY <1>1, <1>2, <1>3
<1> QED
  BY <1>4 DEF CleanMeansSwept, Trusted

\* Tables that are dropped, carried over or loaded.
LEMMA CarriedTrusted ==
  ASSUME CleanMeansSwept, NEW t, NEW a, Carried(St, t, a), tables' = t.tables
  PROVE  CleanMeansSwept'
BY CarriedCanBeTrusted DEF CleanMeansSwept, Trusted

\* put and tick raise the flag when they add or age a memory, evict_stale
\* clears it only after a scan.
LEMMA ChangesTrusted ==
  ASSUME NEW table, Trusted(table)
  PROVE  /\ \A k, p : Trusted(Put(table, k, p))
         /\ \A steps : Trusted(Tick(table, steps))
         /\ \A threshold \in Thresholds : Trusted(EvictStale(table, threshold))
<1>1. \A k, p : Trusted(Put(table, k, p))
  BY DEF Trusted, Put
<1>2. \A steps : Trusted(Tick(table, steps))
  BY DEF Trusted, Tick
<1>3. \A threshold \in Thresholds : Trusted(EvictStale(table, threshold))
  BY NothingStaleLeft DEF Trusted, EvictStale
<1> QED
  BY <1>1, <1>2, <1>3

\* A call that uses an adapter leaves flags that can be trusted.
LEMMA UseTrusted ==
  ASSUME SoundSt(St), CleanMeansSwept, NEW a \in Adapters, Use(a)
  PROVE  CleanMeansSwept'
<1>1. PICK m \in Mount(St, a) :
        \/ /\ m.ok
           /\ \E table : /\ Commit([m.st EXCEPT !.tables[a] = table])
                         /\ Trusted(m.st.tables[a]) => Trusted(table)
        \/ ~m.ok /\ Commit(m.st)
  BY ChangesTrusted DEF Use, WriteMemory, GetMemory, TickAdapter, EvictStaleFrom, OnTable
<1>2. CASE ~m.ok /\ Commit(m.st)
  BY <1>2, MountEffect, CarriedTrusted DEF Commit
<1> QED
  BY <1>1, <1>2, AnswerTrusted

\* A call that gives tables back leaves the others as they were.
LEMMA ReleaseTrusted ==
  ASSUME SoundSt(St), CleanMeansSwept, Release
  PROVE  CleanMeansSwept'
<1>1. ASSUME NEW a \in Adapters, Unmount(a) PROVE CleanMeansSwept'
  <2>1. CASE a \in DOMAIN tables
    <3>1. PICK o \in DropAndSave(St, a) : Commit(o.st)
      BY <1>1, <2>1 DEF Unmount, Finish
    <3>2. Carried(St, o.st, a)
      BY <2>1, DropAndSaveEffect DEF Carried, St
    <3> QED
      BY <3>1, <3>2, CarriedTrusted DEF Commit
  <2>2. CASE a \notin DOMAIN tables
    BY <1>1, <2>2 DEF Unmount, Finish, Returns, Commit, St, CleanMeansSwept
  <2> QED
    BY <2>1, <2>2
<1>2. CASE UnmountAll
  <2>1. PICK o \in FlushAll(St) : Commit(o.st)
    BY <1>2 DEF UnmountAll, Finish
  <2>2. \A a : Carried(St, o.st, a)
    BY FlushAllEffect DEF Carried
  <2> QED
    BY <2>1, <2>2, CarriedTrusted DEF Commit
<1>3. ASSUME NEW a \in Adapters, Retire(a) PROVE CleanMeansSwept'
  BY <1>3 DEF Retire, CleanMeansSwept
<1>4. CASE Crash
  BY <1>4 DEF Crash, CleanMeansSwept
<1> QED
  BY <1>1, <1>2, <1>3, <1>4 DEF Release

\* engram_table.py: where evict_stale skips its scan because the flag is
\* clear, some earlier scan's threshold still finds nothing stale.
THEOREM CleanFlagIsTrusted == Spec => []CleanMeansSwept
<1>1. Init => CleanMeansSwept
  BY DEF Init, CleanMeansSwept
<1>2. SoundSt(St) /\ CleanMeansSwept /\ [Next]_vars => CleanMeansSwept'
  <2>1. ASSUME CleanMeansSwept, UNCHANGED vars PROVE CleanMeansSwept'
    BY <2>1 DEF CleanMeansSwept, vars
  <2> QED
    BY <2>1, UseTrusted, ReleaseTrusted DEF Next
<1> QED
  BY <1>1, <1>2, Soundness, PTL DEF Spec
=============================================================================
