------------------------- MODULE OrderAndRekey_proofs -------------------------
(***************************************************************************)
(* Proofs about two specifications that extend the manager's.  LruOrder:   *)
(* the order of the dict agrees with the order of the last uses, and so    *)
(* the table that an overflow evicts is the one whose last use lies        *)
(* furthest back.  RekeyMigration: what the script that rewrites a         *)
(* database keeps of it, and where it keeps it; and what the keys it       *)
(* writes, those of NgramHasher, tell of the texts.                        *)
(***************************************************************************)
EXTENDS LruOrder, RekeyMigration, EngRamManager_proofs

\* The inductive invariant: each adapter in RAM was used, and two of them
\* stand in the dict as their last uses stand in time.
RecentOK ==
  /\ Lists(recent, ToSet(recent)) /\ ToSet(recent) \subseteq Adapters
  /\ DOMAIN tables \subseteq ToSet(recent)
  /\ \A x, y : Before(order, x, y) => Before(recent, x, y)

\* The adapters that t still names stand in the order they had in st.
KeepsOrder(st, t) == \A x, y : Before(t.order, x, y) => Before(st.order, x, y)

----------------------------------------------------------------------------
(* What the internal methods do to the order. *)

\* _evict_lru and unmount pop one name, saved or lost.
LEMMA DropOrder ==
  ASSUME NEW st, SoundSt(st), NEW a \in DOMAIN st.tables, NEW o \in DropAndSave(st, a)
  PROVE  KeepsOrder(st, o.st) /\ DOMAIN o.st.tables = DOMAIN st.tables \ {a}
<1>1. o.st.order = RemoveFirst(st.order, a) /\ DOMAIN o.st.tables = DOMAIN st.tables \ {a}
  BY DropAndSaveOutcome DEF IsWithout
<1>2. Lists(st.order, DOMAIN st.tables)
  BY DEF SoundSt
<1> QED
  BY <1>1, <1>2, BeforeRemove DEF KeepsOrder

\* A load appends the name, or leaves everything.
LEMMA LoadOrder ==
  ASSUME NEW st, SoundSt(st), NEW a, NEW o \in LoadTable(st, a)
  PROVE  /\ o.ok => o.st.order = Append(st.order, a) /\ DOMAIN o.st.tables = DOMAIN st.tables \cup {a}
         /\ ~o.ok => o.st = st
<1> DEFINE loaded == [b \in DOMAIN st.tables \cup {a} |->
                        IF b = a THEN Load(st.disk[a]) ELSE st.tables[b]]
           t == [st EXCEPT !.order = Append(@, a), !.tables = loaded]
<1>1. (o.st = t /\ o.ok = TRUE) \/ (o.st = st /\ o.ok = FALSE)
  <2>1. o = [st |-> t, ok |-> TRUE] \/ o = [st |-> st, ok |-> FALSE]
    BY DEF LoadTable, Returns, Raises
  <2> HIDE DEF t
  <2> QED
    BY <2>1
<1>2. t.order = Append(st.order, a) /\ t.tables = loaded
  BY DEF SoundSt
<1> HIDE DEF t
<1> QED
  BY <1>1, <1>2

\* In the order that a mount of a leaves, a is last; the rest stands as before.
MovesToEnd(st, t, a) ==
  \A x, y : Before(t.order, x, y) =>
    \/ y = a /\ x # a /\ x \in DOMAIN st.tables
    \/ Before(st.order, x, y) /\ x # a /\ y # a

\* What has left RAM stood before everything else there.
FreesFirst(st, t) ==
  \A v \in DOMAIN st.tables \ DOMAIN t.tables : \A b \in DOMAIN st.tables \ {v} :
    b \in DOMAIN t.tables /\ Before(st.order, v, b)

\* A name of the order is a table, and one that is not there is not before or
\* after any other.
LEMMA BeforeInside ==
  ASSUME NEW s, NEW D, Lists(s, D), NEW x, NEW y, Before(s, x, y)
  PROVE  x \in D /\ y \in D /\ x # y
<1>1. Len(s) \in Nat /\ \A i \in 1..Len(s) : s[i] \in D
  BY LenProperties, ElementOfSeq DEF Lists
<1>2. PICK i, j \in 1..Len(s) : i < j /\ s[i] = x /\ s[j] = y
  BY DEF Before
<1>3. \A k, l \in 1..Len(s) : s[k] = s[l] => k = l
  BY DEF Lists, Distinct
<1> QED
  BY <1>1, <1>2, <1>3

\* The name that was just loaded is the last one.
LEMMA AppendOrder ==
  ASSUME NEW st, SoundSt(st), NEW a, a \notin DOMAIN st.tables, NEW t,
         t.order = Append(st.order, a)
  PROVE  MovesToEnd(st, t, a)
<1>1. Lists(st.order, DOMAIN st.tables) /\ st.order \in Seq(DOMAIN st.tables \cup {a})
  BY SeqMonotonic DEF SoundSt, Lists
<1>2. ToSet(st.order) = DOMAIN st.tables
  BY <1>1 DEF Lists
<1>3. \A x, y : Before(t.order, x, y) <=> Before(st.order, x, y) \/ (y = a /\ x \in DOMAIN st.tables)
  BY <1>1, <1>2, BeforeAppend
<1> QED
  BY <1>1, <1>3, BeforeInside DEF MovesToEnd

\* move_to_end puts the name last.
LEMMA TouchOrder ==
  ASSUME NEW st, SoundSt(st), NEW a \in DOMAIN st.tables
  PROVE  MovesToEnd(st, Touch(st, a), a)
<1> DEFINE r == RemoveFirst(st.order, a)
           D == DOMAIN st.tables
<1>1. Touch(st, a).order = Append(r, a)
  BY DEF Touch, SoundSt
<1>2. Lists(st.order, D) /\ Lists(r, D \ {a})
  BY ListsRemove DEF SoundSt
<1>3. r \in Seq(D) /\ ToSet(r) = D \ {a}
  BY <1>2, SeqMonotonic DEF Lists
<1>4. \A x, y : Before(Append(r, a), x, y) <=> Before(r, x, y) \/ (y = a /\ x \in D \ {a})
  BY <1>3, BeforeAppend
<1>5. \A x, y : Before(r, x, y) <=> Before(st.order, x, y) /\ x # a /\ y # a
  BY <1>2, BeforeRemove
<1> QED
  BY <1>1, <1>4, <1>5 DEF MovesToEnd

\* The head of the order stands before every other table.
LEMMA HeadIsFirst ==
  ASSUME NEW st, SoundSt(st), st.order # <<>>
  PROVE  /\ Head(st.order) \in DOMAIN st.tables
         /\ \A b \in DOMAIN st.tables \ {Head(st.order)} : Before(st.order, Head(st.order), b)
<1>1. Lists(st.order, DOMAIN st.tables)
  BY DEF SoundSt
<1>2. Head(st.order) \in DOMAIN st.tables
  BY <1>1, ListsPop
<1>3. Len(st.order) \in Nat /\ DOMAIN st.tables = {st.order[i] : i \in 1..Len(st.order)}
  BY <1>1, LenProperties DEF Lists, ToSet
<1>4. Head(st.order) = st.order[1]
  BY <1>1, HeadTailProperties DEF Lists
<1>5. ASSUME NEW b \in DOMAIN st.tables \ {Head(st.order)} PROVE Before(st.order, Head(st.order), b)
  <2>1. PICK i \in 1..Len(st.order) : st.order[i] = b
    BY <1>3
  <2>2. 1 \in 1..Len(st.order) /\ 1 < i
    BY <1>3, <1>4, <2>1
  <2> QED
    BY <1>4, <2>1, <2>2 DEF Before
<1> QED
  BY <1>2, <1>5

\* mount: the table asked for becomes the last, and only the first may go.
LEMMA MountOrder ==
  ASSUME NEW st, SoundSt(st), NEW a \in Adapters, NEW m \in Mount(st, a)
  PROVE  /\ m.ok => MovesToEnd(st, m.st, a) /\ a \in DOMAIN m.st.tables
         /\ ~m.ok => KeepsOrder(st, m.st) /\ DOMAIN m.st.tables \subseteq DOMAIN st.tables
         /\ DOMAIN m.st.tables \subseteq DOMAIN st.tables \cup {a}
         /\ FreesFirst(st, m.st)
<1>1. CASE a \in DOMAIN st.tables
  <2>1. m.st = Touch(st, a) /\ m.ok = TRUE
    BY <1>1 DEF Mount, Returns
  <2> QED
    BY <1>1, <2>1, TouchEffect, TouchOrder DEF FreesFirst
<1>2. ASSUME a \notin DOMAIN st.tables, m \in LoadTable(st, a)
      PROVE  /\ m.ok => MovesToEnd(st, m.st, a) /\ DOMAIN m.st.tables = DOMAIN st.tables \cup {a}
             /\ ~m.ok => m.st = st
  BY <1>2, LoadOrder, AppendOrder
<1>3. CASE a \notin DOMAIN st.tables /\ Len(st.order) < MaxLoaded
  <2>1. m \in LoadTable(st, a)
    BY <1>3, SoundStFacts, MaxLoadedAssumption DEF Mount
  <2> QED
    BY <1>2, <1>3, <2>1 DEF KeepsOrder, FreesFirst
<1>4. CASE a \notin DOMAIN st.tables /\ Len(st.order) >= MaxLoaded
  <2> DEFINE v == Head(st.order)
  <2>1. st.order # <<>>
    BY <1>4, SoundStFacts, MaxLoadedAssumption, EmptySeq
  <2>2. v \in DOMAIN st.tables /\ \A b \in DOMAIN st.tables \ {v} : Before(st.order, v, b)
    BY <2>1, HeadIsFirst
  <2>3. \/ m \in EvictLru(st) /\ ~m.ok
        \/ \E o \in EvictLru(st) : o.ok /\ m \in LoadTable(o.st, a)
    BY <1>4 DEF Mount, AndThen
  <2> HIDE DEF v
  <2>4. CASE m \in EvictLru(st) /\ ~m.ok
    <3>1. KeepsOrder(st, m.st) /\ DOMAIN m.st.tables = DOMAIN st.tables \ {v}
      BY <2>2, <2>4, DropOrder DEF EvictLru, v
    <3> QED
      BY <2>2, <2>4, <3>1 DEF FreesFirst
  <2>5. CASE \E o \in EvictLru(st) : o.ok /\ m \in LoadTable(o.st, a)
    <3>1. PICK o \in EvictLru(st) : o.ok /\ m \in LoadTable(o.st, a)
      BY <2>5
    <3>2. KeepsOrder(st, o.st) /\ DOMAIN o.st.tables = DOMAIN st.tables \ {v} /\ SoundSt(o.st)
      BY <2>2, <3>1, DropOrder, DropAndSaveEffect DEF EvictLru, v
    <3>3. a \notin DOMAIN o.st.tables
      BY <1>4, <3>2
    <3>4. /\ m.ok => MovesToEnd(o.st, m.st, a) /\ DOMAIN m.st.tables = DOMAIN o.st.tables \cup {a}
          /\ ~m.ok => m.st = o.st
      BY <3>1, <3>2, <3>3, LoadOrder, AppendOrder
    <3>5. MovesToEnd(o.st, m.st, a) => MovesToEnd(st, m.st, a)
      BY <3>2 DEF MovesToEnd, KeepsOrder
    <3>6. FreesFirst(st, m.st)
      BY <2>2, <3>2, <3>4 DEF FreesFirst
    <3> QED
      BY <3>2, <3>4, <3>5, <3>6
  <2> QED
    BY <2>3, <2>4, <2>5
<1> QED
  BY <1>1, <1>3, <1>4, SoundStFacts, MaxLoadedAssumption

\* unmount_all frees tables from the front of the order on.
LEMMA FlushAllOrder ==
  ASSUME NEW st, SoundSt(st), NEW o \in FlushAll(st)
  PROVE  KeepsOrder(st, o.st)
<1> DEFINE n == Len(st.order)
<1>1. n \in Nat /\ Lists(st.order, DOMAIN st.tables)
  BY SoundStFacts DEF SoundSt
<1>2. \/ o.st = Flushed(st, n)
      \/ \E j \in 1..n : /\ \A i \in 1..j - 1 : Saveable(st.tables[st.order[i]])
                         /\ o.st = Drop(Flushed(st, j - 1), st.order[j])
  BY DEF FlushAll, Returns, Raises
<1>3. ASSUME NEW k \in 0..n PROVE KeepsOrder(st, Flushed(st, k))
  <2>1. Flushed(st, k).order = SubSeq(st.order, k + 1, n)
    BY DEF Flushed
  <2> QED
    BY <1>1, <2>1, BeforeTail DEF KeepsOrder
<1>4. ASSUME NEW j \in 1..n, \A i \in 1..j - 1 : Saveable(st.tables[st.order[i]])
      PROVE  KeepsOrder(st, Drop(Flushed(st, j - 1), st.order[j]))
  <2> DEFINE mid == Flushed(st, j - 1)
  <2>1. j - 1 \in 0..n /\ j \in (j - 1) + 1..n
    BY <1>1
  <2>2. SoundSt(mid) /\ st.order[j] \in DOMAIN mid.tables
    BY <1>4, <2>1, FlushedEffect
  <2> HIDE DEF mid
  <2>3. Drop(mid, st.order[j]).order = RemoveFirst(mid.order, st.order[j])
    BY <2>2, DropIsWithout DEF IsWithout
  <2>4. KeepsOrder(mid, Drop(mid, st.order[j]))
    BY <2>2, <2>3, BeforeRemove DEF KeepsOrder, SoundSt
  <2>5. KeepsOrder(st, mid)
    BY <1>3, <2>1 DEF mid
  <2>6. KeepsOrder(st, Drop(mid, st.order[j]))
    BY <2>4, <2>5 DEF KeepsOrder
  <2> QED
    BY <2>6 DEF mid
<1>5. n \in 0..n
  BY <1>1
<1> QED
  BY <1>2, <1>3, <1>4, <1>5

----------------------------------------------------------------------------
(* Steps. *)

\* What a call that uses an adapter returns is not what a raise looks like.
LEMMA ReturnsAreNotRaises ==
  /\ Raised # Done
  /\ \A a \in Adapters, k \in Keys : \A table : IsTable(table) =>
       [adapter |-> a, key |-> k, value |-> Get(table, k)] # Raised
  /\ \A a \in Adapters, threshold \in Thresholds : \A table : IsTable(table) =>
       [adapter |-> a, threshold |-> threshold, count |-> EvictedCount(table, threshold)] # Raised
<1>1. ASSUME NEW a \in Adapters, NEW k \in Keys, NEW table, IsTable(table)
      PROVE  [adapter |-> a, key |-> k, value |-> Get(table, k)] # Raised
  <2>1. Get(table, k) \in Payload \cup {Absent}
    BY <1>1 DEF Get, ValueAt, IsTable, IsContents
  <2>2. [adapter |-> a, key |-> k, value |-> Get(table, k)]
          \in [adapter : Adapters, key : Keys, value : Payload \cup {Absent}]
    BY <2>1
  <2> QED
    BY <2>2, RaiseAssumption
<1>2. ASSUME NEW a \in Adapters, NEW threshold \in Thresholds, NEW table, IsTable(table)
      PROVE  [adapter |-> a, threshold |-> threshold, count |-> EvictedCount(table, threshold)] # Raised
  <2> DEFINE counts == {Cardinality(S) : S \in SUBSET Keys}
             n == EvictedCount(table, threshold)
  <2>1. Stale(table.store, threshold) \in SUBSET Keys /\ {} \in SUBSET Keys /\ Cardinality({}) = 0
    BY <1>2, FS_EmptySet DEF Stale, IsTable, IsContents
  <2>2. n \in counts
    BY <2>1 DEF EvictedCount
  <2> HIDE DEF n, counts
  <2>3. [adapter |-> a, threshold |-> threshold, count |-> n]
          \in [adapter : Adapters, threshold : Thresholds, count : counts]
    BY <2>2
  <2>4. Raised \notin [adapter : Adapters, threshold : Thresholds, count : counts]
    BY RaiseAssumption DEF counts
  <2> QED
    BY <2>3, <2>4 DEF n
<1>3. Raised # Done
  BY RaiseAssumption
<1> QED
  BY <1>1, <1>2, <1>3

\* A call that uses an adapter leaves the order its mount has left.
LEMMA UseMounts ==
  ASSUME SoundSt(St), NEW a \in Adapters, Use(a)
  PROVE  \E m \in Mount(St, a) : /\ order' = m.st.order /\ DOMAIN tables' = DOMAIN m.st.tables
                                 /\ m.ok \in BOOLEAN /\ (m.ok <=> ret' # Raised)
<1>1. PICK m \in Mount(St, a) :
        \/ /\ m.ok /\ ret' # Raised
           /\ \E table : Commit([m.st EXCEPT !.tables[a] = table])
        \/ ~m.ok /\ Commit(m.st) /\ ret' = Raised
  <2>1. ASSUME NEW m \in Mount(St, a), m.ok PROVE IsTable(m.st.tables[a])
    BY <2>1, MountEffect DEF SoundSt
  <2>2. ASSUME NEW k \in Keys, NEW p \in Payloads, WriteMemory(a, k, p)
        PROVE  \E m \in Mount(St, a) :
                 \/ /\ m.ok /\ ret' # Raised
                    /\ \E table : Commit([m.st EXCEPT !.tables[a] = table])
                 \/ ~m.ok /\ Commit(m.st) /\ ret' = Raised
    BY <2>2, ReturnsAreNotRaises DEF WriteMemory, OnTable
  <2>3. ASSUME NEW k \in Keys, GetMemory(a, k)
        PROVE  \E m \in Mount(St, a) :
                 \/ /\ m.ok /\ ret' # Raised
                    /\ \E table : Commit([m.st EXCEPT !.tables[a] = table])
                 \/ ~m.ok /\ Commit(m.st) /\ ret' = Raised
    BY <2>1, <2>3, ReturnsAreNotRaises DEF GetMemory, OnTable
  <2>4. ASSUME NEW steps \in Steps, TickAdapter(a, steps)
        PROVE  \E m \in Mount(St, a) :
                 \/ /\ m.ok /\ ret' # Raised
                    /\ \E table : Commit([m.st EXCEPT !.tables[a] = table])
                 \/ ~m.ok /\ Commit(m.st) /\ ret' = Raised
    BY <2>4, ReturnsAreNotRaises DEF TickAdapter, OnTable
  <2>5. ASSUME NEW threshold \in Thresholds, EvictStaleFrom(a, threshold)
        PROVE  \E m \in Mount(St, a) :
                 \/ /\ m.ok /\ ret' # Raised
                    /\ \E table : Commit([m.st EXCEPT !.tables[a] = table])
                 \/ ~m.ok /\ Commit(m.st) /\ ret' = Raised
    BY <2>1, <2>5, ReturnsAreNotRaises DEF EvictStaleFrom, OnTable
  <2> QED
    BY <2>2, <2>3, <2>4, <2>5 DEF Use
<1>2. SoundSt(m.st) /\ m.ok \in BOOLEAN
  BY MountEffect
<1>3. \A table : LET t == [m.st EXCEPT !.tables[a] = table]
                 IN  t.order = m.st.order /\ DOMAIN t.tables = DOMAIN m.st.tables
  BY <1>2 DEF SoundSt
<1> QED
  BY <1>1, <1>2, <1>3 DEF Commit

\* The history moves the adapter used to its end, or adds it there.
LEMMA RecentMoves ==
  ASSUME NEW s, NEW D, Lists(s, D), NEW a
  PROVE  /\ Lists(Append(RemoveFirst(s, a), a), D \cup {a})
         /\ \A x, y : Before(Append(RemoveFirst(s, a), a), x, y) <=>
              \/ y = a /\ x \in D \ {a}
              \/ Before(s, x, y) /\ x # a /\ y # a
<1> DEFINE r == RemoveFirst(s, a)
<1>1. /\ Lists(r, D \ {a})
      /\ \A x, y : Before(r, x, y) <=> Before(s, x, y) /\ x # a /\ y # a
  <2>1. CASE a \in D
    BY <2>1, ListsRemove, BeforeRemove
  <2>2. CASE a \notin D
    <3>1. r = s
      BY <2>2, LenProperties DEF RemoveFirst, Lists, ToSet
    <3>2. \A x, y : Before(s, x, y) => x # a /\ y # a
      BY <2>2, BeforeInside
    <3> QED
      BY <2>2, <3>1, <3>2
  <2> QED
    BY <2>1, <2>2
<1> HIDE DEF r
<1>2. Lists(Append(r, a), (D \ {a}) \cup {a}) /\ (D \ {a}) \cup {a} = D \cup {a}
  BY <1>1, ListsAppend
<1>3. \A x, y : Before(Append(r, a), x, y) <=> Before(r, x, y) \/ (y = a /\ x \in D \ {a})
  <2>1. r \in Seq(D \cup {a}) /\ ToSet(r) = D \ {a}
    BY <1>1, SeqMonotonic DEF Lists
  <2> QED
    BY <2>1, BeforeAppend
<1> QED
  BY <1>1, <1>2, <1>3 DEF r

\* A use keeps the invariant, whether it returns or raises.
LEMMA UseKeepsRecent ==
  ASSUME SoundSt(St), RecentOK, NEW a \in Adapters, UseRecorded(a)
  PROVE  RecentOK'
<1>1. PICK m \in Mount(St, a) : /\ order' = m.st.order /\ DOMAIN tables' = DOMAIN m.st.tables
                                /\ m.ok \in BOOLEAN /\ (m.ok <=> ret' # Raised)
  BY UseMounts DEF UseRecorded
<1>2. St.order = order /\ St.tables = tables
  BY DEF St
<1>3. CASE ~m.ok
  <2>1. recent' = recent
    BY <1>1, <1>3 DEF UseRecorded
  <2>2. KeepsOrder(St, m.st) /\ DOMAIN m.st.tables \subseteq DOMAIN St.tables
    BY <1>3, MountOrder
  <2> QED
    BY <1>1, <1>2, <2>1, <2>2 DEF RecentOK, KeepsOrder
<1>4. CASE m.ok
  <2> DEFINE R == ToSet(recent)
  <2>1. recent' = Append(RemoveFirst(recent, a), a)
    BY <1>1, <1>4 DEF UseRecorded
  <2>2. /\ Lists(recent', R \cup {a})
        /\ \A x, y : Before(recent', x, y) <=>
             \/ y = a /\ x \in R \ {a}
             \/ Before(recent, x, y) /\ x # a /\ y # a
    BY <2>1, RecentMoves DEF RecentOK
  <2>3. MovesToEnd(St, m.st, a) /\ DOMAIN m.st.tables \subseteq DOMAIN St.tables \cup {a}
    BY <1>4, MountOrder
  <2>4. ToSet(recent') = R \cup {a}
    BY <2>2 DEF Lists
  <2> HIDE DEF R
  <2>5. DOMAIN tables \subseteq R /\ R \subseteq Adapters /\ \A x, y : Before(order, x, y) => Before(recent, x, y)
    BY DEF RecentOK, R
  <2>6. DOMAIN tables' \subseteq R \cup {a}
    BY <1>1, <1>2, <2>3, <2>5
  <2>7. \A x, y : Before(order', x, y) => Before(recent', x, y)
    BY <1>1, <1>2, <2>2, <2>3, <2>5 DEF MovesToEnd
  <2> QED
    BY <2>2, <2>4, <2>5, <2>6, <2>7 DEF RecentOK
<1> QED
  BY <1>1, <1>3, <1>4

\* A call that gives tables back changes the order of none.
LEMMA ReleaseKeepsRecent ==
  ASSUME SoundSt(St), RecentOK, Release, UNCHANGED recent
  PROVE  RecentOK'
<1>1. St.order = order /\ St.tables = tables
  BY DEF St
<1>2. ASSUME NEW t, Commit(t), KeepsOrder(St, t), DOMAIN t.tables \subseteq DOMAIN tables
      PROVE  RecentOK'
  BY <1>1, <1>2 DEF Commit, KeepsOrder, RecentOK
<1>3. ASSUME NEW a \in Adapters, Unmount(a) PROVE RecentOK'
  <2>1. CASE a \in DOMAIN tables
    <3>1. PICK o \in DropAndSave(St, a) : Commit(o.st)
      BY <1>3, <2>1 DEF Unmount, Finish
    <3>2. KeepsOrder(St, o.st) /\ DOMAIN o.st.tables = DOMAIN tables \ {a}
      BY <1>1, <2>1, DropOrder
    <3> QED
      BY <1>2, <3>1, <3>2
  <2>2. CASE a \notin DOMAIN tables
    BY <1>1, <1>3, <2>2 DEF Unmount, Finish, Returns, Commit, RecentOK
  <2> QED
    BY <2>1, <2>2
<1>4. CASE UnmountAll
  <2>1. PICK o \in FlushAll(St) : Commit(o.st)
    BY <1>4 DEF UnmountAll, Finish
  <2>2. KeepsOrder(St, o.st) /\ DOMAIN o.st.tables \subseteq DOMAIN tables
    BY <1>1, FlushAllOrder, FlushAllEffect
  <2> QED
    BY <1>2, <2>1, <2>2
<1>5. ASSUME NEW a \in Adapters, Retire(a) PROVE RecentOK'
  BY <1>5 DEF Retire, RecentOK
<1>6. CASE Crash
  <2>1. order' = <<>> /\ DOMAIN tables' = {}
    BY <1>6 DEF Crash
  <2>2. \A x, y : ~Before(<<>>, x, y)
    BY DEF Before
  <2> QED
    BY <2>1, <2>2 DEF RecentOK
<1> QED
  BY <1>3, <1>4, <1>5, <1>6 DEF Release

----------------------------------------------------------------------------
(* The theorems. *)

\* The dict's order is the order of the last uses, at every moment.
THEOREM OrderIsRecency == LruSpec => [](SoundSt(St) /\ RecentOK)
<1>1. LruInit => SoundSt(St) /\ RecentOK
  <2>1. \A x, y : ~Before(<<>>, x, y)
    BY DEF Before
  <2>2. ToSet(<<>>) = {}
    BY DEF ToSet
  <2>3. LruInit => SoundSt(St)
    BY InitSound DEF LruInit
  <2> QED
    BY <2>1, <2>2, <2>3, ListsEmpty DEF LruInit, Init, RecentOK
<1>2. SoundSt(St) /\ RecentOK /\ [LruNext]_lruVars => (SoundSt(St) /\ RecentOK)'
  <2> SUFFICES ASSUME SoundSt(St), RecentOK, [LruNext]_lruVars PROVE SoundSt(St') /\ RecentOK'
    OBVIOUS
  <2>1. [Next]_vars
    BY DEF LruNext, UseRecorded, Next, lruVars, vars
  <2>2. SoundSt(St')
    BY <2>1, NextStep
  <2>3. ASSUME NEW a \in Adapters, UseRecorded(a) PROVE RecentOK'
    BY <2>3, UseKeepsRecent
  <2>4. ASSUME Release, UNCHANGED recent PROVE RecentOK'
    BY <2>4, ReleaseKeepsRecent
  <2>5. ASSUME UNCHANGED lruVars PROVE RecentOK'
    BY <2>5 DEF lruVars, RecentOK
  <2>6. RecentOK'
    BY <2>3, <2>4, <2>5 DEF LruNext
  <2> QED
    BY <2>2, <2>6
<1> QED
  BY <1>1, <1>2, PTL DEF LruSpec

\* What stands before another in the history was used before it for the
\* last time.
LEMMA EarlierLastUse ==
  ASSUME Lists(recent, ToSet(recent)), NEW v, NEW b, Before(recent, v, b)
  PROVE  LastUse(v) < LastUse(b)
<1>1. /\ DOMAIN recent = 1..Len(recent) /\ Len(recent) \in Nat
      /\ \A i, j \in 1..Len(recent) : recent[i] = recent[j] => i = j
  BY LenProperties DEF Lists, Distinct
<1>2. PICK i, j \in 1..Len(recent) : i < j /\ recent[i] = v /\ recent[j] = b
  BY DEF Before
<1>3. LastUse(v) = i /\ LastUse(b) = j
  BY <1>1, <1>2 DEF LastUse
<1> QED
  BY <1>2, <1>3

\* manager.py:5: "Evicts the Least Recently Used table on overflow".
THEOREM LeastRecentIsEvicted == LruSpec => EvictsLeastRecent
<1>1. ASSUME SoundSt(St), RecentOK, NEW a \in Adapters, UseRecorded(a),
             NEW v \in Freed, NEW b \in DOMAIN tables \ {v}
      PROVE  b \notin Freed /\ LastUse(v) < LastUse(b)
  <2>1. PICK m \in Mount(St, a) : DOMAIN tables' = DOMAIN m.st.tables
    BY <1>1, UseMounts DEF UseRecorded
  <2>2. v \in DOMAIN tables \ DOMAIN tables'
    BY <1>1 DEF Freed
  <2>3. FreesFirst(St, m.st)
    BY <1>1, MountOrder
  <2>4. b \in DOMAIN tables' /\ Before(order, v, b)
    BY <1>1, <2>1, <2>2, <2>3 DEF FreesFirst, St
  <2>5. Before(recent, v, b)
    BY <1>1, <2>4 DEF RecentOK
  <2> QED
    BY <1>1, <2>4, <2>5, EarlierLastUse DEF Freed, RecentOK
<1> DEFINE Evicts ==
      \A a \in Adapters : UseRecorded(a) =>
        \A v \in Freed : \A b \in DOMAIN tables \ {v} : b \notin Freed /\ LastUse(v) < LastUse(b)
<1>2. SoundSt(St) /\ RecentOK /\ [LruNext]_lruVars => [Evicts]_lruVars
  BY <1>1
<1> QED
  BY <1>2, OrderIsRecency, PTL DEF LruSpec, EvictsLeastRecent

----------------------------------------------------------------------------
(* The script that rewrites a database.  new_map is a fold over the rows,  *)
(* in the order they are met: what holds of it after each is proved along  *)
(* the fold.                                                               *)

HasKey(row) == row.text \in DOMAIN NewKey

\* Some row of another text with its key is as salient as a row of the text.
GivesWay(rows, text) ==
  \E i, j \in Sharing(rows, NewKey[text]) :
    rows[i].text # text /\ rows[j].text = text /\ rows[i].salience >= rows[j].salience

\* What is kept of a row that was met: a row under its key that has its
\* text, or there is one for it to give way to; and it is as salient, if
\* no text with the key is there twice with different saliences.
Stands(rows, map, row) ==
  LET h == NewKey[row.text]
  IN  /\ h \in DOMAIN map
      /\ map[h].text = row.text \/ GivesWay(rows, row.text)
      /\ EachOnce(rows, Sharing(rows, h)) => map[h].salience >= row.salience

\* new_map: rows of the database, each under the key of its text.
IsPlacement(rows, map) ==
  /\ IsFiniteSet(DOMAIN map)
  /\ map = [h \in DOMAIN map |-> map[h]]
  /\ \A h \in DOMAIN map :
       \E k \in DOMAIN rows : map[h] = rows[k] /\ HasKey(rows[k]) /\ NewKey[rows[k].text] = h

\* new_map after the first i rows of met.
PlacedSoFar(rows, met, i, map) ==
  /\ IsPlacement(rows, map)
  /\ \A j \in 1..i : HasKey(rows[met[j]]) => Stands(rows, map, rows[met[j]])

Placing == INSTANCE FoldTheorems WITH
  op <- LAMBDA rows, map, k : Placed(map, rows[k]),
  P  <- LAMBDA q, i, map : PlacedSoFar(q[1], q[2], i, map)

\* A row is skipped, or it is put under its key: in the place of none, of
\* one with its text, or of a less salient one.
LEMMA PlacedCases ==
  ASSUME NEW rows, IsContents(rows), NEW k \in DOMAIN rows, NEW map, IsPlacement(rows, map)
  PROVE  /\ ~HasKey(rows[k]) => Placed(map, rows[k]) = map
         /\ HasKey(rows[k]) =>
              LET h == NewKey[rows[k].text] IN
              \/ /\ Placed(map, rows[k]) = map /\ h \in DOMAIN map
                 /\ map[h].text # rows[k].text /\ map[h].salience >= rows[k].salience
              \/ /\ Placed(map, rows[k]) = With(map, h, rows[k])
                 /\ h \in DOMAIN map =>
                      map[h].text = rows[k].text \/ rows[k].salience >= map[h].salience
<1> DEFINE row == rows[k]
           h == NewKey[row.text]
<1>1. \A j \in DOMAIN rows : rows[j].salience \in Int
  BY DEF IsContents, Payload
<1>2. h \in DOMAIN map => map[h].salience \in Int
  BY <1>1 DEF IsPlacement
<1>3. CASE HasKey(row) /\ (h \in DOMAIN map => map[h].text = row.text)
  BY <1>3 DEF Placed, HasKey
<1>4. CASE HasKey(row) /\ h \in DOMAIN map /\ map[h].text # row.text
  <2>1. CASE row.salience > map[h].salience
    <3>1. row.salience >= map[h].salience
      BY <1>1, <1>2, <1>4, <2>1
    <3> QED
      BY <1>4, <2>1, <3>1 DEF Placed, HasKey
  <2>2. CASE ~(row.salience > map[h].salience)
    <3>1. map[h].salience >= row.salience
      BY <1>1, <1>2, <1>4, <2>2
    <3> QED
      BY <1>4, <2>2, <3>1 DEF Placed, HasKey
  <2> QED
    BY <2>1, <2>2
<1>5. CASE ~HasKey(row)
  BY <1>5 DEF Placed, HasKey
<1> QED
  BY <1>3, <1>4, <1>5

\* The entry of a key is a row that shares it.
LEMMA EntryIsARow ==
  ASSUME NEW rows, NEW map, IsPlacement(rows, map), NEW h \in DOMAIN map
  PROVE  \E m \in Sharing(rows, h) : map[h] = rows[m]
BY DEF IsPlacement, HasKey, Sharing

\* A round of the loop: what stood stands, and so does the row that was met.
LEMMA PlacedKeeps ==
  ASSUME NEW rows, IsContents(rows), NEW k \in DOMAIN rows, NEW map, IsPlacement(rows, map)
  PROVE  /\ IsPlacement(rows, Placed(map, rows[k]))
         /\ \A j \in DOMAIN rows :
              HasKey(rows[j]) /\ (j = k \/ Stands(rows, map, rows[j]))
                => Stands(rows, Placed(map, rows[k]), rows[j])
<1> DEFINE row == rows[k]
           h == NewKey[row.text]
           put == With(map, h, row)
<1>1. \A j \in DOMAIN rows : rows[j].salience \in Int
  BY DEF IsContents, Payload
<1>2. /\ DOMAIN put = DOMAIN map \cup {h} /\ put[h] = row
      /\ \A g \in DOMAIN map \ {h} : put[g] = map[g]
      /\ put = [g \in DOMAIN put |-> put[g]]
  BY DEF With
<1> HIDE DEF put
<1>3. IsFiniteSet(DOMAIN put)
  BY <1>2, FS_AddElement DEF IsPlacement
<1>4. HasKey(row) => IsPlacement(rows, put)
  BY <1>2, <1>3 DEF IsPlacement
<1>5. IsPlacement(rows, Placed(map, row))
  BY <1>4, PlacedCases DEF put
<1>6. HasKey(row) => k \in Sharing(rows, h)
  BY DEF HasKey, Sharing
<1>7. ASSUME NEW j \in DOMAIN rows, HasKey(rows[j]), j = k \/ Stands(rows, map, rows[j])
      PROVE  Stands(rows, Placed(map, row), rows[j])
  <2> DEFINE g == NewKey[rows[j].text]
  <2>0. j \in Sharing(rows, g)
    BY <1>7 DEF HasKey, Sharing
  <2>1. CASE Placed(map, row) = map /\ j # k
    BY <1>7, <2>1
  <2>2. CASE j = k /\ Placed(map, row) = map /\ h \in DOMAIN map /\ map[h].text # row.text
             /\ map[h].salience >= row.salience
    <3>1. PICK m \in Sharing(rows, h) : map[h] = rows[m]
      BY <2>2, EntryIsARow
    <3>2. GivesWay(rows, row.text)
      BY <2>0, <2>2, <3>1 DEF GivesWay
    <3> QED
      BY <2>2, <3>2 DEF Stands
  <2>3. CASE j = k /\ Placed(map, row) = put
    <3>1. row.salience >= row.salience
      BY <1>1
    <3>2. Stands(rows, put, row)
      BY <1>2, <3>1 DEF Stands
    <3> QED
      BY <2>3, <3>2
  <2>4. CASE Placed(map, row) = put /\ j # k /\ g # h
    <3>1. Stands(rows, map, rows[j])
      BY <1>7, <2>4
    <3>2. Stands(rows, put, rows[j])
      BY <1>2, <2>4, <3>1 DEF Stands
    <3> QED
      BY <2>4, <3>2
  <2>5. CASE /\ HasKey(row) /\ Placed(map, row) = put /\ j # k /\ g = h
             /\ h \in DOMAIN map => map[h].text = row.text \/ row.salience >= map[h].salience
    <3>1. Stands(rows, map, rows[j]) /\ h \in DOMAIN map
      BY <1>7, <2>5 DEF Stands
    <3>2. PICK m \in Sharing(rows, h) : map[h] = rows[m]
      BY <3>1, EntryIsARow
    <3>3. m \in DOMAIN rows
      BY <3>2 DEF Sharing
    <3>4. row.text = rows[j].text \/ GivesWay(rows, rows[j].text)
      <4>1. CASE rows[m].text = rows[j].text /\ row.text # rows[j].text
        <5>1. row.salience >= rows[m].salience
          BY <2>5, <3>1, <3>2, <4>1
        <5> QED
          BY <1>6, <2>5, <3>2, <4>1, <5>1 DEF GivesWay
      <4>2. CASE rows[m].text # rows[j].text
        BY <3>1, <3>2, <4>2, <2>5 DEF Stands
      <4> QED
        BY <4>1, <4>2
    <3>5. ASSUME EachOnce(rows, Sharing(rows, h)) PROVE row.salience >= rows[j].salience
      <4>1. row.salience >= rows[m].salience
        <5>1. row.text = rows[m].text => row.salience = rows[m].salience
          BY <1>6, <2>5, <3>2, <3>5 DEF EachOnce
        <5> QED
          BY <1>1, <2>5, <3>1, <3>2, <3>3, <5>1
      <4>2. rows[m].salience >= rows[j].salience
        BY <2>5, <3>1, <3>2, <3>5 DEF Stands
      <4> QED
        BY <1>1, <3>3, <4>1, <4>2
    <3>6. Stands(rows, put, rows[j])
      BY <1>2, <2>5, <3>4, <3>5 DEF Stands
    <3> QED
      BY <2>5, <3>6
  <2>6. \/ ~HasKey(row) /\ Placed(map, row) = map
        \/ Placed(map, row) = map /\ h \in DOMAIN map /\ map[h].text # row.text
             /\ map[h].salience >= row.salience
        \/ /\ HasKey(row) /\ Placed(map, row) = put
           /\ h \in DOMAIN map => map[h].text = row.text \/ row.salience >= map[h].salience
    BY PlacedCases DEF put
  <2> QED
    BY <1>7, <2>1, <2>2, <2>3, <2>4, <2>5, <2>6
<1> QED
  BY <1>5, <1>7

\* The rows are met in some order, each of them once.
LEMMA EachIsMet ==
  ASSUME NEW S, IsFiniteSet(S), NEW met \in SetToSeqs(S)
  PROVE  /\ Cardinality(S) \in Nat /\ met \in [1..Cardinality(S) -> S]
         /\ \A k \in S : \E j \in 1..Cardinality(S) : met[j] = k
<1> DEFINE n == Cardinality(S)
<1>1. n \in Nat
  BY FS_CardinalityType
<1>2. met \in [1..n -> S] /\ \A i, j \in 1..n : i # j => met[i] # met[j]
  BY DEF SetToSeqs
<1>3. met \in Injection(1..n, S)
  BY <1>2 DEF Injection, IsInjective
<1>4. Cardinality(1..n) = n
  BY <1>1, FS_Interval
<1>5. met \in Surjection(1..n, S)
  BY <1>3, <1>4, FS_Injection
<1> QED
  BY <1>1, <1>2, <1>5 DEF Surjection

\* After the loop: rows under their keys, and every row that can be hashed
\* stands.
LEMMA NewMapStands ==
  ASSUME NEW rows, IsContents(rows), IsFiniteSet(DOMAIN rows), NEW met \in SetToSeqs(DOMAIN rows)
  PROVE  LET new == NewMap(rows, met)
         IN  /\ IsContents(new) /\ IsFiniteSet(DOMAIN new)
             /\ \A h \in DOMAIN new : HasKey(new[h]) /\ NewKey[new[h].text] = h
             /\ \A k \in DOMAIN rows : HasKey(rows[k]) => Stands(rows, new, rows[k])
<1> DEFINE n == Cardinality(DOMAIN rows)
           map == Placing!Fold(rows, NoRows, met)
           new == [h \in DOMAIN map |-> [map[h] EXCEPT !.tags = Characters]]
<1>1. /\ n \in Nat /\ DOMAIN met = 1..n
      /\ \A j \in 1..n : met[j] \in DOMAIN rows
      /\ \A k \in DOMAIN rows : \E j \in 1..n : met[j] = k
  BY EachIsMet
<1> HIDE DEF n
<1>2. PlacedSoFar(rows, met, n, map)
  <2>1. PlacedSoFar(rows, met, 0, NoRows)
    BY FS_EmptySet DEF PlacedSoFar, IsPlacement, NoRows
  <2>2. ASSUME NEW i \in 1..n, NEW m, PlacedSoFar(rows, met, i - 1, m)
        PROVE  PlacedSoFar(rows, met, i, Placed(m, rows[met[i]]))
    <3>1. met[i] \in DOMAIN rows /\ IsPlacement(rows, m)
      BY <1>1, <2>2 DEF PlacedSoFar
    <3>2. \A j \in 1..i : j \in 1..n /\ (j = i \/ j \in 1..i - 1)
      BY <1>1
    <3>3. \A j \in 1..i : HasKey(rows[met[j]]) => met[j] = met[i] \/ Stands(rows, m, rows[met[j]])
      BY <2>2, <3>2 DEF PlacedSoFar
    <3> QED
      BY <1>1, <3>1, <3>2, <3>3, PlacedKeeps DEF PlacedSoFar
  <2> DEFINE q == <<rows, met>>
  <2>3. q[1] = rows /\ q[2] = met
    OBVIOUS
  <2> HIDE DEF q
  <2>4. /\ PlacedSoFar(q[1], q[2], 0, NoRows)
        /\ \A i \in 1..n : \A m : PlacedSoFar(q[1], q[2], i - 1, m)
             => PlacedSoFar(q[1], q[2], i, Placed(m, rows[met[i]]))
    BY <2>1, <2>2, <2>3
  <2>5. PlacedSoFar(q[1], q[2], n, map)
    BY <1>1, <2>4, Placing!FoldInduction
  <2> QED
    BY <2>3, <2>5
<1>3. NewMap(rows, met) = new
  BY DEF NewMap, Placing!Fold, FoldLeft, MapThenFoldSet, Max,
         Placing!FoldLeft, Placing!MapThenFoldSet, Placing!Max
<1> HIDE DEF map
<1>4. \A h \in DOMAIN map : map[h] \in Payload
  BY <1>2 DEF PlacedSoFar, IsPlacement, IsContents
<1>5. \A h \in DOMAIN map : /\ new[h] \in Payload /\ new[h].text = map[h].text
                            /\ new[h].salience = map[h].salience
  BY <1>4, CharactersAssumption DEF Payload
<1>6. DOMAIN new = DOMAIN map /\ new = [h \in DOMAIN map |-> new[h]]
  OBVIOUS
<1> HIDE DEF new
<1>7. \A h \in DOMAIN map : HasKey(map[h]) /\ NewKey[map[h].text] = h
  BY <1>2 DEF PlacedSoFar, IsPlacement
<1>8. DOMAIN map \subseteq Keys
  BY <1>7, KeysAssumption DEF HasKey, Range
<1>9. IsContents(new) /\ IsFiniteSet(DOMAIN new)
  BY <1>2, <1>5, <1>6, <1>8 DEF IsContents, PlacedSoFar, IsPlacement
<1>10. \A h \in DOMAIN new : HasKey(new[h]) /\ NewKey[new[h].text] = h
  BY <1>5, <1>6, <1>7 DEF HasKey
<1>11. ASSUME NEW k \in DOMAIN rows, HasKey(rows[k]) PROVE Stands(rows, new, rows[k])
  <2>1. Stands(rows, map, rows[k])
    BY <1>1, <1>2, <1>11 DEF PlacedSoFar
  <2> QED
    BY <1>5, <1>6, <2>1 DEF Stands
<1> QED
  BY <1>3, <1>9, <1>10, <1>11

\* Finitely many rows, each with a text.
IsStored(rows) == IsFiniteSet(DOMAIN rows) /\ \A k \in DOMAIN rows : rows[k].text \in Texts

\* The inductive invariant: a sound manager, databases and tables with
\* finitely many rows, and rows of one database in the script's hands.
RekeyInv ==
  /\ SoundSt(St)
  /\ \A a \in Adapters : IsStored(Memories(a)) /\ IsStored(disk[a])
  /\ DOMAIN reading \subseteq Adapters /\ Cardinality(DOMAIN reading) <= 1
  /\ \A a \in DOMAIN reading : IsContents(reading[a]) /\ IsStored(reading[a])

\* A step of the store leaves finitely many rows, and gives none another text.
LEMMA StoredStep ==
  ASSUME StoreStep, SoundSt(St),
         \A a \in Adapters : IsStored(Memories(a)) /\ IsStored(disk[a])
  PROVE  \A a \in Adapters : IsStored(Memories(a)') /\ IsStored(disk'[a])
<1> DEFINE F(rows) == IsStored(rows)
           Stored(a) == F(Memories(a)') /\ F(disk'[a])
<1>1. \A a \in Adapters : F(Memories(a)) /\ F(disk[a]) /\ IsContents(Memories(a))
  BY DEF SoundSt, St, IsTable, Memories
<1>2. ASSUME NEW old, NEW new, F(old), F(new), IsContents(new) PROVE F(Upserted(old, Rows(new)))
  <2>1. IsFiniteSet(DOMAIN Upserted(old, Rows(new)))
    BY <1>2, FS_Union DEF IsStored, Upserted, Rows
  <2>2. \A k \in DOMAIN new : Rows(new)[k].text = new[k].text
    BY <1>2 DEF IsContents, Payload, Rows, Row
  <2>3. \A k \in DOMAIN Upserted(old, Rows(new)) :
          Upserted(old, Rows(new))[k] = IF k \in DOMAIN new THEN Rows(new)[k] ELSE old[k]
    BY DEF Upserted, Rows
  <2>4. \A k \in DOMAIN Upserted(old, Rows(new)) : k \in DOMAIN new \/ k \in DOMAIN old
    BY DEF Upserted, Rows
  <2> QED
    BY <1>2, <2>1, <2>2, <2>3, <2>4 DEF IsStored
<1> SUFFICES \A a \in Adapters : Stored(a)
  OBVIOUS
<1> HIDE DEF F
<1>3. ASSUME NEW S \in SUBSET Adapters, Store!Settled(S) PROVE \A a \in S : Stored(a)
  <2> SUFFICES ASSUME NEW a \in S PROVE Stored(a)
    OBVIOUS
  <2>1. CASE Store!Same(a)
    BY <1>1, <2>1 DEF Store!Same
  <2>2. CASE Store!Checkpointed(a)
    <3>1. disk'[a] = Upserted(disk[a], Rows(Memories(a))) /\ Memories(a)' = disk'[a]
      BY <2>2, StoreContents DEF Store!Checkpointed
    <3> QED
      BY <1>1, <1>2, <3>1
  <2> QED
    BY <1>3, <2>1, <2>2 DEF Store!Settled
<1>4. \A a \in Adapters : Store!Reverted(a) => Stored(a)
  BY <1>1 DEF Store!Reverted
<1>5. ASSUME NEW a \in Adapters, NEW contents, NEW value, F(contents), Store!Answer(a, contents, value)
      PROVE  \A b \in Adapters : Stored(b)
  BY <1>1, <1>3, <1>5 DEF Store!Answer
<1>6. ASSUME NEW a \in Adapters, NEW k \in Keys, Store!Read(a, k) PROVE \A b \in Adapters : Stored(b)
  BY <1>1, <1>5, <1>6 DEF Store!Read
<1>7. ASSUME NEW a \in Adapters, NEW k \in Keys, NEW p \in Payloads, Store!Write(a, k, p)
      PROVE  \A b \in Adapters : Stored(b)
  <2>1. F(With(Memories(a), k, p))
    BY <1>1, FS_AddElement, RowsAssumption DEF With, F, IsStored
  <2>2. \A x : Store!With(x, k, p) = With(x, k, p)
    BY DEF Store!With, With
  <2> QED
    BY <1>5, <1>7, <2>1, <2>2 DEF Store!Write
<1>8. ASSUME NEW a \in Adapters, NEW steps \in Steps, Store!Age(a, steps)
      PROVE  \A b \in Adapters : Stored(b)
  <2> DEFINE aged(c) == [k \in DOMAIN c |-> [c[k] EXCEPT !.age = @ + IF steps > 0 THEN steps ELSE 0]]
  <2>1. F(aged(Memories(a)))
    <3>1. IsStored(Memories(a)) /\ IsContents(Memories(a))
      BY <1>1 DEF F
    <3>2. \A k \in DOMAIN Memories(a) : Memories(a)[k] \in Payload /\ Memories(a)[k].text \in Texts
      BY <3>1 DEF IsContents, IsStored
    <3>3. \A k \in DOMAIN Memories(a) : aged(Memories(a))[k].text = Memories(a)[k].text
      BY <3>2 DEF Payload
    <3> QED
      BY <3>1, <3>2, <3>3 DEF F, IsStored
  <2> HIDE DEF aged
  <2>2. Store!Answer(a, aged(Memories(a)), Done)
    BY <1>8 DEF Store!Age, aged
  <2> QED
    BY <1>5, <2>1, <2>2
<1>9. ASSUME NEW a \in Adapters, NEW threshold \in Thresholds, Store!Sweep(a, threshold)
      PROVE  \A b \in Adapters : Stored(b)
  <2>1. PICK S, value : Store!Answer(a, Store!Without(Memories(a), S), value)
    BY <1>9 DEF Store!Sweep
  <2>2. F(Store!Without(Memories(a), S))
    BY <1>1, FS_Subset DEF F, IsStored, Store!Without, Store!Restrict
  <2> QED
    BY <1>5, <2>1, <2>2
<1>10. ASSUME NEW a \in Adapters, Store!Retire(a) PROVE \A b \in Adapters : Stored(b)
  <2>1. F(Store!NoRows)
    BY FS_EmptySet DEF F, IsStored, Store!NoRows
  <2>2. Stored(a) /\ Store!Settled(Adapters \ {a})
    BY <1>1, <1>10, <2>1 DEF Store!Retire
  <2> QED
    BY <1>3, <2>2
<1>11. CASE Store!Fail \/ Store!Checkpoint \/ Store!Crash
  <2>1. CASE Store!Fail
    <3>1. PICK a \in Adapters : /\ Store!Settled(Adapters \ {a})
                                /\ Store!Settled({a}) \/ Store!Reverted(a)
      BY <2>1 DEF Store!Fail, Store!Settled
    <3> QED
      BY <1>3, <1>4, <3>1
  <2>2. CASE Store!Checkpoint
    BY <1>3, <2>2 DEF Store!Checkpoint
  <2>3. CASE Store!Crash
    BY <1>4, <2>3 DEF Store!Crash
  <2> QED
    BY <1>11, <2>1, <2>2, <2>3
<1>12. CASE UNCHANGED Store!vars
  <2>1. Store!Settled(Adapters)
    BY <1>12 DEF Store!vars, Store!Settled, Store!Same
  <2> QED
    BY <1>3, <2>1
<1> QED
  BY <1>6, <1>7, <1>8, <1>9, <1>10, <1>11, <1>12 DEF StoreStep, Store!Next

\* What the script does when it commits: one database has new rows, each
\* row that was read stands in them, and nothing else changes.
LEMMA RewriteEffect ==
  ASSUME RekeyInv, NEW a \in Adapters, Rewrite(a)
  PROVE  /\ a \in DOMAIN reading /\ reading' = Nothing
         /\ UNCHANGED <<order, tables, ret>>
         /\ DOMAIN disk' = Adapters /\ \A b \in Adapters \ {a} : disk'[b] = disk[b]
         /\ IsContents(disk'[a]) /\ IsStored(disk'[a])
         /\ disk'[a] # disk[a] =>
              /\ \A h \in DOMAIN disk'[a] : HasKey(disk'[a][h]) /\ NewKey[disk'[a][h].text] = h
              /\ \A k \in DOMAIN reading[a] :
                   HasKey(reading[a][k]) => Stands(reading[a], disk'[a], reading[a][k])
<1>1. /\ a \in DOMAIN reading /\ reading' = Nothing
      /\ UNCHANGED <<order, tables, ret>>
  BY DEF Rewrite
<1>2. PICK met \in SetToSeqs(DOMAIN reading[a]) :
        disk' = IF Changed(reading[a])
                THEN [disk EXCEPT ![a] = Replaced(@, NewMap(reading[a], met))]
                ELSE disk
  BY DEF Rewrite
<1>3. /\ DOMAIN disk = Adapters /\ \A b \in Adapters : IsContents(disk[b]) /\ IsStored(disk[b])
      /\ IsContents(reading[a]) /\ IsStored(reading[a])
  BY <1>1 DEF RekeyInv, SoundSt, St
<1> DEFINE new == NewMap(reading[a], met)
<1>4. /\ IsContents(new) /\ IsStored(new)
      /\ \A h \in DOMAIN new : HasKey(new[h]) /\ NewKey[new[h].text] = h
      /\ \A k \in DOMAIN reading[a] : HasKey(reading[a][k]) => Stands(reading[a], new, reading[a][k])
  <2>1. IsFiniteSet(DOMAIN reading[a])
    BY <1>3 DEF IsStored
  <2>2. /\ IsContents(new) /\ IsFiniteSet(DOMAIN new)
        /\ \A h \in DOMAIN new : HasKey(new[h]) /\ NewKey[new[h].text] = h
        /\ \A k \in DOMAIN reading[a] : HasKey(reading[a][k]) => Stands(reading[a], new, reading[a][k])
    BY <1>3, <2>1, NewMapStands
  <2>3. DOMAIN NewKey \subseteq Texts
    BY DEF NewKey
  <2>4. \A h \in DOMAIN new : new[h].text \in Texts
    BY <2>2, <2>3 DEF HasKey
  <2> QED
    BY <2>2, <2>4 DEF IsStored
<1> HIDE DEF new
<1>5. disk' = disk \/ disk' = [disk EXCEPT ![a] = new]
  BY <1>2 DEF Replaced, new
<1>6. CASE disk' = disk
  BY <1>1, <1>3, <1>6
<1>7. CASE disk' = [disk EXCEPT ![a] = new]
  <2>1. disk'[a] = new /\ DOMAIN disk' = Adapters /\ \A b \in Adapters \ {a} : disk'[b] = disk[b]
    BY <1>3, <1>7
  <2> QED
    BY <1>1, <1>4, <2>1
<1> QED
  BY <1>5, <1>6, <1>7

\* A call of the manager that the script runs beside.
LEMMA WorkStep ==
  ASSUME SoundSt(St), ManagerWorks
  PROVE  SoundSt(St') /\ StoreStep /\ UNCHANGED reading
<1>1. ASSUME NEW p \in Payloads, p.text \in DOMAIN NewKey PROVE NewKey[p.text] \in Keys
  BY <1>1, KeysAssumption DEF Range
<1> QED
  BY <1>1, WriteStep, UnmountStep, RetireStep, CrashStep DEF ManagerWorks

\* Before anything is loaded: a manager without tables, and databases that
\* an older version has written.
LEMMA RekeyInitSound ==
  ASSUME RekeyInit
  PROVE  RekeyInv
<1>1. \A a \in Adapters : IsContents(disk[a]) /\ IsStored(disk[a])
  <2> SUFFICES ASSUME NEW a \in Adapters PROVE IsContents(disk[a]) /\ IsStored(disk[a])
    OBVIOUS
  <2>1. PICK S \in SUBSET OldKeys : disk[a] \in [S -> Payloads]
    BY DEF RekeyInit, OldRows
  <2>2. S \subseteq Keys /\ IsFiniteSet(S)
    BY KeysAssumption, OldKeysAssumption, FS_Subset
  <2> QED
    BY <2>1, <2>2, InputAssumption, RowsAssumption DEF IsContents, IsStored
<1>2. /\ St \in [order : {St.order}, tables : {St.tables}, disk : {St.disk}]
      /\ St.order = <<>> /\ St.tables = [a \in {} |-> Absent]
      /\ St.disk = disk /\ DOMAIN disk = Adapters
  BY DEF RekeyInit, St
<1>3. Lists(<<>>, {}) /\ Len(<<>>) = 0
  BY ListsEmpty, EmptySeq
<1>4. SoundSt(St)
  <2> HIDE DEF St
  <2> QED
    BY <1>1, <1>2, <1>3, MaxLoadedAssumption DEF SoundSt
<1>5. \A a \in Adapters : Memories(a) = disk[a]
  BY DEF RekeyInit, Memories
<1>6. DOMAIN reading = {} /\ Cardinality(DOMAIN reading) <= 1
  BY FS_EmptySet DEF RekeyInit, Nothing
<1> QED
  BY <1>1, <1>4, <1>5, <1>6 DEF RekeyInv

\* What every step does: it keeps the invariant, and of the script's steps
\* only the commit changes a database.
LEMMA RekeyStep ==
  ASSUME RekeyInv, [RekeyNext]_rekeyVars
  PROVE  /\ SoundSt(St')
         /\ \A a \in Adapters : IsStored(Memories(a)') /\ IsStored(disk'[a])
         /\ DOMAIN reading' \subseteq Adapters /\ Cardinality(DOMAIN reading') <= 1
         /\ \A a \in DOMAIN reading' : IsContents(reading'[a]) /\ IsStored(reading'[a])
         /\ \A a \in JustRewritten : a \in Adapters /\ Rewrite(a)
<1> DEFINE Goal == /\ SoundSt(St')
                   /\ \A a \in Adapters : IsStored(Memories(a)') /\ IsStored(disk'[a])
                   /\ DOMAIN reading' \subseteq Adapters /\ Cardinality(DOMAIN reading') <= 1
                   /\ \A a \in DOMAIN reading' : IsContents(reading'[a]) /\ IsStored(reading'[a])
                   /\ \A a \in JustRewritten : a \in Adapters /\ Rewrite(a)
<1>1. /\ SoundSt(St) /\ DOMAIN Nothing = {} /\ Cardinality({}) <= 1
      /\ DOMAIN disk = Adapters
      /\ \A a \in Adapters : IsContents(disk[a]) /\ IsStored(disk[a])
  BY FS_EmptySet DEF RekeyInv, SoundSt, St, Nothing
<1>2. ASSUME UNCHANGED vars PROVE /\ St' = St /\ UNCHANGED disk
                                  /\ \A a \in Adapters : Memories(a)' = Memories(a)
  BY <1>2 DEF vars, St, Memories
<1>3. ASSUME NEW a \in Adapters, ReadRows(a) PROVE Goal
  <2>1. reading' = [b \in {a} |-> disk[a]] /\ UNCHANGED vars
    BY <1>3 DEF ReadRows
  <2>2. DOMAIN reading' = {a} /\ reading'[a] = disk[a] /\ Cardinality({a}) = 1
    BY <2>1, FS_Singleton
  <2>3. JustRewritten = {}
    BY <1>2, <2>1 DEF JustRewritten
  <2> QED
    BY <1>1, <1>2, <2>1, <2>2, <2>3 DEF RekeyInv
<1>4. ASSUME NEW a \in Adapters, Rewrite(a) PROVE Goal
  <2>1. /\ a \in DOMAIN reading /\ reading' = Nothing
        /\ UNCHANGED <<order, tables, ret>>
        /\ DOMAIN disk' = Adapters /\ \A b \in Adapters \ {a} : disk'[b] = disk[b]
        /\ IsContents(disk'[a]) /\ IsStored(disk'[a])
    BY <1>4, RewriteEffect
  <2>2. \A b \in Adapters : IsContents(disk'[b]) /\ IsStored(disk'[b])
    BY <1>1, <2>1
  <2>3. /\ St'.order = St.order /\ St'.tables = St.tables /\ St'.disk = disk'
        /\ St' \in [order : {St'.order}, tables : {St'.tables}, disk : {St'.disk}]
    BY <2>1 DEF St
  <2>4. SoundSt(St')
    <3> DEFINE t == St'
    <3> HIDE DEF t
    <3>1. /\ t.order = St.order /\ t.tables = St.tables /\ t.disk = disk'
          /\ t \in [order : {t.order}, tables : {t.tables}, disk : {t.disk}]
      BY <2>3 DEF t
    <3>2. SoundSt(t)
      BY <1>1, <2>1, <2>2, <3>1 DEF SoundSt
    <3> QED
      BY <3>2 DEF t
  <2>5. \A b \in Adapters : IsStored(Memories(b)')
    BY <2>1, <2>2 DEF RekeyInv, Memories
  <2>6. \A b \in JustRewritten : b = a
    <3> SUFFICES ASSUME NEW b \in JustRewritten, b # a PROVE FALSE
      OBVIOUS
    <3>1. b \in DOMAIN reading /\ disk'[b] # disk[b]
      BY DEF JustRewritten
    <3> QED
      BY <2>1, <3>1 DEF RekeyInv
  <2> QED
    BY <1>1, <1>4, <2>1, <2>2, <2>4, <2>5, <2>6
<1>5. ASSUME Abandon PROVE Goal
  <2>1. reading' = Nothing /\ UNCHANGED vars
    BY <1>5 DEF Abandon
  <2>2. JustRewritten = {}
    BY <1>2, <2>1 DEF JustRewritten
  <2> QED
    BY <1>1, <1>2, <2>1, <2>2 DEF RekeyInv
<1>6. ASSUME ManagerWorks PROVE Goal
  <2>1. SoundSt(St') /\ StoreStep /\ UNCHANGED reading
    BY <1>1, <1>6, WorkStep
  <2>2. JustRewritten = {}
    BY <2>1 DEF JustRewritten
  <2> QED
    BY <1>1, <2>1, <2>2, StoredStep DEF RekeyInv
<1>7. ASSUME UNCHANGED rekeyVars PROVE Goal
  <2>1. UNCHANGED vars /\ UNCHANGED reading
    BY <1>7 DEF rekeyVars, vars
  <2>2. JustRewritten = {}
    BY <2>1 DEF JustRewritten
  <2> QED
    BY <1>1, <1>2, <2>1, <2>2 DEF RekeyInv
<1> QED
  BY <1>3, <1>4, <1>5, <1>6, <1>7 DEF RekeyNext

\* The script and a manager that works on the same databases, in every
\* interleaving: rows that are well-formed, of one database at a time.
THEOREM RekeySound == RekeySpec => []RekeyInv
<1>1. RekeyInit => RekeyInv
  BY RekeyInitSound
<1>2. RekeyInv /\ [RekeyNext]_rekeyVars => RekeyInv'
  <2> SUFFICES ASSUME RekeyInv, [RekeyNext]_rekeyVars PROVE RekeyInv'
    OBVIOUS
  <2>1. SoundSt(St')
    BY RekeyStep
  <2>2. SoundSt(St)'
    BY <2>1 DEF SoundSt, Lists, Distinct
  <2> QED
    BY <2>2, RekeyStep DEF RekeyInv
<1> QED
  BY <1>1, <1>2, PTL DEF RekeySpec

\* What the script holds is in the form the manager reads, also when the
\* rows it rewrites are loaded by a manager.
THEOREM RekeyTypeCorrect == RekeySpec => []RekeyTypeOK
<1>1. RekeyInv => RekeyTypeOK
  BY DEF RekeyInv, RekeyTypeOK, SoundSt, St, TypeOK, Lists
<1> QED
  BY <1>1, RekeySound, PTL

\* rekey_migration.py:5-6: a database that was rewritten holds nothing but
\* memories under the key that their text has now, whatever a manager has
\* saved since the rows were read.
THEOREM EachIsFoundByHash == RekeySpec => FoundByHash
<1> DEFINE A == \A a \in JustRewritten : \A k \in DOMAIN disk'[a] :
                  disk'[a][k].text \in DOMAIN NewKey /\ NewKey[disk'[a][k].text] = k
<1>1. RekeyInv /\ [RekeyNext]_rekeyVars => A
  <2> SUFFICES ASSUME RekeyInv, [RekeyNext]_rekeyVars, NEW a \in JustRewritten PROVE
        \A k \in DOMAIN disk'[a] : disk'[a][k].text \in DOMAIN NewKey /\ NewKey[disk'[a][k].text] = k
    OBVIOUS
  <2>1. a \in Adapters /\ Rewrite(a) /\ disk'[a] # disk[a]
    BY RekeyStep DEF JustRewritten
  <2> QED
    BY <2>1, RewriteEffect DEF HasKey
<1> QED
  BY <1>1, RekeySound, PTL DEF RekeySpec, FoundByHash

\* rekey_migration.py: no text that can be hashed is lost, but to another
\* with its key that has a row at least as salient as one of its own, however
\* many rows share a text or a key and in whatever order they are met.
THEOREM NothingGivesWayToLess == RekeySpec => LosesToMoreSalient
<1> DEFINE Remembered(a, k) ==
             LET rows == reading[a]
                 text == rows[k].text
             IN  text \in DOMAIN NewKey =>
                   /\ NewKey[text] \in DOMAIN disk'[a]
                   /\ \/ disk'[a][NewKey[text]].text = text
                      \/ \E i, j \in Sharing(rows, NewKey[text]) :
                           /\ rows[i].text # text /\ rows[j].text = text
                           /\ rows[i].salience >= rows[j].salience
           A == \A a \in JustRewritten : \A k \in DOMAIN reading[a] : Remembered(a, k)
<1>1. RekeyInv /\ [RekeyNext]_rekeyVars => A
  <2> SUFFICES ASSUME RekeyInv, [RekeyNext]_rekeyVars, NEW a \in JustRewritten,
                      NEW k \in DOMAIN reading[a]
               PROVE  Remembered(a, k)
    OBVIOUS
  <2>1. a \in Adapters /\ Rewrite(a) /\ disk'[a] # disk[a]
    BY RekeyStep DEF JustRewritten
  <2>2. HasKey(reading[a][k]) => Stands(reading[a], disk'[a], reading[a][k])
    BY <2>1, RewriteEffect
  <2> QED
    BY <2>2 DEF HasKey, Stands, GivesWay
<1> QED
  BY <1>1, RekeySound, PTL DEF RekeySpec, LosesToMoreSalient

\* Where no text with a key has rows of different salience, the entry of the
\* key is as salient as any row that shares it.
THEOREM MostSalientIsKept == RekeySpec => MostSalientStays
<1> DEFINE A == \A a \in JustRewritten : \A h \in DOMAIN disk'[a] :
                  LET rows == reading[a]
                      S    == Sharing(rows, h)
                  IN  EachOnce(rows, S) => \A k \in S : disk'[a][h].salience >= rows[k].salience
<1>1. RekeyInv /\ [RekeyNext]_rekeyVars => A
  <2> SUFFICES ASSUME RekeyInv, [RekeyNext]_rekeyVars, NEW a \in JustRewritten, NEW h \in DOMAIN disk'[a],
                      EachOnce(reading[a], Sharing(reading[a], h)), NEW k \in Sharing(reading[a], h)
               PROVE  disk'[a][h].salience >= reading[a][k].salience
    OBVIOUS
  <2>1. a \in Adapters /\ Rewrite(a) /\ disk'[a] # disk[a]
    BY RekeyStep DEF JustRewritten
  <2>2. k \in DOMAIN reading[a] /\ HasKey(reading[a][k]) /\ NewKey[reading[a][k].text] = h
    BY DEF Sharing, HasKey
  <2>3. Stands(reading[a], disk'[a], reading[a][k])
    BY <2>1, <2>2, RewriteEffect
  <2> QED
    BY <2>2, <2>3 DEF Stands
<1> QED
  BY <1>1, RekeySound, PTL DEF RekeySpec, MostSalientStays

----------------------------------------------------------------------------
(* The hasher packs characters with |, which is a sum over the bits: what  *)
(* it comes to for the numbers that are packed.                            *)

\* The powers of two, by a name: the solver reads 2^i as it likes.
Two(i) == 2^i

\* Their values.
LEMMA PowersOfTwo ==
  /\ Two(0) = 1 /\ Two(8) = 256 /\ Two(15) = 32768 /\ Two(21) = 32 * 65536
  /\ \A i \in 0..20 : Two(i) \in Nat \ {0} /\ Two(i + 1) = 2 * Two(i)
  /\ Two(21) \in Nat \ {0}
<1>1. /\ 2^0 = 1 /\ 2^1 = 2 /\ 2^2 = 4 /\ 2^3 = 8 /\ 2^4 = 16 /\ 2^5 = 32 /\ 2^6 = 64 /\ 2^7 = 128
      /\ 2^8 = 256 /\ 2^9 = 512 /\ 2^10 = 1024 /\ 2^11 = 2048 /\ 2^12 = 4096 /\ 2^13 = 8192
      /\ 2^14 = 16384 /\ 2^15 = 32768 /\ 2^16 = 65536 /\ 2^17 = 2 * 65536 /\ 2^18 = 4 * 65536
      /\ 2^19 = 8 * 65536 /\ 2^20 = 16 * 65536 /\ 2^21 = 32 * 65536
  OBVIOUS
<1> DEFINE Doubles(i) == Two(i) \in Nat \ {0} /\ Two(i + 1) = 2 * Two(i)
<1>2. /\ Doubles(0) /\ Doubles(1) /\ Doubles(2) /\ Doubles(3) /\ Doubles(4) /\ Doubles(5) /\ Doubles(6)
      /\ Doubles(7) /\ Doubles(8) /\ Doubles(9) /\ Doubles(10) /\ Doubles(11) /\ Doubles(12)
      /\ Doubles(13) /\ Doubles(14) /\ Doubles(15) /\ Doubles(16) /\ Doubles(17) /\ Doubles(18)
      /\ Doubles(19) /\ Doubles(20)
  BY <1>1 DEF Two
<1>3. \A i \in 0..20 : \/ i = 0 \/ i = 1 \/ i = 2 \/ i = 3 \/ i = 4 \/ i = 5 \/ i = 6 \/ i = 7
                       \/ i = 8 \/ i = 9 \/ i = 10 \/ i = 11 \/ i = 12 \/ i = 13 \/ i = 14
                       \/ i = 15 \/ i = 16 \/ i = 17 \/ i = 18 \/ i = 19 \/ i = 20
  OBVIOUS
<1>4. Two(0) = 1 /\ Two(8) = 256 /\ Two(15) = 32768 /\ Two(21) = 32 * 65536 /\ 32 * 65536 \in Nat \ {0}
  BY <1>1 DEF Two
<1> HIDE DEF Doubles
<1>5. \A i \in 0..20 : Doubles(i)
  BY <1>2, <1>3
<1> QED
  BY <1>4, <1>5 DEF Doubles

\* A bit of a number.
LEMMA BitIs == \A n, i : Bit(n, i) = (n \div Two(i)) % 2
BY DEF Bit, Two

\* There is one way to divide.
LEMMA DivisionIsUnique ==
  ASSUME NEW x \in Nat, NEW p \in Nat \ {0}, NEW q \in Nat, NEW r \in 0..p - 1, x = p * q + r
  PROVE  x \div p = q /\ x % p = r
<1> DEFINE d == x \div p
           m == x % p
<1>1. d \in Nat /\ m \in 0..p - 1 /\ x = p * d + m
  OBVIOUS
<1> HIDE DEF d, m
<1>2. p * q + r = p * d + m
  BY <1>1
<1>3. ASSUME q < d PROVE FALSE
  <2>1. p * (q + 1) <= p * d
    BY <1>1, <1>3
  <2>2. p * (q + 1) = p * q + p
    OBVIOUS
  <2> QED
    BY <1>1, <1>2, <2>1, <2>2
<1>4. ASSUME d < q PROVE FALSE
  <2>1. p * (d + 1) <= p * q
    BY <1>1, <1>4
  <2>2. p * (d + 1) = p * d + p
    BY <1>1
  <2> QED
    BY <1>1, <1>2, <2>1, <2>2
<1>5. q = d
  BY <1>1, <1>3, <1>4
<1>6. r = m
  BY <1>1, <1>2, <1>5
<1> QED
  BY <1>5, <1>6 DEF d, m

\* A quotient by p is twice the one by 2p, and the bit between them.
LEMMA HalfOfQuotient ==
  ASSUME NEW x \in Nat, NEW p \in Nat \ {0}
  PROVE  /\ x \div p \in Nat /\ x \div (2 * p) \in Nat /\ (x \div p) % 2 \in {0, 1}
         /\ x \div p = 2 * (x \div (2 * p)) + ((x \div p) % 2)
<1> DEFINE d == x \div p
           q == d \div 2
           b == d % 2
           m == x % p
<1>1. d \in Nat /\ m \in 0..p - 1 /\ x = p * d + m
  OBVIOUS
<1>2. q \in Nat /\ b \in {0, 1} /\ d = 2 * q + b
  BY <1>1
<1> HIDE DEF d, q, b, m
<1>3. p * d = p * (2 * q) + p * b /\ p * (2 * q) = (2 * p) * q /\ p * b \in Nat /\ p * b <= p
  <2>1. p * (2 * q + b) = p * (2 * q) + p * b
    BY <1>2
  <2>2. p * (2 * q) = (2 * p) * q
    BY <1>2
  <2>3. p * b = IF b = 0 THEN 0 ELSE p
    BY <1>2
  <2> QED
    BY <1>2, <2>1, <2>2, <2>3
<1>4. 2 * p \in Nat \ {0} /\ p * b + m \in 0..2 * p - 1
  BY <1>1, <1>3
<1>5. x = (2 * p) * q + (p * b + m)
  BY <1>1, <1>2, <1>3
<1>6. x \div (2 * p) = q
  BY <1>2, <1>4, <1>5, DivisionIsUnique
<1> QED
  BY <1>1, <1>2, <1>6 DEF d, b, q

\* The sum that | computes, from the highest bit down.
IsSum(f, a, b) ==
  /\ f[21] = 0
  /\ \A i \in 0..20 : f[i] = (IF Bit(a, i) + Bit(b, i) > 0 THEN Two(i) ELSE 0) + f[i + 1]

\* The recursion that | is defined by has a solution, and | is its first value.
LEMMA OrIsSum ==
  ASSUME NEW a, NEW b
  PROVE  \E f : IsSum(f, a, b) /\ (a | b) = f[0]
<1> DEFINE g(i) == IF Bit(a, i) + Bit(b, i) > 0 THEN Two(i) ELSE 0
           R(f) == f = [i \in 0..21 |-> IF i = 21 THEN 0 ELSE g(i) + f[i + 1]]
           Upto(k, f) == /\ f = [i \in 0..21 |-> f[i]] /\ f[21] = 0
                         /\ \A i \in 0..20 : 21 - i <= k => f[i] = g(i) + f[i + 1]
           K == {k \in Nat : k <= 21 => \E f : Upto(k, f)}
<1>1. 0 \in K
  <2> DEFINE f == [i \in 0..21 |-> 0]
  <2>1. Upto(0, f)
    OBVIOUS
  <2> QED
    BY <2>1
<1>2. ASSUME NEW k \in Nat, k \in K PROVE k + 1 \in K
  <2> SUFFICES ASSUME k + 1 <= 21 PROVE \E f : Upto(k + 1, f)
    OBVIOUS
  <2>1. PICK f : Upto(k, f)
    BY <1>2
  <2> DEFINE j == 20 - k
             h == [i \in 0..21 |-> IF i = j THEN g(j) + f[j + 1] ELSE f[i]]
  <2>2. j \in 0..20 /\ h = [i \in 0..21 |-> h[i]] /\ h[j] = g(j) + f[j + 1]
        /\ \A i \in 0..21 : i # j => h[i] = f[i]
    BY <2>1
  <2>3. \A i \in 0..20 : i # j => i + 1 # j \/ 21 - i > k + 1
    OBVIOUS
  <2> HIDE DEF h, g
  <2>4. ASSUME NEW i \in 0..20, 21 - i <= k + 1 PROVE h[i] = g(i) + h[i + 1]
    <3>1. CASE i = j
      <4>1. i + 1 \in 0..21 /\ i + 1 # j
        BY <3>1
      <4> QED
        BY <2>2, <3>1, <4>1
    <3>2. CASE i # j
      <4>1. i + 1 \in 0..21 /\ i + 1 # j /\ 21 - i <= k
        BY <2>4, <3>2
      <4> QED
        BY <2>1, <2>2, <3>2, <4>1
    <3> QED
      BY <3>1, <3>2
  <2>5. h[21] = 0
    BY <2>1, <2>2
  <2>6. Upto(k + 1, h)
    BY <2>2, <2>4, <2>5
  <2> QED
    BY <2>6
<1> HIDE DEF K
<1>3. 21 \in K
  BY <1>1, <1>2, Placing!NatSetInduction
<1>4. \E f : Upto(21, f)
  BY <1>3 DEF K
<1> HIDE DEF g
<1>5. \E f : R(f)
  <2>1. PICK f : Upto(21, f)
    BY <1>4
  <2>2. \A i \in 0..21 : f[i] = IF i = 21 THEN 0 ELSE g(i) + f[i + 1]
    BY <2>1
  <2> QED
    BY <2>1, <2>2
<1> DEFINE from == CHOOSE f : R(f)
<1>6. R(from)
  BY <1>5
<1>7. (a | b) = from[0]
  BY DEF |, g, Two
<1> HIDE DEF from
<1>8. IsSum(from, a, b)
  <2>1. from[21] = 0
    BY <1>6
  <2>2. \A i \in 0..20 : from[i] = g(i) + from[i + 1]
    BY <1>6
  <2> QED
    BY <2>1, <2>2 DEF IsSum, g
<1> QED
  BY <1>7, <1>8

\* Where b has no bits from the k-th up, those of a are left.
LEMMA OrKeepsHigh ==
  ASSUME NEW a \in Nat, a < Two(21), NEW b, NEW f, IsSum(f, a, b), NEW k \in 0..21,
         \A i \in k..20 : Bit(b, i) = 0
  PROVE  \A i \in k..21 : f[i] = Two(i) * (a \div Two(i))
<1> DEFINE Holds(i) == f[i] = Two(i) * (a \div Two(i))
           N == {n \in Nat : n <= 21 - k => Holds(21 - n)}
<1>1. 0 \in N
  <2>1. a \div Two(21) = 0
    BY PowersOfTwo, DivisionIsUnique
  <2>2. f[21] = Two(21) * (a \div Two(21))
    BY <2>1, PowersOfTwo DEF IsSum
  <2> QED
    BY <2>2
<1>2. ASSUME NEW n \in Nat, n \in N PROVE n + 1 \in N
  <2> SUFFICES ASSUME n + 1 <= 21 - k PROVE Holds(20 - n)
    OBVIOUS
  <2> DEFINE i == 20 - n
  <2>1. i \in 0..20 /\ i \in k..20 /\ i + 1 = 21 - n
    OBVIOUS
  <2>2. f[i + 1] = Two(i + 1) * (a \div Two(i + 1))
    BY <1>2, <2>1
  <2> HIDE DEF i
  <2>3. PICK p \in Nat \ {0} : p = Two(i) /\ Two(i + 1) = 2 * p
    BY <2>1, PowersOfTwo
  <2>4. PICK q \in Nat, bit \in {0, 1} :
          q = a \div (2 * p) /\ bit = (a \div p) % 2 /\ a \div p = 2 * q + bit
    BY HalfOfQuotient
  <2>5. Bit(a, i) = bit /\ Bit(b, i) = 0
    BY <2>1, <2>3, <2>4, BitIs
  <2>6. f[i] = (IF bit > 0 THEN p ELSE 0) + (2 * p) * q
    <3>1. f[i] = (IF Bit(a, i) + Bit(b, i) > 0 THEN Two(i) ELSE 0) + f[i + 1]
      BY <2>1 DEF IsSum
    <3>2. Bit(a, i) + Bit(b, i) = bit
      BY <2>5
    <3> QED
      BY <2>2, <2>3, <2>4, <3>1, <3>2
  <2>7. (IF bit > 0 THEN p ELSE 0) = p * bit
    OBVIOUS
  <2>8. p * (2 * q + bit) = p * bit + (2 * p) * q
    OBVIOUS
  <2> QED
    BY <2>3, <2>4, <2>6, <2>7, <2>8 DEF i
<1> HIDE DEF N
<1>3. Nat \subseteq N
  BY <1>1, <1>2, Placing!NatSetInduction
<1>4. ASSUME NEW i \in k..21 PROVE Holds(i)
  <2>1. 21 - i \in N /\ 21 - i <= 21 - k /\ 21 - (21 - i) = i
    BY <1>3
  <2> QED
    BY <2>1 DEF N
<1> QED
  BY <1>4

\* Where a has no bits below the k-th, those of b are added.
LEMMA OrAddsLow ==
  ASSUME NEW a, NEW b \in Nat, NEW f, IsSum(f, a, b), NEW k \in 0..20, b < Two(k), f[k] \in Nat,
         \A i \in 0..k - 1 : Bit(a, i) = 0
  PROVE  f[0] = f[k] + b
<1> DEFINE Holds(i) == f[i] = f[k] + Two(i) * (b \div Two(i))
           N == {n \in Nat : n <= k => Holds(k - n)}
<1>1. 0 \in N
  <2>1. b \div Two(k) = 0
    <3>1. PICK p \in Nat \ {0} : p = Two(k) /\ b \in 0..p - 1 /\ b = p * 0 + b
      BY PowersOfTwo
    <3> QED
      BY <3>1, DivisionIsUnique
  <2>2. Two(k) * 0 = 0
    BY PowersOfTwo
  <2>3. f[k] = f[k] + Two(k) * (b \div Two(k))
    BY <2>1, <2>2
  <2> QED
    BY <2>3
<1>2. ASSUME NEW n \in Nat, n \in N PROVE n + 1 \in N
  <2> SUFFICES ASSUME n + 1 <= k PROVE Holds(k - (n + 1))
    OBVIOUS
  <2> DEFINE i == k - (n + 1)
  <2>1. i \in 0..20 /\ i \in 0..k - 1 /\ i + 1 = k - n
    OBVIOUS
  <2>2. f[i + 1] = f[k] + Two(i + 1) * (b \div Two(i + 1))
    BY <1>2, <2>1
  <2> HIDE DEF i
  <2>3. PICK p \in Nat \ {0} : p = Two(i) /\ Two(i + 1) = 2 * p
    BY <2>1, PowersOfTwo
  <2>4. PICK q \in Nat, bit \in {0, 1} :
          q = b \div (2 * p) /\ bit = (b \div p) % 2 /\ b \div p = 2 * q + bit
    BY HalfOfQuotient
  <2>5. Bit(b, i) = bit /\ Bit(a, i) = 0
    BY <2>1, <2>3, <2>4, BitIs
  <2>6. f[i] = (IF bit > 0 THEN p ELSE 0) + (f[k] + (2 * p) * q)
    <3>1. f[i] = (IF Bit(a, i) + Bit(b, i) > 0 THEN Two(i) ELSE 0) + f[i + 1]
      BY <2>1 DEF IsSum
    <3>2. Bit(a, i) + Bit(b, i) = bit
      BY <2>5
    <3> QED
      BY <2>2, <2>3, <2>4, <3>1, <3>2
  <2>7. (IF bit > 0 THEN p ELSE 0) = p * bit
    OBVIOUS
  <2>8. p * (2 * q + bit) = p * bit + (2 * p) * q /\ p * bit \in Nat /\ (2 * p) * q \in Nat
    OBVIOUS
  <2>9. f[i] = f[k] + p * (2 * q + bit)
    BY <2>6, <2>7, <2>8
  <2> QED
    BY <2>3, <2>4, <2>9 DEF i
<1> HIDE DEF N
<1>3. Nat \subseteq N
  BY <1>1, <1>2, Placing!NatSetInduction
<1>4. k \in N /\ k - k = 0
  BY <1>3
<1>5. f[0] = f[k] + Two(0) * (b \div Two(0))
  BY <1>4 DEF N
<1>6. b \div 1 = b
  OBVIOUS
<1> QED
  BY <1>5, <1>6, PowersOfTwo

\* Of a number below the k-th power the bits from the k-th up are 0.
LEMMA NoHighBits ==
  ASSUME NEW b \in Nat, NEW k \in 0..20, b < Two(k), NEW i \in k..20
  PROVE  Bit(b, i) = 0
<1> DEFINE N == {n \in Nat : k + n <= 20 => Two(k) <= Two(k + n)}
<1>1. 0 \in N
  BY PowersOfTwo
<1>2. ASSUME NEW n \in Nat, n \in N PROVE n + 1 \in N
  <2> SUFFICES ASSUME k + (n + 1) <= 20 PROVE Two(k) <= Two(k + (n + 1))
    OBVIOUS
  <2>1. k + n \in 0..20 /\ (k + n) + 1 = k + (n + 1) /\ Two(k) <= Two(k + n)
    BY <1>2
  <2>2. Two((k + n) + 1) = 2 * Two(k + n) /\ Two(k + n) \in Nat /\ Two(k) \in Nat
    BY <2>1, PowersOfTwo
  <2> QED
    BY <2>1, <2>2
<1> HIDE DEF N
<1>3. i - k \in N
  BY <1>1, <1>2, Placing!NatSetInduction
<1>4. k + (i - k) = i
  OBVIOUS
<1>5. Two(k) <= Two(i)
  BY <1>3, <1>4 DEF N
<1>6. PICK p \in Nat \ {0} : p = Two(i) /\ b < p
  <2>1. Two(i) \in Nat \ {0} /\ Two(k) \in Nat
    BY PowersOfTwo
  <2> QED
    BY <1>5, <2>1
<1>7. b \in 0..p - 1 /\ b = p * 0 + b
  BY <1>6
<1>8. b \div p = 0
  BY <1>7, DivisionIsUnique
<1> QED
  BY <1>6, <1>8, BitIs

\* Nothing to add.
LEMMA OrZero ==
  ASSUME NEW a \in Nat, a < Two(21)
  PROVE  (a | 0) = a
<1>1. PICK f : IsSum(f, a, 0) /\ (a | 0) = f[0]
  BY OrIsSum
<1>2. \A i \in 0..20 : Bit(0, i) = 0
  BY NoHighBits, PowersOfTwo
<1>3. f[0] = Two(0) * (a \div Two(0))
  BY <1>1, <1>2, OrKeepsHigh
<1>4. a \div 1 = a
  OBVIOUS
<1> QED
  BY <1>1, <1>3, <1>4, PowersOfTwo

\* Of bytes that do not overlap | is the sum.
LEMMA OrOfBytes ==
  ASSUME NEW a \in Nat, a < 256, NEW b \in Nat, b < 256, NEW c, c = a * 256
  PROVE  (c | b) = c + b
<1>1. c \in Nat /\ c < Two(21)
  BY PowersOfTwo
<1>2. PICK f : IsSum(f, c, b) /\ (c | b) = f[0]
  BY OrIsSum
<1>3. \A i \in 8..20 : Bit(b, i) = 0
  BY NoHighBits, PowersOfTwo
<1>4. f[8] = Two(8) * (c \div Two(8))
  BY <1>1, <1>2, <1>3, OrKeepsHigh
<1>5. f[8] = c
  BY <1>1, <1>4, PowersOfTwo
<1>6. \A i \in 0..8 - 1 : Bit(c, i) = 0
  <2> SUFFICES ASSUME NEW i \in 0..7 PROVE (c \div Two(i)) % 2 = 0
    BY BitIs
  <2>1. /\ (c \div 1) % 2 = 0 /\ (c \div 2) % 2 = 0 /\ (c \div 4) % 2 = 0 /\ (c \div 8) % 2 = 0
        /\ (c \div 16) % 2 = 0 /\ (c \div 32) % 2 = 0 /\ (c \div 64) % 2 = 0 /\ (c \div 128) % 2 = 0
    BY <1>1
  <2>2. /\ Two(0) = 1 /\ Two(1) = 2 /\ Two(2) = 4 /\ Two(3) = 8
        /\ Two(4) = 16 /\ Two(5) = 32 /\ Two(6) = 64 /\ Two(7) = 128
    BY DEF Two
  <2>3. i = 0 \/ i = 1 \/ i = 2 \/ i = 3 \/ i = 4 \/ i = 5 \/ i = 6 \/ i = 7
    OBVIOUS
  <2> QED
    BY <2>1, <2>2, <2>3
<1>7. b < Two(8)
  BY PowersOfTwo
<1>8. f[0] = f[8] + b
  BY <1>1, <1>2, <1>5, <1>6, <1>7, OrAddsLow
<1> QED
  BY <1>1, <1>2, <1>5, <1>8

\* The bits below the fifteenth do not reach it.
LEMMA OrStaysBelow ==
  ASSUME NEW a \in Nat, a < Two(21), NEW b \in Nat, b < Two(15)
  PROVE  (a | b) \in Nat /\ (a | b) < Two(21) /\ ((a | b) < Two(15) <=> a < Two(15))
<1>1. PICK f : IsSum(f, a, b) /\ (a | b) = f[0]
  BY OrIsSum
<1>2. \A i \in 15..20 : Bit(b, i) = 0
  BY NoHighBits
<1>3. f[15] = Two(15) * (a \div Two(15))
  BY <1>1, <1>2, OrKeepsHigh
<1>4. PICK t \in Nat \ {0} : Two(15) = t /\ Two(21) = 64 * t
  BY PowersOfTwo
<1>5. PICK base \in Nat : /\ base = f[15] /\ base <= 63 * t /\ (base = 0 <=> a < t)
                          /\ (base # 0 => base >= t)
  <2>1. PICK q \in Nat, r \in 0..t - 1 : q = a \div t /\ a = t * q + r
    OBVIOUS
  <2>2. f[15] = t * q
    BY <1>3, <1>4, <2>1
  <2>3. q <= 63
    <3>1. ASSUME q >= 64 PROVE t * q >= t * 64
      BY <3>1
    <3> QED
      BY <1>4, <2>1, <3>1
  <2>4. t * q \in Nat /\ t * q <= t * 63 /\ (q # 0 => t * q >= t * 1) /\ t * 0 = 0
    BY <2>3
  <2> QED
    BY <1>4, <2>1, <2>2, <2>4
<1> DEFINE Holds(i) == f[i] \in base..(base + t) - Two(i)
           N == {n \in Nat : n <= 15 => Holds(15 - n)}
<1>6. 0 \in N
  <2>1. f[15] \in base..(base + t) - Two(15)
    BY <1>4, <1>5
  <2> QED
    BY <2>1
<1>7. ASSUME NEW n \in Nat, n \in N PROVE n + 1 \in N
  <2> SUFFICES ASSUME n + 1 <= 15 PROVE Holds(15 - (n + 1))
    OBVIOUS
  <2>1. PICK i \in 0..20 : i = 15 - (n + 1) /\ i + 1 = 15 - n
    OBVIOUS
  <2>2. f[i + 1] \in base..(base + t) - Two(i + 1)
    BY <1>7, <2>1
  <2>3. PICK p \in Nat \ {0} : p = Two(i) /\ Two(i + 1) = 2 * p
    BY <2>1, PowersOfTwo
  <2>4. f[i] = (IF Bit(a, i) + Bit(b, i) > 0 THEN Two(i) ELSE 0) + f[i + 1]
    BY <1>1 DEF IsSum
  <2>5. f[i] = p + f[i + 1] \/ f[i] = 0 + f[i + 1]
    BY <2>3, <2>4
  <2>6. f[i] \in base..(base + t) - p
    BY <2>2, <2>3, <2>5
  <2> QED
    BY <2>1, <2>3, <2>6
<1> HIDE DEF N
<1>8. 15 \in N
  BY <1>6, <1>7, Placing!NatSetInduction
<1>9. f[0] \in base..(base + t) - 1
  BY <1>8, PowersOfTwo DEF N
<1> QED
  BY <1>1, <1>4, <1>5, <1>9

----------------------------------------------------------------------------
(* The flattening of a sequence of sequences.                              *)

\* What has been put together up to each of the sequences.
IsFlattening(f, seqs) ==
  /\ f[1] = seqs[1]
  /\ \A i \in 2..Len(seqs) : f[i] = f[i - 1] \o seqs[i]

\* The recursion that FlattenSeq is defined by, as a sequence of its values.
LEMMA FlattenUnfolds ==
  ASSUME NEW seqs, Len(seqs) \in Nat \ {0}
  PROVE  \E f : IsFlattening(f, seqs) /\ FlattenSeq(seqs) = f[Len(seqs)]
<1>1. PICK n \in Nat \ {0} : n = Len(seqs)
  OBVIOUS
<1> DEFINE Joined(x, i) == x \o seqs[i]
           Value(f, i) == IF i = 1 THEN seqs[1] ELSE Joined(f[i - 1], i)
           R(f) == f = [i \in 1..n |-> Value(f, i)]
           Upto(k, f) == /\ f = [i \in 1..n |-> f[i]]
                         /\ \A i \in 1..n : i <= k => f[i] = Value(f, i)
           Exists(k) == \E f : Upto(k, f)
           K == {k \in Nat : Exists(k)}
<1> HIDE DEF Joined
<1>2. Exists(0)
  <2> DEFINE f == [i \in 1..n |-> 0]
  <2>1. f = [i \in 1..n |-> f[i]] /\ \A i \in 1..n : ~(i <= 0)
    OBVIOUS
  <2> QED
    BY <2>1
<1>3. ASSUME NEW k \in Nat, Exists(k) PROVE Exists(k + 1)
  <2>1. PICK f : Upto(k, f)
    BY <1>3
  <2> DEFINE new == IF k + 1 = 1 THEN seqs[1] ELSE Joined(f[k], k + 1)
             h == [i \in 1..n |-> IF i = k + 1 THEN new ELSE f[i]]
  <2>2. /\ h = [i \in 1..n |-> h[i]]
        /\ k + 1 \in 1..n => h[k + 1] = new
        /\ \A i \in 1..n : i # k + 1 => h[i] = f[i]
    OBVIOUS
  <2> HIDE DEF h
  <2>3. ASSUME NEW i \in 1..n, i <= k + 1 PROVE h[i] = Value(h, i)
    <3>1. CASE i = k + 1
      <4>1. i # 1 => i - 1 \in 1..n /\ i - 1 # k + 1 /\ i - 1 = k
        BY <3>1
      <4> QED
        BY <2>2, <3>1, <4>1
    <3>2. CASE i # k + 1
      <4>1. i <= k /\ (i # 1 => i - 1 \in 1..n /\ i - 1 # k + 1)
        BY <2>3, <3>2
      <4> QED
        BY <2>1, <2>2, <3>2, <4>1
    <3> QED
      BY <3>1, <3>2
  <2>4. Upto(k + 1, h)
    BY <2>2, <2>3
  <2> QED
    BY <2>4
<1> HIDE DEF Exists
<1>4. Exists(n)
  <2>1. 0 \in K /\ \A k \in Nat : k \in K => k + 1 \in K
    BY <1>2, <1>3
  <2> HIDE DEF K
  <2>2. n \in K
    BY <2>1, Placing!NatSetInduction
  <2> QED
    BY <2>2 DEF K
<1> HIDE DEF Value
<1>5. \E f : R(f)
  <2>1. PICK f : Upto(n, f)
    BY <1>4 DEF Exists
  <2>2. \A i \in 1..n : f[i] = Value(f, i)
    BY <2>1
  <2> QED
    BY <2>1, <2>2
<1> DEFINE flatten == CHOOSE f : R(f)
<1>6. R(flatten)
  BY <1>5
<1>7. FlattenSeq(seqs) = flatten[n]
  BY <1>1 DEF FlattenSeq, Joined, Value
<1> HIDE DEF flatten
<1>8. IsFlattening(flatten, seqs)
  <2>1. flatten[1] = seqs[1] /\ \A i \in 2..n : flatten[i] = Joined(flatten[i - 1], i)
    BY <1>6 DEF Value
  <2> QED
    BY <1>1, <2>1 DEF IsFlattening, Joined
<1> QED
  BY <1>1, <1>7, <1>8

\* Sequences of one element each, flattened, are the sequence of these.
LEMMA FlattenSingles ==
  ASSUME NEW S, NEW d \in Seq(S), NEW seqs, seqs = [i \in 1..Len(d) |-> <<d[i]>>]
  PROVE  FlattenSeq(seqs) = d
<1>1. PICK n \in Nat : n = Len(d) /\ Len(seqs) = n /\ DOMAIN seqs = 1..n
  <2>1. Len(d) \in Nat
    OBVIOUS
  <2>2. seqs \in Seq(Seq(S))
    OBVIOUS
  <2> QED
    BY <2>1, <2>2
<1>2. CASE n = 0
  <2>1. d = [i \in 1..n |-> d[i]] /\ seqs = [i \in 1..n |-> <<d[i]>>]
    BY <1>1
  <2>2. d = seqs
    BY <1>2, <2>1
  <2> QED
    BY <1>1, <1>2, <2>2 DEF FlattenSeq
<1>3. CASE n # 0
  <2>1. PICK f : IsFlattening(f, seqs) /\ FlattenSeq(seqs) = f[n]
    BY <1>1, <1>3, FlattenUnfolds
  <2> DEFINE Holds(i) == f[i] \in Seq(S) /\ Len(f[i]) = i /\ \A j \in 1..i : f[i][j] = d[j]
             N == {k \in Nat : k + 1 <= n => Holds(k + 1)}
  <2>2. 0 \in N
    <3>1. f[1] = <<d[1]>> /\ d[1] \in S
      BY <1>1, <1>3, <2>1 DEF IsFlattening
    <3>2. Holds(1)
      BY <3>1
    <3> QED
      BY <3>2
  <2>3. ASSUME NEW k \in Nat, k \in N PROVE k + 1 \in N
    <3> SUFFICES ASSUME (k + 1) + 1 <= n PROVE Holds((k + 1) + 1)
      OBVIOUS
    <3>1. PICK i \in 2..n : i = (k + 1) + 1 /\ i - 1 = k + 1 /\ i \in 1..n
      OBVIOUS
    <3>2. PICK before \in Seq(S) : /\ before = f[i - 1] /\ Len(before) = i - 1
                                   /\ \A j \in 1..i - 1 : before[j] = d[j]
      BY <2>3, <3>1
    <3>3. f[i] = before \o <<d[i]>> /\ d[i] \in S
      <4>1. f[i] = f[i - 1] \o seqs[i]
        BY <1>1, <2>1 DEF IsFlattening
      <4>2. seqs[i] = <<d[i]>> /\ d[i] \in S
        BY <1>1, <3>1
      <4> QED
        BY <3>2, <4>1, <4>2
    <3>4. before \o <<d[i]>> = Append(before, d[i])
      BY <3>3
    <3>5. /\ Append(before, d[i]) \in Seq(S) /\ Len(Append(before, d[i])) = i
          /\ \A j \in 1..i : Append(before, d[i])[j] = IF j = i THEN d[i] ELSE before[j]
      BY <3>2, <3>3
    <3>6. Holds(i)
      BY <3>2, <3>3, <3>4, <3>5
    <3> QED
      BY <3>1, <3>6
  <2> HIDE DEF N
  <2>4. n - 1 \in N
    BY <1>3, <2>2, <2>3, Placing!NatSetInduction
  <2>5. (n - 1) + 1 = n
    BY <1>1
  <2>6. Holds(n)
    BY <2>4, <2>5 DEF N
  <2>7. f[n] = d
    <3>1. PICK e \in Seq(S) : e = f[n] /\ Len(e) = n /\ \A j \in 1..n : e[j] = d[j]
      BY <2>6
    <3>2. e = [j \in 1..Len(e) |-> e[j]] /\ d = [j \in 1..Len(d) |-> d[j]]
      OBVIOUS
    <3> QED
      BY <1>1, <3>1, <3>2
  <2> QED
    BY <2>1, <2>7
<1> QED
  BY <1>2, <1>3

\* Up to two sequences, flattened.
LEMMA FlattenFew ==
  ASSUME NEW seqs
  PROVE  /\ Len(seqs) = 0 => FlattenSeq(seqs) = seqs
         /\ Len(seqs) = 1 => FlattenSeq(seqs) = seqs[1]
         /\ Len(seqs) = 2 => FlattenSeq(seqs) = seqs[1] \o seqs[2]
<1>1. Len(seqs) = 0 => FlattenSeq(seqs) = seqs
  BY DEF FlattenSeq
<1>2. ASSUME Len(seqs) = 1 PROVE FlattenSeq(seqs) = seqs[1]
  <2>1. Len(seqs) \in Nat \ {0}
    BY <1>2
  <2>2. PICK f : IsFlattening(f, seqs) /\ FlattenSeq(seqs) = f[Len(seqs)]
    BY <2>1, FlattenUnfolds
  <2> QED
    BY <1>2, <2>2 DEF IsFlattening
<1>3. ASSUME Len(seqs) = 2 PROVE FlattenSeq(seqs) = seqs[1] \o seqs[2]
  <2>1. Len(seqs) \in Nat \ {0}
    BY <1>3
  <2>2. PICK f : IsFlattening(f, seqs) /\ FlattenSeq(seqs) = f[Len(seqs)]
    BY <2>1, FlattenUnfolds
  <2>3. 2 \in 2..Len(seqs) /\ 2 - 1 = 1
    BY <1>3
  <2>4. f[2] = f[1] \o seqs[2] /\ f[1] = seqs[1]
    BY <2>2, <2>3 DEF IsFlattening
  <2> QED
    BY <1>3, <2>2, <2>4
<1> QED
  BY <1>1, <1>2, <1>3

----------------------------------------------------------------------------
(* Texts of characters below U+0100.  Their lower case is of such          *)
(* characters too, one for each, and has no capitals; that it has not the  *)
(* two that begin the UTF-8 of such characters is what tells the tokens of *)
(* short texts from trigrams.                                              *)

\* What str.lower makes of a Latin character.
Letters == {c \in Nat : 0 < c /\ c < 256 /\ c # 194 /\ c # 195}

\* LowerAssumption, of letters.
LatinStaysLatin == \A c \in Nat : 0 < c /\ c < 256 => \E d \in Letters : Lower(c) = <<d>>

\* The lower case of a Latin text has a letter for each of its characters.
LEMMA LatinLowered ==
  ASSUME LatinStaysLatin, NEW text \in Seq(Nat), Latin(text)
  PROVE  Lowered(text) \in Seq(Letters) /\ Len(Lowered(text)) = Len(text)
<1> DEFINE low(c) == CHOOSE d \in Letters : Lower(c) = <<d>>
           d == [i \in 1..Len(text) |-> low(text[i])]
           seqs == [i \in DOMAIN text |-> Lower(text[i])]
<1>1. Len(text) \in Nat /\ DOMAIN text = 1..Len(text)
  OBVIOUS
<1>2. \A c \in Nat : 0 < c /\ c < 256 => low(c) \in Letters /\ Lower(c) = <<low(c)>>
  BY DEF LatinStaysLatin
<1> HIDE DEF low
<1>3. \A i \in 1..Len(text) : d[i] \in Letters /\ Lower(text[i]) = <<d[i]>>
  <2>1. \A c : c \in 1..255 => c \in Nat /\ 0 < c /\ c < 256
    OBVIOUS
  <2>2. \A i \in 1..Len(text) : text[i] \in Nat /\ 0 < text[i] /\ text[i] < 256
    BY <1>1, <2>1 DEF Latin
  <2> QED
    BY <1>2, <2>2
<1>4. d \in Seq(Letters) /\ Len(d) = Len(text)
  BY <1>1, <1>3
<1>5. seqs = [i \in 1..Len(d) |-> <<d[i]>>]
  BY <1>1, <1>3, <1>4
<1> HIDE DEF d, seqs
<1>6. FlattenSeq(seqs) = d
  BY <1>4, <1>5, FlattenSingles
<1> QED
  BY <1>4, <1>6 DEF Lowered, seqs

\* A trigram's token has a byte for each character.
LEMMA LatinTrigram ==
  ASSUME NEW o, o[1] \in Letters, o[2] \in Letters, o[3] \in Letters
  PROVE  Trigram(o) = [high |-> o[1], low |-> o[2] * 256 + o[3]]
<1>1. PICK x \in Letters, y \in Letters, z \in Letters : x = o[1] /\ y = o[2] /\ z = o[3]
  OBVIOUS
<1>2. x < 256 /\ y < 256 /\ z < 256 /\ x \in Nat /\ y \in Nat /\ z \in Nat
  BY DEF Letters
<1>3. PICK w : w = y * 256
  OBVIOUS
<1>4. (w | z) = w + z
  BY <1>2, <1>3, OrOfBytes
<1>5. (x | 0) = x
  <2>1. x \in Nat /\ x < Two(21)
    BY <1>2, PowersOfTwo
  <2> QED
    BY <2>1, OrZero
<1>6. y \div 256 = 0 /\ y % 256 = y /\ z % 65536 = z /\ z \div 65536 = 0
  BY <1>2
<1>7. Trigram(o) = [high |-> (x | 0) | 0, low |-> w | z]
  BY <1>1, <1>3, <1>6 DEF Trigram
<1> QED
  BY <1>1, <1>3, <1>4, <1>5, <1>7

\* What a text of three characters or more is cut into.
Cut(c) == [i \in 1..Len(c) - 2 |-> [high |-> c[i], low |-> c[i + 1] * 256 + c[i + 2]]]

\* They are the tokens.
LEMMA LatinTokens ==
  ASSUME NEW text, NEW c \in Seq(Letters), Lowered(text) = c, Len(c) > 2
  PROVE  TokenizeText(text) = Cut(c)
<1>1. TokenizeText(text) = [i \in 1..Len(c) - 2 |-> Trigram(SubSeq(c, i, i + 2))]
  BY DEF TokenizeText
<1>2. ASSUME NEW i \in 1..Len(c) - 2
      PROVE  Trigram(SubSeq(c, i, i + 2)) = [high |-> c[i], low |-> c[i + 1] * 256 + c[i + 2]]
  <2>1. c[i] \in Letters /\ c[i + 1] \in Letters /\ c[i + 2] \in Letters
    BY <1>2
  <2>2. i \in Int /\ i + 2 \in Int /\ \A j \in i..i + 2 : c[j] \in Letters
    BY <1>2
  <2>3. PICK o : o = SubSeq(c, i, i + 2) /\ \A j \in 1..3 : o[j] = c[i + j - 1]
    <3>1. PICK k \in Int : k = i + 2 /\ k - i + 1 = 3
      BY <1>2
    <3>2. \A j \in 1..k - i + 1 : SubSeq(c, i, k)[j] = c[i + j - 1]
      BY <2>2, <3>1, SubSeqProperties
    <3> QED
      BY <3>1, <3>2
  <2>4. o[1] = c[i] /\ o[2] = c[i + 1] /\ o[3] = c[i + 2]
    BY <2>3
  <2>5. Trigram(o) = [high |-> o[1], low |-> o[2] * 256 + o[3]]
    BY <2>1, <2>4, LatinTrigram
  <2> QED
    BY <2>3, <2>4, <2>5
<1> QED
  BY <1>1, <1>2 DEF Cut
----------------------------------------------------------------------------
(* Sequences of up to four bytes, and the token they are packed into.      *)

\* w is u and then v.
IsConcat(w, u, v) ==
  /\ Len(w) = Len(u) + Len(v)
  /\ \A i \in 1..Len(u) : w[i] = u[i]
  /\ \A i \in 1..Len(v), j \in Nat : j = Len(u) + i => w[j] = v[i]

\* The elements of two sequences put together.
LEMMA ConcatElements ==
  ASSUME NEW S, NEW u \in Seq(S), NEW v \in Seq(S)
  PROVE  u \o v \in Seq(S) /\ IsConcat(u \o v, u, v)
<1>1. /\ u \o v \in Seq(S) /\ Len(u \o v) = Len(u) + Len(v)
      /\ \A i \in 1..Len(u) : (u \o v)[i] = u[i]
      /\ \A i \in 1..Len(v) : (u \o v)[Len(u) + i] = v[i]
  OBVIOUS
<1> QED
  BY <1>1, Zenon DEF IsConcat

\* A sequence is the tuple of its elements: of two,
LEMMA SeqTwo ==
  ASSUME NEW S, NEW s \in Seq(S), Len(s) = 2
  PROVE  s = <<s[1], s[2]>>
OBVIOUS

\* of three,
LEMMA SeqThree ==
  ASSUME NEW S, NEW s \in Seq(S), Len(s) = 3
  PROVE  s = <<s[1], s[2], s[3]>>
OBVIOUS

\* which are in the set,
LEMMA ElementsOfThree ==
  ASSUME NEW S, NEW s \in Seq(S), Len(s) = 3
  PROVE  s[1] \in S /\ s[2] \in S /\ s[3] \in S
OBVIOUS

\* and of four.
LEMMA SeqFour ==
  ASSUME NEW S, NEW s \in Seq(S), Len(s) = 4
  PROVE  s = <<s[1], s[2], s[3], s[4]>>
OBVIOUS

\* Up to two elements and up to two more.
LEMMA JoinIs ==
  ASSUME NEW S, NEW u \in Seq(S), NEW v \in Seq(S)
  PROVE  /\ Len(u) = 1 /\ Len(v) = 1 => u \o v = <<u[1], v[1]>>
         /\ Len(u) = 1 /\ Len(v) = 2 => u \o v = <<u[1], v[1], v[2]>>
         /\ Len(u) = 2 /\ Len(v) = 1 => u \o v = <<u[1], u[2], v[1]>>
         /\ Len(u) = 2 /\ Len(v) = 2 => u \o v = <<u[1], u[2], v[1], v[2]>>
<1>1. ASSUME Len(u) = 1, Len(v) = 1 PROVE u \o v = <<u[1], v[1]>>
  <2>1. 1 \in Nat /\ 1 \in Nat /\ 1 \in 1..1 /\ 1 \in 1..1 /\ 2 \in Nat /\ 2 = 1 + 1
    OBVIOUS
  <2>2. PICK s : s = u \o v /\ s \in Seq(S) /\ IsConcat(s, u, v)
    BY ConcatElements
  <2>3. 2 = 1 + 1
    OBVIOUS
  <2>4. /\ s \in Seq(S) /\ Len(s) = 2
        /\ \A i \in 1..1 : s[i] = u[i]
        /\ \A i \in 1..1, j \in Nat : j = 1 + i => s[j] = v[i]
    BY ONLY <1>1, <2>2, <2>3 DEF IsConcat
  <2>5. s \in Seq(S) /\ s = u \o v /\ Len(s) = 2 /\ s[1] = u[1] /\ s[2] = v[1]
    BY ONLY <2>1, <2>2, <2>4, Zenon
  <2>6. s = <<s[1], s[2]>>
    BY ONLY <2>5, SeqTwo, Zenon
  <2> QED
    BY ONLY <2>5, <2>6, Zenon
<1>2. ASSUME Len(u) = 1, Len(v) = 2 PROVE u \o v = <<u[1], v[1], v[2]>>
  <2>1. /\ 1 \in Nat /\ 2 \in Nat /\ 3 \in Nat
        /\ 1 \in 1..1 /\ 1 \in 1..2 /\ 2 \in 1..2 /\ 2 = 1 + 1 /\ 3 = 1 + 2
    OBVIOUS
  <2>2. PICK s : s = u \o v /\ s \in Seq(S) /\ IsConcat(s, u, v)
    BY ConcatElements
  <2>3. 3 = 1 + 2
    OBVIOUS
  <2>4. /\ s \in Seq(S) /\ Len(s) = 3
        /\ \A i \in 1..1 : s[i] = u[i]
        /\ \A i \in 1..2, j \in Nat : j = 1 + i => s[j] = v[i]
    BY ONLY <1>2, <2>2, <2>3 DEF IsConcat
  <2>5. s \in Seq(S) /\ s = u \o v /\ Len(s) = 3 /\ s[1] = u[1] /\ s[2] = v[1] /\ s[3] = v[2]
    BY ONLY <2>1, <2>2, <2>4, Zenon
  <2>6. s = <<s[1], s[2], s[3]>>
    BY ONLY <2>5, SeqThree, Zenon
  <2> QED
    BY ONLY <2>5, <2>6, Zenon
<1>3. ASSUME Len(u) = 2, Len(v) = 1 PROVE u \o v = <<u[1], u[2], v[1]>>
  <2>1. 2 \in Nat /\ 1 \in Nat /\ 1 \in 1..2 /\ 2 \in 1..2 /\ 1 \in 1..1 /\ 3 \in Nat /\ 3 = 2 + 1
    OBVIOUS
  <2>2. PICK s : s = u \o v /\ s \in Seq(S) /\ IsConcat(s, u, v)
    BY ConcatElements
  <2>3. 3 = 2 + 1
    OBVIOUS
  <2>4. /\ s \in Seq(S) /\ Len(s) = 3
        /\ \A i \in 1..2 : s[i] = u[i]
        /\ \A i \in 1..1, j \in Nat : j = 2 + i => s[j] = v[i]
    BY ONLY <1>3, <2>2, <2>3 DEF IsConcat
  <2>5. s \in Seq(S) /\ s = u \o v /\ Len(s) = 3 /\ s[1] = u[1] /\ s[2] = u[2] /\ s[3] = v[1]
    BY ONLY <2>1, <2>2, <2>4, Zenon
  <2>6. s = <<s[1], s[2], s[3]>>
    BY ONLY <2>5, SeqThree, Zenon
  <2> QED
    BY ONLY <2>5, <2>6, Zenon
<1>4. ASSUME Len(u) = 2, Len(v) = 2 PROVE u \o v = <<u[1], u[2], v[1], v[2]>>
  <2>1. /\ 2 \in Nat /\ 3 \in Nat /\ 4 \in Nat
        /\ 1 \in 1..2 /\ 2 \in 1..2 /\ 3 = 2 + 1 /\ 4 = 2 + 2
    OBVIOUS
  <2>2. PICK s : s = u \o v /\ s \in Seq(S) /\ IsConcat(s, u, v)
    BY ConcatElements
  <2>3. 4 = 2 + 2
    OBVIOUS
  <2>4. /\ s \in Seq(S) /\ Len(s) = 4
        /\ \A i \in 1..2 : s[i] = u[i]
        /\ \A i \in 1..2, j \in Nat : j = 2 + i => s[j] = v[i]
    BY ONLY <1>4, <2>2, <2>3 DEF IsConcat
  <2>5. /\ s \in Seq(S) /\ s = u \o v /\ Len(s) = 4
        /\ s[1] = u[1] /\ s[2] = u[2] /\ s[3] = v[1] /\ s[4] = v[2]
    BY ONLY <2>1, <2>2, <2>4, Zenon
  <2>6. s = <<s[1], s[2], s[3], s[4]>>
    BY ONLY <2>5, SeqFour, Zenon
  <2> QED
    BY ONLY <2>5, <2>6, Zenon
<1> QED
  BY <1>1, <1>2, <1>3, <1>4

\* A sequence of one element.
LEMMA TupleOne ==
  ASSUME NEW S, NEW x \in S
  PROVE  <<x>> \in Seq(S) /\ Len(<<x>>) = 1 /\ <<x>>[1] = x
OBVIOUS

\* s is the sequence of x and y.
IsPair(s, x, y) == s = <<x, y>> /\ Len(s) = 2 /\ s[1] = x /\ s[2] = y

\* A sequence of two.
LEMMA TupleTwo ==
  ASSUME NEW S, NEW x \in S, NEW y \in S
  PROVE  \E s \in Seq(S) : IsPair(s, x, y)
<1>1. <<x, y>> \in Seq(S) /\ Len(<<x, y>>) = 2 /\ <<x, y>>[1] = x /\ <<x, y>>[2] = y
  OBVIOUS
<1>2. IsPair(<<x, y>>, x, y)
  BY <1>1, Zenon DEF IsPair
<1> QED
  BY <1>1, <1>2, Zenon

\* Tuples of up to two elements, put together.
BytesJoined(S) ==
  \A x \in S : \A y \in S : \A z \in S :
         /\ <<x>> \o <<y>> = <<x, y>>
         /\ <<x>> \o <<y, z>> = <<x, y, z>>
         /\ <<x, y>> \o <<z>> = <<x, y, z>>
         /\ \A w \in S : <<x, y>> \o <<z, w>> = <<x, y, z, w>>

\* Of the elements of every set.
LEMMA TuplesJoin == ASSUME NEW S PROVE BytesJoined(S)
<1> SUFFICES ASSUME NEW x \in S, NEW y \in S, NEW z \in S
             PROVE  /\ <<x>> \o <<y>> = <<x, y>>
                    /\ <<x>> \o <<y, z>> = <<x, y, z>>
                    /\ <<x, y>> \o <<z>> = <<x, y, z>>
                    /\ \A w \in S : <<x, y>> \o <<z, w>> = <<x, y, z, w>>
  BY DEF BytesJoined
<1>1. PICK a \in Seq(S) : a = <<x>> /\ Len(a) = 1 /\ a[1] = x
  BY TupleOne, Zenon
<1>2. PICK b \in Seq(S) : IsPair(b, x, y)
  BY TupleTwo
<1>3. PICK c \in Seq(S) : c = <<y>> /\ Len(c) = 1 /\ c[1] = y
  BY TupleOne, Zenon
<1>4. PICK d \in Seq(S) : IsPair(d, y, z)
  BY TupleTwo
<1>5. PICK e \in Seq(S) : e = <<z>> /\ Len(e) = 1 /\ e[1] = z
  BY TupleOne, Zenon
<1>6. a \o c = <<a[1], c[1]>> /\ a \o d = <<a[1], d[1], d[2]>>
  BY <1>1, <1>3, <1>4, JoinIs, Zenon DEF IsPair
<1>8. b \o e = <<b[1], b[2], e[1]>>
  BY <1>2, <1>5, JoinIs, Zenon DEF IsPair
<1>7. ASSUME NEW w \in S PROVE <<x, y>> \o <<z, w>> = <<x, y, z, w>>
  <2>1. PICK f \in Seq(S) : IsPair(f, z, w)
    BY TupleTwo
  <2>2. b \o f = <<b[1], b[2], f[1], f[2]>>
    BY <1>2, <2>1, JoinIs, Zenon DEF IsPair
  <2> QED
    BY ONLY <1>2, <2>1, <2>2, Zenon DEF IsPair
<1> QED
  BY ONLY <1>1, <1>2, <1>3, <1>4, <1>5, <1>6, <1>7, <1>8, Zenon DEF IsPair

\* What encode makes.
Bytes == {n \in Nat : n < 256}

\* The token that four bytes make.
TokenIs(c, b) ==
  /\ b[1] \in Bytes /\ b[2] \in Bytes /\ b[3] \in Bytes /\ b[4] \in Bytes
  /\ ShortToken(c) = [high |-> b[3] + 256 * b[4], low |-> b[1] + 256 * b[2]]

\* What short_text_token packs: a byte that is missing is 0.
LEMMA TokenOfBytes ==
  ASSUME NEW c, NEW bytes, bytes = FlattenSeq([i \in DOMAIN c |-> Utf8(c[i])]),
         NEW x, NEW y, NEW z, NEW w,
         x = IF 1 <= Len(bytes) THEN bytes[1] ELSE 0, y = IF 2 <= Len(bytes) THEN bytes[2] ELSE 0,
         z = IF 3 <= Len(bytes) THEN bytes[3] ELSE 0, w = IF 4 <= Len(bytes) THEN bytes[4] ELSE 0
  PROVE  ShortToken(c) = [high |-> z + 256 * w, low |-> x + 256 * y]
BY DEF ShortToken

\* So the token of up to four bytes is made of them and of zeros.
LEMMA FourBytes ==
  ASSUME NEW c, NEW bytes, bytes = FlattenSeq([i \in DOMAIN c |-> Utf8(c[i])]),
         NEW x \in Bytes, NEW y \in Bytes, NEW z \in Bytes, NEW w \in Bytes
  PROVE  /\ bytes = <<>> => TokenIs(c, <<0, 0, 0, 0>>)
         /\ bytes = <<x>> => TokenIs(c, <<x, 0, 0, 0>>)
         /\ bytes = <<x, y>> => TokenIs(c, <<x, y, 0, 0>>)
         /\ bytes = <<x, y, z>> => TokenIs(c, <<x, y, z, 0>>)
         /\ bytes = <<x, y, z, w>> => TokenIs(c, <<x, y, z, w>>)
<1>1. ASSUME NEW i \in Bytes, NEW j \in Bytes, NEW k \in Bytes, NEW l \in Bytes,
             i = IF 1 <= Len(bytes) THEN bytes[1] ELSE 0, j = IF 2 <= Len(bytes) THEN bytes[2] ELSE 0,
             k = IF 3 <= Len(bytes) THEN bytes[3] ELSE 0, l = IF 4 <= Len(bytes) THEN bytes[4] ELSE 0
      PROVE  TokenIs(c, <<i, j, k, l>>)
  <2>1. ShortToken(c) = [high |-> k + 256 * l, low |-> i + 256 * j]
    BY <1>1, TokenOfBytes
  <2> QED
    BY <1>1, <2>1 DEF TokenIs
<1>2. 0 \in Bytes
  BY DEF Bytes
<1>3. ASSUME bytes = <<>> PROVE TokenIs(c, <<0, 0, 0, 0>>)
  <2>1. Len(bytes) = 0
    BY <1>3
  <2> QED
    BY <1>1, <1>2, <2>1
<1>4. ASSUME bytes = <<x>> PROVE TokenIs(c, <<x, 0, 0, 0>>)
  <2>1. Len(bytes) = 1 /\ bytes[1] = x
    BY <1>4
  <2> QED
    BY <1>1, <1>2, <2>1
<1>5. ASSUME bytes = <<x, y>> PROVE TokenIs(c, <<x, y, 0, 0>>)
  <2>1. Len(bytes) = 2 /\ bytes[1] = x /\ bytes[2] = y
    BY <1>5
  <2> QED
    BY <1>1, <1>2, <2>1
<1>6. ASSUME bytes = <<x, y, z>> PROVE TokenIs(c, <<x, y, z, 0>>)
  <2>1. Len(bytes) = 3 /\ bytes[1] = x /\ bytes[2] = y /\ bytes[3] = z
    BY <1>6
  <2> QED
    BY <1>1, <1>2, <2>1
<1>7. ASSUME bytes = <<x, y, z, w>> PROVE TokenIs(c, <<x, y, z, w>>)
  <2>1. Len(bytes) = 4 /\ bytes[1] = x /\ bytes[2] = y /\ bytes[3] = z /\ bytes[4] = w
    BY <1>7
  <2> QED
    BY <1>1, <2>1
<1> QED
  BY <1>3, <1>4, <1>5, <1>6, <1>7

\* The two bytes of a letter beyond ASCII.
Lead(c) == 192 + (c \div 64)
Trail(c) == 128 + (c % 64)

\* The bytes of at most two letters, four with what is missing.
Encodes(c, b) ==
  \/ Len(c) = 0 /\ b = <<0, 0, 0, 0>>
  \/ Len(c) = 1 /\ c[1] < 128 /\ b = <<c[1], 0, 0, 0>>
  \/ Len(c) = 1 /\ c[1] >= 128 /\ b = <<Lead(c[1]), Trail(c[1]), 0, 0>>
  \/ Len(c) = 2 /\ c[1] < 128 /\ c[2] < 128 /\ b = <<c[1], c[2], 0, 0>>
  \/ Len(c) = 2 /\ c[1] < 128 /\ c[2] >= 128 /\ b = <<c[1], Lead(c[2]), Trail(c[2]), 0>>
  \/ Len(c) = 2 /\ c[1] >= 128 /\ c[2] < 128 /\ b = <<Lead(c[1]), Trail(c[1]), c[2], 0>>
  \/ Len(c) = 2 /\ c[1] >= 128 /\ c[2] >= 128 /\ b = <<Lead(c[1]), Trail(c[1]), Lead(c[2]), Trail(c[2])>>

\* A letter takes one byte or two.
LEMMA LatinUtf8 ==
  ASSUME NEW c \in Letters
  PROVE  /\ c \in Bytes /\ Lead(c) \in Bytes /\ Trail(c) \in Bytes
         /\ c < 128 \/ c >= 128
         /\ c < 128 => Utf8(c) = <<c>>
         /\ c >= 128 => Utf8(c) = <<Lead(c), Trail(c)>>
BY SMT DEF Utf8, Surrogate, Letters, Bytes, Lead, Trail

\* The token of up to two letters is made of their bytes.
LEMMA LatinShortToken ==
  ASSUME NEW c \in Seq(Letters), Len(c) <= 2
  PROVE  \E b : TokenIs(c, b) /\ Encodes(c, b)
<1>1. Len(c) = 0 \/ Len(c) = 1 \/ Len(c) = 2
  <2>1. PICK n \in Nat : n = Len(c)
    OBVIOUS
  <2>2. n = 0 \/ n = 1 \/ n = 2
    BY <2>1
  <2> QED
    BY <2>1, <2>2
<1>2. PICK seqs : /\ seqs = [i \in DOMAIN c |-> Utf8(c[i])] /\ Len(seqs) = Len(c)
                  /\ \A i \in 1..Len(c) : seqs[i] = Utf8(c[i]) /\ c[i] \in Letters
  <2> DEFINE seqs == [i \in DOMAIN c |-> Utf8(c[i])]
  <2>1. Len(seqs) = Len(c) /\ \A i \in 1..Len(c) : seqs[i] = Utf8(c[i])
    OBVIOUS
  <2>2. \A i \in 1..Len(c) : c[i] \in Letters
    OBVIOUS
  <2> QED
    BY <2>1, <2>2
<1>3. PICK bytes : bytes = FlattenSeq(seqs)
  OBVIOUS
<1>4. bytes = FlattenSeq([i \in DOMAIN c |-> Utf8(c[i])])
  BY <1>2, <1>3
<1>5. 0 \in Bytes
  BY DEF Bytes
<1>9. BytesJoined(Bytes)
  BY TuplesJoin
<1>6. CASE Len(c) = 0
  <2>1. bytes = <<>>
    <3>1. FlattenSeq(seqs) = seqs
      BY <1>2, <1>6, FlattenFew
    <3>2. DOMAIN c = {}
      BY <1>6
    <3> QED
      BY <1>2, <1>3, <3>1, <3>2
  <2> QED
    BY <1>4, <1>5, <1>6, <2>1, FourBytes DEF Encodes
<1>7. CASE Len(c) = 1
  <2>1. PICK x \in Letters : x = c[1] /\ bytes = Utf8(x)
    <3>1. bytes = seqs[1]
      BY <1>2, <1>3, <1>7, FlattenFew
    <3> QED
      BY <1>2, <1>7, <3>1
  <2>2. CASE x < 128
    <3>1. x \in Bytes /\ bytes = <<x>>
      BY <2>1, <2>2, LatinUtf8
    <3>2. TokenIs(c, <<x, 0, 0, 0>>)
      BY <1>4, <1>5, <3>1, FourBytes
    <3> QED
      BY <1>7, <2>1, <2>2, <3>2 DEF Encodes
  <2>3. CASE x >= 128
    <3>1. Lead(x) \in Bytes /\ Trail(x) \in Bytes /\ bytes = <<Lead(x), Trail(x)>>
      BY <2>1, <2>3, LatinUtf8
    <3>2. TokenIs(c, <<Lead(x), Trail(x), 0, 0>>)
      BY <1>4, <1>5, <3>1, FourBytes
    <3> QED
      BY <1>7, <2>1, <2>3, <3>2 DEF Encodes
  <2> QED
    BY <2>2, <2>3, LatinUtf8
<1>8. CASE Len(c) = 2
  <2>1. PICK x \in Letters, y \in Letters : x = c[1] /\ y = c[2] /\ bytes = Utf8(x) \o Utf8(y)
    <3>1. bytes = seqs[1] \o seqs[2]
      BY <1>2, <1>3, <1>8, FlattenFew
    <3> QED
      BY <1>2, <1>8, <3>1
  <2>2. CASE x < 128 /\ y < 128
    <3>1. PICK a \in Bytes, e \in Bytes : a = x /\ e = y
      BY LatinUtf8
    <3>2. Utf8(x) = <<a>> /\ Utf8(y) = <<e>>
      BY <2>2, <3>1, LatinUtf8
    <3>3. <<a>> \o <<e>> = <<a, e>>
      BY <1>9, Zenon DEF BytesJoined
    <3>4. TokenIs(c, <<a, e, 0, 0>>)
      BY <1>4, <1>5, <2>1, <3>2, <3>3, FourBytes
    <3> QED
      BY <1>8, <2>1, <2>2, <3>1, <3>4 DEF Encodes
  <2>3. CASE x < 128 /\ y >= 128
    <3>1. PICK a \in Bytes, e \in Bytes, f \in Bytes : a = x /\ e = Lead(y) /\ f = Trail(y)
      BY LatinUtf8
    <3>2. Utf8(x) = <<a>> /\ Utf8(y) = <<e, f>>
      BY <2>3, <3>1, LatinUtf8
    <3>3. <<a>> \o <<e, f>> = <<a, e, f>>
      BY <1>9, Zenon DEF BytesJoined
    <3>4. TokenIs(c, <<a, e, f, 0>>)
      BY <1>4, <1>5, <2>1, <3>2, <3>3, FourBytes
    <3> QED
      BY <1>8, <2>1, <2>3, <3>1, <3>4 DEF Encodes
  <2>4. CASE x >= 128 /\ y < 128
    <3>1. PICK a \in Bytes, d \in Bytes, e \in Bytes : a = Lead(x) /\ d = Trail(x) /\ e = y
      BY LatinUtf8
    <3>2. Utf8(x) = <<a, d>> /\ Utf8(y) = <<e>>
      BY <2>4, <3>1, LatinUtf8
    <3>3. <<a, d>> \o <<e>> = <<a, d, e>>
      BY <1>9, Zenon DEF BytesJoined
    <3>4. TokenIs(c, <<a, d, e, 0>>)
      BY <1>4, <1>5, <2>1, <3>2, <3>3, FourBytes
    <3> QED
      BY <1>8, <2>1, <2>4, <3>1, <3>4 DEF Encodes
  <2>5. CASE x >= 128 /\ y >= 128
    <3>1. PICK a \in Bytes, d \in Bytes, e \in Bytes, f \in Bytes :
                 a = Lead(x) /\ d = Trail(x) /\ e = Lead(y) /\ f = Trail(y)
      BY LatinUtf8
    <3>2. Utf8(x) = <<a, d>> /\ Utf8(y) = <<e, f>>
      BY <2>5, <3>1, LatinUtf8
    <3>3. PICK m \in Bytes : m = a
      OBVIOUS
    <3>4. \A w \in Bytes : <<m, d>> \o <<e, w>> = <<m, d, e, w>>
      BY ONLY <1>9, m \in Bytes, d \in Bytes, e \in Bytes, Zenon DEF BytesJoined
    <3>5. <<a, d>> \o <<e, f>> = <<a, d, e, f>>
      BY <3>3, <3>4, Zenon
    <3>6. TokenIs(c, <<a, d, e, f>>)
      BY <1>4, <1>5, <2>1, <3>2, <3>5, FourBytes
    <3> QED
      BY <1>8, <2>1, <2>5, <3>1, <3>6 DEF Encodes
  <2> QED
    BY <2>2, <2>3, <2>4, <2>5, LatinUtf8
<1> QED
  BY <1>1, <1>6, <1>7, <1>8

----------------------------------------------------------------------------
(* Which texts fit into their tokens.                                      *)

\* The bytes of a character beyond ASCII.
High == {n \in Nat : 128 <= n /\ n < 256}

\* The number of bytes of a character.
Width(c) == IF c < 128 THEN 1 ELSE IF c < 2048 THEN 2 ELSE IF c < 65536 THEN 3 ELSE 4

\* u is the UTF-8 of c: only an ASCII character has a byte below 128.
IsEncoding(c, u) ==
  /\ u \in Seq(Bytes) /\ Len(u) = Width(c)
  /\ c < 128 => u[1] < 128
  /\ c >= 128 => \A i \in 1..Len(u) : u[i] \in High

\* Tuples of such bytes.
LEMMA HighPair ==
  ASSUME NEW x \in High, NEW y \in High
  PROVE  <<x, y>> \in Seq(Bytes) /\ Len(<<x, y>>) = 2 /\ \A i \in 1..2 : <<x, y>>[i] \in High
BY DEF High, Bytes

\* Three of them.
LEMMA HighTriple ==
  ASSUME NEW x \in High, NEW y \in High, NEW z \in High, NEW u, u = <<x, y, z>>
  PROVE  u \in Seq(Bytes) /\ Len(u) = 3 /\ \A i \in 1..3 : u[i] \in High
<1>1. x \in Bytes /\ y \in Bytes /\ z \in Bytes
  BY DEF High, Bytes
<1> QED
  BY <1>1

\* Four of them.
LEMMA HighQuadruple ==
  ASSUME NEW x \in High, NEW y \in High, NEW z \in High, NEW w \in High, NEW u, u = <<x, y, z, w>>
  PROVE  u \in Seq(Bytes) /\ Len(u) = 4 /\ \A i \in 1..4 : u[i] \in High
<1>1. x \in Bytes /\ y \in Bytes /\ z \in Bytes /\ w \in Bytes
  BY DEF High, Bytes
<1> QED
  BY <1>1

\* As encode does it.
LEMMA Utf8IsEncoding ==
  ASSUME NEW c \in CodePoints
  PROVE  IsEncoding(c, Utf8(c))
<1>1. c \in Nat /\ c <= 1114111 /\ ~Surrogate(c)
  BY DEF CodePoints
<1>2. \A n \in Nat : 128 + (n % 64) \in High
  BY DEF High
<1>3. c \div 64 \in Nat /\ c \div 4096 \in Nat
  BY <1>1
<1>4. CASE c < 128
  <2>1. Utf8(c) = <<c>>
    BY <1>1, <1>4, SMT DEF Utf8, Surrogate
  <2>2. c \in Bytes
    BY <1>1, <1>4 DEF Bytes
  <2>3. <<c>> \in Seq(Bytes) /\ Len(<<c>>) = 1 /\ <<c>>[1] = c
    BY <2>2, TupleOne
  <2>4. PICK u \in Seq(Bytes) : u = Utf8(c) /\ Len(u) = 1 /\ u[1] = c
    BY ONLY <2>1, <2>3, Zenon
  <2>5. Width(c) = 1 /\ ~(c >= 128)
    BY <1>1, <1>4 DEF Width
  <2> QED
    BY ONLY <1>4, <2>4, <2>5 DEF IsEncoding
<1>5. CASE 128 <= c /\ c < 2048
  <2>1. Utf8(c) = <<192 + (c \div 64), 128 + (c % 64)>>
    BY <1>1, <1>5, SMT DEF Utf8, Surrogate
  <2>2. 192 + (c \div 64) \in High
    BY <1>1, <1>5 DEF High
  <2>3. PICK x \in High, y \in High : Utf8(c) = <<x, y>>
    BY <1>1, <1>2, <2>1, <2>2
  <2>4. PICK u \in Seq(Bytes) : u = Utf8(c) /\ Len(u) = 2 /\ \A i \in 1..2 : u[i] \in High
    BY ONLY <2>3, HighPair, Zenon
  <2>5. Width(c) = 2 /\ ~(c < 128)
    BY <1>1, <1>5 DEF Width
  <2> QED
    BY ONLY <2>4, <2>5 DEF IsEncoding
<1>6. CASE 2048 <= c /\ c < 65536
  <2>1. Utf8(c) = <<224 + (c \div 4096), 128 + ((c \div 64) % 64), 128 + (c % 64)>>
    BY <1>1, <1>6, SMT DEF Utf8, Surrogate
  <2>2. 224 + (c \div 4096) \in High
    BY <1>1, <1>6 DEF High
  <2>3. PICK x \in High, y \in High, z \in High : Utf8(c) = <<x, y, z>>
    BY <1>1, <1>2, <1>3, <2>1, <2>2
  <2>4. PICK u \in Seq(Bytes) : u = Utf8(c) /\ Len(u) = 3 /\ \A i \in 1..3 : u[i] \in High
    BY <2>3, HighTriple
  <2>5. Width(c) = 3 /\ ~(c < 128)
    BY <1>1, <1>6 DEF Width
  <2> QED
    BY ONLY <2>4, <2>5 DEF IsEncoding
<1>7. CASE c >= 65536
  <2>1. Utf8(c) = <<240 + (c \div 262144), 128 + ((c \div 4096) % 64),
                    128 + ((c \div 64) % 64), 128 + (c % 64)>>
    BY <1>1, <1>7, SMT DEF Utf8, Surrogate
  <2>2. 240 + (c \div 262144) \in High
    BY <1>1, <1>7 DEF High
  <2>3. PICK x \in High, y \in High, z \in High, w \in High : Utf8(c) = <<x, y, z, w>>
    BY <1>1, <1>2, <1>3, <2>1, <2>2
  <2>4. PICK u \in Seq(Bytes) : u = Utf8(c) /\ Len(u) = 4 /\ \A i \in 1..4 : u[i] \in High
    BY <2>3, HighQuadruple
  <2>5. Width(c) = 4 /\ ~(c < 128)
    BY <1>1, <1>7 DEF Width
  <2> QED
    BY ONLY <2>4, <2>5 DEF IsEncoding
<1> QED
  BY <1>1, <1>4, <1>5, <1>6, <1>7

\* Under three characters all is well if the fourth byte is not above 127.
FourthFits(bytes) == Len(bytes) < 4 \/ bytes[4] < 128

\* The fourth byte is the only one that can carry a token past 31 bits.
LEMMA ShortFits ==
  ASSUME NEW c, NEW bytes \in Seq(Bytes), bytes = FlattenSeq([i \in DOMAIN c |-> Utf8(c[i])])
  PROVE  Fits(ShortToken(c)) <=> FourthFits(bytes)
<1> DEFINE at(i) == IF i <= Len(bytes) THEN bytes[i] ELSE 0
<1>1. PICK n \in Nat : n = Len(bytes)
  OBVIOUS
<1>2. \A i \in 1..4 : at(i) \in Bytes /\ (i <= n => at(i) = bytes[i])
  BY <1>1 DEF Bytes
<1>3. ~(4 <= n) => at(4) = 0
  BY <1>1
<1>4. PICK x, y, z, w : x = at(1) /\ y = at(2) /\ z = at(3) /\ w = at(4)
  OBVIOUS
<1>5. ShortToken(c) = [high |-> z + 256 * w, low |-> x + 256 * y]
  BY <1>4, TokenOfBytes
<1> HIDE DEF at
<1>6. z \in Nat /\ z < 256 /\ w \in Nat /\ w < 256
  BY <1>2, <1>4 DEF Bytes
<1>7. Fits(ShortToken(c)) <=> z + 256 * w < 32768
  BY <1>5 DEF Fits
<1>8. z + 256 * w < 32768 <=> w < 128
  BY <1>6
<1>9. w < 128 <=> n < 4 \/ bytes[4] < 128
  <2>1. CASE 4 <= n
    <3>1. w = bytes[4]
      BY <1>2, <1>4, <2>1
    <3> QED
      BY <2>1, <3>1
  <2>2. CASE ~(4 <= n)
    BY <1>3, <1>4, <2>2
  <2> QED
    BY <2>1, <2>2
<1> QED
  BY <1>1, <1>7, <1>8, <1>9 DEF FourthFits

\* The form of what fits under three characters.
FitsShort(c) ==
  \/ Len(c) = 2 /\ ((c[1] < 65536 /\ c[2] < 128) \/ (c[1] < 128 /\ c[2] < 2048))
  \/ Len(c) = 1 /\ c[1] < 65536
  \/ Len(c) = 0

\* A single character.
LEMMA OneFits ==
  ASSUME NEW x \in CodePoints
  PROVE  Utf8(x) \in Seq(Bytes) /\ (FourthFits(Utf8(x)) <=> x < 65536)
<1>1. PICK u : u = Utf8(x) /\ IsEncoding(x, u)
  BY Utf8IsEncoding
<1>2. x \in Nat
  BY DEF CodePoints
<1>3. CASE x < 65536
  <2>1. Len(u) = 1 \/ Len(u) = 2 \/ Len(u) = 3
    BY <1>1, <1>2, <1>3 DEF IsEncoding, Width
  <2> QED
    BY <1>1, <1>3, <2>1 DEF FourthFits, IsEncoding
<1>4. CASE ~(x < 65536)
  <2>1. Len(u) = 4 /\ x >= 128
    BY <1>1, <1>2, <1>4 DEF IsEncoding, Width
  <2>2. u[4] \in High
    BY <1>1, <2>1 DEF IsEncoding
  <2> QED
    BY <1>1, <1>4, <2>1, <2>2 DEF FourthFits, IsEncoding, High
<1> QED
  BY <1>3, <1>4

\* Two characters: the fourth byte is below 128 if it is ASCII.
LEMMA TwoFit ==
  ASSUME NEW x \in CodePoints, NEW y \in CodePoints
  PROVE  /\ Utf8(x) \o Utf8(y) \in Seq(Bytes)
         /\ FourthFits(Utf8(x) \o Utf8(y)) <=> (x < 65536 /\ y < 128) \/ (x < 128 /\ y < 2048)
<1>1. PICK u \in Seq(Bytes) : u = Utf8(x) /\ IsEncoding(x, u)
  BY Utf8IsEncoding DEF IsEncoding
<1>2. PICK v \in Seq(Bytes) : v = Utf8(y) /\ IsEncoding(y, v)
  BY Utf8IsEncoding DEF IsEncoding
<1>3. PICK w \in Seq(Bytes) : w = u \o v /\ IsConcat(w, u, v)
  BY ConcatElements
<1>4. x \in Nat /\ y \in Nat
  BY DEF CodePoints
<1>5. PICK m \in 1..4, n \in 1..4 : m = Width(x) /\ n = Width(y)
  BY <1>4 DEF Width
<1>6. Len(u) = m /\ Len(v) = n /\ Len(w) = m + n
  BY <1>1, <1>2, <1>3, <1>5 DEF IsEncoding, IsConcat
<1>7. /\ m = 1 <=> x < 128
      /\ m = 4 <=> ~(x < 65536)
      /\ n = 1 <=> y < 128
      /\ n <= 2 <=> y < 2048
  BY <1>4, <1>5 DEF Width
<1>8. FourthFits(w) <=> (m < 4 /\ n = 1) \/ (m = 1 /\ n <= 2)
  <2>1. ASSUME NEW i \in 1..4, i <= m, m > 1 PROVE u[i] \in High
    <3>1. x >= 128 /\ i \in 1..Len(u)
      BY <1>4, <1>6, <1>7, <2>1
    <3> QED
      BY <1>1, <3>1 DEF IsEncoding
  <2>2. ASSUME NEW i \in 1..4, i <= n, n > 1 PROVE v[i] \in High
    <3>1. y >= 128 /\ i \in 1..Len(v)
      BY <1>4, <1>6, <1>7, <2>2
    <3> QED
      BY <1>2, <3>1 DEF IsEncoding
  <2>3. \A i \in 1..m : w[i] = u[i]
    BY <1>3, <1>6 DEF IsConcat
  <2>4. \A i \in 1..n : m + i = 4 => w[4] = v[i]
    <3>1. \A i \in 1..Len(v), j \in Nat : j = Len(u) + i => w[j] = v[i]
      BY <1>3 DEF IsConcat
    <3>2. 4 \in Nat
      OBVIOUS
    <3> QED
      BY <1>6, <3>1, <3>2
  <2>5. CASE m = 4
    <3>1. w[4] \in High
      BY <2>1, <2>3, <2>5
    <3> QED
      BY <1>6, <2>5, <3>1 DEF FourthFits, High
  <2>6. CASE m = 3 /\ n = 1
    <3>1. y < 128 /\ w[4] = v[1]
      BY <1>7, <2>4, <2>6
    <3>2. v[1] < 128
      BY <1>2, <3>1 DEF IsEncoding
    <3> QED
      BY <1>6, <2>6, <3>1, <3>2 DEF FourthFits
  <2>7. CASE m = 3 /\ n > 1
    <3>1. w[4] \in High
      BY <2>2, <2>4, <2>7
    <3> QED
      BY <1>6, <2>7, <3>1 DEF FourthFits, High
  <2>8. CASE m = 2 /\ n > 1
    <3>1. w[4] \in High
      BY <2>2, <2>4, <2>8
    <3> QED
      BY <1>6, <2>8, <3>1 DEF FourthFits, High
  <2>9. CASE m = 1 /\ n > 2
    <3>1. w[4] \in High
      BY <2>2, <2>4, <2>9
    <3> QED
      BY <1>6, <2>9, <3>1 DEF FourthFits, High
  <2>10. CASE m < 3 /\ n = 1
    BY <1>6, <2>10 DEF FourthFits
  <2>11. CASE m = 1 /\ n = 2
    BY <1>6, <2>11 DEF FourthFits
  <2> QED
    BY <2>5, <2>6, <2>7, <2>8, <2>9, <2>10, <2>11
<1>9. (m < 4 /\ n = 1) \/ (m = 1 /\ n <= 2) <=> (x < 65536 /\ y < 128) \/ (x < 128 /\ y < 2048)
  <2>1. m < 4 <=> m # 4
    OBVIOUS
  <2> QED
    BY <1>7, <2>1
<1> QED
  BY <1>1, <1>2, <1>3, <1>8, <1>9

\* The token of a text of two characters or fewer.
LEMMA ShortHashable ==
  ASSUME NEW text, NEW c \in Seq(CodePoints), Lowered(text) = c, Len(c) < 3
  PROVE  Hashable(text) <=> FitsShort(c)
<1>1. Hashable(text) <=> Fits(ShortToken(c))
  <2>1. TokenizeText(text) = <<ShortToken(c)>>
    BY DEF TokenizeText
  <2>2. ToSet(<<ShortToken(c)>>) = {ShortToken(c)}
    BY DEF ToSet
  <2> QED
    BY <2>1, <2>2 DEF Hashable
<1>2. PICK seqs : /\ seqs = [i \in DOMAIN c |-> Utf8(c[i])] /\ Len(seqs) = Len(c)
                  /\ \A i \in 1..Len(c) : seqs[i] = Utf8(c[i]) /\ c[i] \in CodePoints
  <2> DEFINE seqs == [i \in DOMAIN c |-> Utf8(c[i])]
  <2>1. Len(seqs) = Len(c) /\ \A i \in 1..Len(c) : seqs[i] = Utf8(c[i])
    OBVIOUS
  <2>2. \A i \in 1..Len(c) : c[i] \in CodePoints
    OBVIOUS
  <2> QED
    BY <2>1, <2>2
<1>3. PICK bytes : bytes = FlattenSeq(seqs)
  OBVIOUS
<1>4. ASSUME bytes \in Seq(Bytes) PROVE Fits(ShortToken(c)) <=> FourthFits(bytes)
  BY <1>2, <1>3, <1>4, ShortFits
<1>5. CASE Len(c) = 0
  <2>1. bytes = <<>>
    <3>1. FlattenSeq(seqs) = seqs
      BY <1>2, <1>5, FlattenFew
    <3>2. DOMAIN c = {}
      BY <1>5
    <3> QED
      BY <1>2, <1>3, <3>1, <3>2
  <2>2. bytes \in Seq(Bytes) /\ FourthFits(bytes)
    BY <2>1 DEF FourthFits
  <2> QED
    BY <1>1, <1>4, <1>5, <2>2 DEF FitsShort
<1>6. CASE Len(c) = 1
  <2>1. PICK x \in CodePoints : x = c[1] /\ bytes = Utf8(x)
    <3>1. bytes = seqs[1]
      BY <1>2, <1>3, <1>6, FlattenFew
    <3> QED
      BY <1>2, <1>6, <3>1
  <2>2. bytes \in Seq(Bytes) /\ (FourthFits(bytes) <=> x < 65536)
    BY <2>1, OneFits
  <2> QED
    BY <1>1, <1>4, <1>6, <2>1, <2>2 DEF FitsShort
<1>7. CASE Len(c) = 2
  <2>1. PICK x \in CodePoints, y \in CodePoints : x = c[1] /\ y = c[2] /\ bytes = Utf8(x) \o Utf8(y)
    <3>1. bytes = seqs[1] \o seqs[2]
      BY <1>2, <1>3, <1>7, FlattenFew
    <3> QED
      BY <1>2, <1>7, <3>1
  <2>2. /\ bytes \in Seq(Bytes)
        /\ FourthFits(bytes) <=> (x < 65536 /\ y < 128) \/ (x < 128 /\ y < 2048)
    BY <2>1, TwoFit
  <2> QED
    BY <1>1, <1>4, <1>7, <2>1, <2>2 DEF FitsShort
<1>8. Len(c) = 0 \/ Len(c) = 1 \/ Len(c) = 2
  <2>1. PICK n \in Nat : n = Len(c)
    OBVIOUS
  <2>2. n = 0 \/ n = 1 \/ n = 2
    BY <2>1
  <2> QED
    BY <2>1, <2>2
<1> QED
  BY <1>5, <1>6, <1>7, <1>8

\* Of a trigram the first character decides.
LEMMA TrigramFits ==
  ASSUME NEW o, o[1] \in CodePoints, o[2] \in CodePoints, o[3] \in CodePoints
  PROVE  Fits(Trigram(o)) <=> o[1] < 32768
<1>1. PICK x \in CodePoints, y \in CodePoints, z \in CodePoints : x = o[1] /\ y = o[2] /\ z = o[3]
  OBVIOUS
<1>2. Two(15) = 32768 /\ Two(21) = 32 * 65536
  BY PowersOfTwo
<1>3. x \in Nat /\ x <= 1114111 /\ y \in Nat /\ y <= 1114111 /\ z \in Nat /\ z <= 1114111
  BY DEF CodePoints
<1>4. PICK p \in Nat, q \in Nat : p = y \div 256 /\ q = z \div 65536
  BY <1>3
<1>5. x < Two(21) /\ p < Two(15) /\ q < Two(15)
  BY <1>2, <1>3, <1>4, SMT
<1>6. (x | p) \in Nat /\ (x | p) < Two(21) /\ ((x | p) < Two(15) <=> x < Two(15))
  BY <1>3, <1>5, OrStaysBelow
<1>7. ((x | p) | q) < Two(15) <=> (x | p) < Two(15)
  BY <1>5, <1>6, OrStaysBelow
<1>8. Trigram(o).high = (x | p) | q
  BY <1>1, <1>4 DEF Trigram
<1>9. Fits(Trigram(o)) <=> ((x | p) | q) < Two(15)
  BY <1>2, <1>8 DEF Fits
<1>10. x < Two(15) <=> o[1] < 32768
  BY <1>1, <1>2
<1> QED
  BY <1>6, <1>7, <1>9, <1>10

\* The tokens of a longer text.
LEMMA LongHashable ==
  ASSUME NEW text, NEW c \in Seq(CodePoints), Lowered(text) = c, ~(Len(c) < 3)
  PROVE  Hashable(text) <=> \A i \in 1..(Len(c) - 2) : c[i] < 32768
<1>1. PICK n \in Nat : n = Len(c) /\ n > 2
  <2>1. PICK n \in Nat : n = Len(c)
    OBVIOUS
  <2> QED
    BY <2>1
<1>2. PICK cut : cut = [i \in 1..n - 2 |-> SubSeq(c, i, i + 2)]
  OBVIOUS
<1>3. TokenizeText(text) = [i \in 1..n - 2 |-> Trigram(cut[i])]
  BY <1>1, <1>2 DEF TokenizeText
<1>4. ToSet(TokenizeText(text)) = {Trigram(cut[i]) : i \in 1..n - 2}
  <2> DEFINE tokens == [i \in 1..n - 2 |-> Trigram(cut[i])]
  <2>1. ToSet(tokens) = {tokens[i] : i \in DOMAIN tokens}
    BY DEF ToSet
  <2> QED
    BY <1>3, <2>1
<1>5. ASSUME NEW i \in 1..n - 2 PROVE Fits(Trigram(cut[i])) <=> c[i] < 32768
  <2>1. \A j \in 1..n : c[j] \in CodePoints
    BY <1>1
  <2>2. i + 1 \in 1..n /\ i + 2 \in 1..n /\ i \in 1..n
    BY <1>1
  <2>3. PICK k \in Int : k = i + 2 /\ k - i + 1 = 3
    BY <1>1
  <2>4. i \in Int /\ \A j \in i..k : c[j] \in CodePoints
    BY <1>1, <2>1, <2>3
  <2>5. PICK o : o = cut[i] /\ \A j \in 1..3 : o[j] = c[i + j - 1]
    <3>1. \A j \in 1..k - i + 1 : SubSeq(c, i, k)[j] = c[i + j - 1]
      BY <2>4, SubSeqProperties
    <3> QED
      BY <1>2, <2>3, <3>1
  <2>6. o[1] = c[i] /\ o[2] = c[i + 1] /\ o[3] = c[i + 2]
    BY <2>5
  <2>7. o[1] \in CodePoints /\ o[2] \in CodePoints /\ o[3] \in CodePoints
    BY <2>1, <2>2, <2>6
  <2> QED
    BY <2>5, <2>6, <2>7, TrigramFits
<1> QED
  BY <1>1, <1>4, <1>5 DEF Hashable

----------------------------------------------------------------------------
(* Reading a short text back from its token.                               *)

\* The first byte of a letter beyond ASCII, and the letter of two bytes.
IsLead(n) == n = 194 \/ n = 195
Wide(m, n) == 64 * (m - 192) + (n - 128)

\* The text of one or two letters whose bytes b are.
Decoded(b) ==
  IF b[1] = 0 THEN <<>>
  ELSE IF ~IsLead(b[1])
       THEN IF b[2] = 0 THEN <<b[1]>>
            ELSE IF ~IsLead(b[2]) THEN <<b[1], b[2]>> ELSE <<b[1], Wide(b[2], b[3])>>
       ELSE IF b[3] = 0 THEN <<Wide(b[1], b[2])>>
            ELSE IF ~IsLead(b[3]) THEN <<Wide(b[1], b[2]), b[3]>>
                 ELSE <<Wide(b[1], b[2]), Wide(b[3], b[4])>>

\* A letter is no lead byte, and can be had from its two bytes.
LEMMA LetterBytes ==
  ASSUME NEW c \in Letters
  PROVE  /\ c # 0 /\ ~IsLead(c)
         /\ c >= 128 => IsLead(Lead(c)) /\ Lead(c) # 0 /\ Trail(c) # 0 /\ Wide(Lead(c), Trail(c)) = c
<1>1. c \in Nat /\ 0 < c /\ c < 256 /\ c # 194 /\ c # 195
  BY DEF Letters
<1>2. ASSUME c >= 128 PROVE c \div 64 = 2 \/ c \div 64 = 3
  BY <1>1, <1>2
<1>3. c = 64 * (c \div 64) + (c % 64) /\ c % 64 \in Nat /\ c \div 64 \in Nat
  BY <1>1
<1> QED
  BY <1>1, <1>2, <1>3 DEF IsLead, Lead, Trail, Wide

\* It undoes the encoding.
LEMMA TextDecoded ==
  ASSUME NEW c \in Seq(Letters), NEW b, Encodes(c, b)
  PROVE  c = Decoded(b)
<1>1. CASE Len(c) = 0 /\ b = <<0, 0, 0, 0>>
  BY <1>1 DEF Decoded
<1>2. CASE Len(c) = 1 /\ c[1] < 128 /\ b = <<c[1], 0, 0, 0>>
  <2>1. PICK x \in Letters : x = c[1]
    BY <1>2
  <2>2. c = <<x>>
    BY <1>2, <2>1
  <2>3. x # 0 /\ ~IsLead(x)
    BY LetterBytes
  <2>4. b[1] = x /\ b[2] = 0
    BY <1>2, <2>1
  <2> QED
    BY <2>2, <2>3, <2>4 DEF Decoded
<1>3. CASE Len(c) = 1 /\ c[1] >= 128 /\ b = <<Lead(c[1]), Trail(c[1]), 0, 0>>
  <2>1. PICK x \in Letters : x = c[1]
    BY <1>3
  <2>2. c = <<x>>
    BY <1>3, <2>1
  <2>3. IsLead(Lead(x)) /\ Lead(x) # 0 /\ Wide(Lead(x), Trail(x)) = x
    BY <1>3, <2>1, LetterBytes
  <2>4. b[1] = Lead(x) /\ b[2] = Trail(x) /\ b[3] = 0
    BY <1>3, <2>1
  <2> QED
    BY <2>2, <2>3, <2>4 DEF Decoded
<1>4. ASSUME Len(c) = 2 PROVE \E x \in Letters, y \in Letters : x = c[1] /\ y = c[2] /\ c = <<x, y>>
  <2>1. PICK x \in Letters, y \in Letters : x = c[1] /\ y = c[2]
    BY <1>4
  <2>2. c = <<c[1], c[2]>>
    BY <1>4, SeqTwo
  <2> QED
    BY <2>1, <2>2
<1>5. CASE Len(c) = 2 /\ c[1] < 128 /\ c[2] < 128 /\ b = <<c[1], c[2], 0, 0>>
  <2>1. PICK x \in Letters, y \in Letters : x = c[1] /\ y = c[2] /\ c = <<x, y>>
    BY <1>4, <1>5
  <2>2. x # 0 /\ ~IsLead(x) /\ y # 0 /\ ~IsLead(y)
    BY LetterBytes
  <2>3. b[1] = x /\ b[2] = y
    BY <1>5, <2>1
  <2> QED
    BY <2>1, <2>2, <2>3 DEF Decoded
<1>6. CASE Len(c) = 2 /\ c[1] < 128 /\ c[2] >= 128 /\ b = <<c[1], Lead(c[2]), Trail(c[2]), 0>>
  <2>1. PICK x \in Letters, y \in Letters : x = c[1] /\ y = c[2] /\ c = <<x, y>>
    BY <1>4, <1>6
  <2>2. x # 0 /\ ~IsLead(x) /\ Lead(y) # 0 /\ IsLead(Lead(y)) /\ Wide(Lead(y), Trail(y)) = y
    BY <1>6, <2>1, LetterBytes
  <2>3. b[1] = x /\ b[2] = Lead(y) /\ b[3] = Trail(y)
    BY <1>6, <2>1
  <2> QED
    BY <2>1, <2>2, <2>3 DEF Decoded
<1>7. CASE Len(c) = 2 /\ c[1] >= 128 /\ c[2] < 128 /\ b = <<Lead(c[1]), Trail(c[1]), c[2], 0>>
  <2>1. PICK x \in Letters, y \in Letters : x = c[1] /\ y = c[2] /\ c = <<x, y>>
    BY <1>4, <1>7
  <2>2. y # 0 /\ ~IsLead(y) /\ Lead(x) # 0 /\ IsLead(Lead(x)) /\ Wide(Lead(x), Trail(x)) = x
    BY <1>7, <2>1, LetterBytes
  <2>3. b[1] = Lead(x) /\ b[2] = Trail(x) /\ b[3] = y
    BY <1>7, <2>1
  <2> QED
    BY <2>1, <2>2, <2>3 DEF Decoded
<1>8. CASE /\ Len(c) = 2 /\ c[1] >= 128 /\ c[2] >= 128
           /\ b = <<Lead(c[1]), Trail(c[1]), Lead(c[2]), Trail(c[2])>>
  <2>1. PICK x \in Letters, y \in Letters : x = c[1] /\ y = c[2] /\ c = <<x, y>>
    BY <1>4, <1>8
  <2>2. /\ Lead(x) # 0 /\ IsLead(Lead(x)) /\ Wide(Lead(x), Trail(x)) = x
        /\ Lead(y) # 0 /\ IsLead(Lead(y)) /\ Wide(Lead(y), Trail(y)) = y
    BY <1>8, <2>1, LetterBytes
  <2>3. b[1] = Lead(x) /\ b[2] = Trail(x) /\ b[3] = Lead(y) /\ b[4] = Trail(y)
    BY <1>8, <2>1
  <2> QED
    BY <2>1, <2>2, <2>3 DEF Decoded
<1> QED
  BY <1>1, <1>2, <1>3, <1>5, <1>6, <1>7, <1>8 DEF Encodes

\* The token of a short text tells the text.
LEMMA SameShortToken ==
  ASSUME NEW c, NEW d, NEW b, NEW e, TokenIs(c, b), TokenIs(d, e), ShortToken(c) = ShortToken(d)
  PROVE  Decoded(b) = Decoded(e)
<1>1. /\ b[1] \in Nat /\ b[2] \in Nat /\ b[3] \in Nat /\ b[4] \in Nat
      /\ e[1] \in Nat /\ e[2] \in Nat /\ e[3] \in Nat /\ e[4] \in Nat
      /\ b[1] < 256 /\ b[3] < 256 /\ e[1] < 256 /\ e[3] < 256
  BY DEF TokenIs, Bytes
<1>2. b[3] + 256 * b[4] = e[3] + 256 * e[4] /\ b[1] + 256 * b[2] = e[1] + 256 * e[2]
  BY DEF TokenIs
<1>3. b[1] = e[1] /\ b[2] = e[2]
  <2>1. PICK m \in Nat, n \in Nat, k \in Nat, l \in Nat : m = b[1] /\ n = b[2] /\ k = e[1] /\ l = e[2]
    BY <1>1
  <2>2. m < 256 /\ k < 256 /\ m + 256 * n = k + 256 * l
    BY <1>1, <1>2, <2>1
  <2>3. m = k /\ n = l
    BY ONLY <2>2, m \in Nat, n \in Nat, k \in Nat, l \in Nat
  <2> QED
    BY <2>1, <2>3
<1>4. b[3] = e[3] /\ b[4] = e[4]
  <2>1. PICK m \in Nat, n \in Nat, k \in Nat, l \in Nat : m = b[3] /\ n = b[4] /\ k = e[3] /\ l = e[4]
    BY <1>1
  <2>2. m < 256 /\ k < 256 /\ m + 256 * n = k + 256 * l
    BY <1>1, <1>2, <2>1
  <2>3. m = k /\ n = l
    BY ONLY <2>2, m \in Nat, n \in Nat, k \in Nat, l \in Nat
  <2> QED
    BY <2>1, <2>3
<1> QED
  BY <1>3, <1>4 DEF Decoded

\* No text of one or two characters has the token of three.
LEMMA ShortIsNotTrigram ==
  ASSUME NEW c \in Seq(Letters), NEW b, TokenIs(c, b), Encodes(c, b),
         NEW x \in Letters, NEW y \in Letters, NEW z \in Letters
  PROVE  ShortToken(c) # [high |-> x, low |-> y * 256 + z]
<1> SUFFICES ASSUME ShortToken(c) = [high |-> x, low |-> y * 256 + z] PROVE FALSE
  OBVIOUS
<1>1. PICK m \in Nat, n \in Nat, k \in Nat, l \in Nat : m = b[1] /\ n = b[2] /\ k = b[3] /\ l = b[4]
  BY DEF TokenIs, Bytes
<1>2. m < 256 /\ n < 256 /\ k < 256 /\ l < 256
  BY <1>1 DEF TokenIs, Bytes
<1>3. k + 256 * l = x /\ m + 256 * n = y * 256 + z
  BY <1>1 DEF TokenIs
<1>4. x \in Nat /\ x < 256 /\ y \in Nat /\ y < 256 /\ z \in Nat /\ z < 256
  BY DEF Letters
<1>5. k = x /\ n = y /\ m = z
  BY ONLY <1>2, <1>3, <1>4, m \in Nat, n \in Nat, k \in Nat, l \in Nat
<1>6. b[3] # 0 /\ ~IsLead(b[1]) /\ ~IsLead(b[2])
  BY <1>1, <1>5, LetterBytes
<1>7. ASSUME NEW i \in 1..Len(c), c[i] >= 128 PROVE IsLead(Lead(c[i]))
  <2>1. c[i] \in Letters
    OBVIOUS
  <2> QED
    BY <1>7, <2>1, LetterBytes
<1>8. CASE Len(c) = 0 /\ b = <<0, 0, 0, 0>>
  BY <1>6, <1>8
<1>9. CASE Len(c) = 1 /\ c[1] < 128 /\ b = <<c[1], 0, 0, 0>>
  BY <1>6, <1>9
<1>10. CASE Len(c) = 1 /\ c[1] >= 128 /\ b = <<Lead(c[1]), Trail(c[1]), 0, 0>>
  BY <1>6, <1>10
<1>11. CASE Len(c) = 2 /\ c[1] < 128 /\ c[2] < 128 /\ b = <<c[1], c[2], 0, 0>>
  BY <1>6, <1>11
<1>12. CASE Len(c) = 2 /\ c[1] < 128 /\ c[2] >= 128 /\ b = <<c[1], Lead(c[2]), Trail(c[2]), 0>>
  BY <1>6, <1>7, <1>12
<1>13. CASE Len(c) = 2 /\ c[1] >= 128 /\ c[2] < 128 /\ b = <<Lead(c[1]), Trail(c[1]), c[2], 0>>
  BY <1>6, <1>7, <1>13
<1>14. CASE /\ Len(c) = 2 /\ c[1] >= 128 /\ c[2] >= 128
            /\ b = <<Lead(c[1]), Trail(c[1]), Lead(c[2]), Trail(c[2])>>
  BY <1>6, <1>7, <1>14
<1> QED
  BY <1>8, <1>9, <1>10, <1>11, <1>12, <1>13, <1>14 DEF Encodes

\* A text of two characters or fewer is one token, a longer one as many as
\* it has trigrams.
LEMMA ShortTokens ==
  ASSUME NEW text, NEW c \in Seq(Letters), Lowered(text) = c, Len(c) <= 2
  PROVE  /\ TokenizeText(text) = <<ShortToken(c)>>
         /\ \E b : TokenIs(c, b) /\ Encodes(c, b)
<1>1. Len(c) < 3
  <2>1. PICK n \in Nat : n = Len(c)
    OBVIOUS
  <2> QED
    BY <2>1
<1>2. TokenizeText(text) = <<ShortToken(c)>>
  BY <1>1 DEF TokenizeText
<1> QED
  BY <1>2, LatinShortToken

\* Of a text of one or two characters and one of three the tokens differ.
LEMMA ShortIsNotLong ==
  ASSUME NEW text, NEW c \in Seq(Letters), Lowered(text) = c, Len(c) <= 2,
         NEW other, NEW d \in Seq(Letters), Lowered(other) = d, Len(d) > 2
  PROVE  TokenizeText(text) # TokenizeText(other)
<1>1. PICK n \in Nat : n = Len(d)
  OBVIOUS
<1>2. PICK tokens : tokens = Cut(d)
  OBVIOUS
<1>3. TokenizeText(other) = tokens
  BY <1>2, LatinTokens
<1>4. n > 2 /\ 1 \in 1..n - 2 /\ 1 \in 1..n /\ 2 \in 1..n /\ 3 \in 1..n
  BY <1>1
<1>5. PICK x \in Letters, y \in Letters, z \in Letters : x = d[1] /\ y = d[2] /\ z = d[3]
  BY <1>1, <1>4
<1>6. tokens[1] = [high |-> x, low |-> y * 256 + z]
  BY <1>1, <1>2, <1>4, <1>5 DEF Cut
<1>7. PICK b : TokenIs(c, b) /\ Encodes(c, b)
  BY ShortTokens
<1>8. ShortToken(c) # [high |-> x, low |-> y * 256 + z]
  BY <1>7, ShortIsNotTrigram
<1>9. <<ShortToken(c)>>[1] = ShortToken(c) /\ TokenizeText(text) = <<ShortToken(c)>>
  BY ShortTokens
<1> QED
  BY <1>3, <1>6, <1>8, <1>9

\* The tokens of a long text tell its characters.
LEMMA LongTextsDiffer ==
  ASSUME NEW text, NEW c \in Seq(Letters), Lowered(text) = c, Len(c) > 2,
         NEW other, NEW d \in Seq(Letters), Lowered(other) = d, Len(d) > 2,
         TokenizeText(text) = TokenizeText(other)
  PROVE  c = d
<1>1. PICK n \in Nat, m \in Nat : n = Len(c) /\ m = Len(d) /\ n > 2 /\ m > 2
  OBVIOUS
<1>2. Cut(c) = Cut(d)
  BY LatinTokens
<1>3. n = m
  <2>1. DOMAIN Cut(c) = 1..n - 2 /\ DOMAIN Cut(d) = 1..m - 2
    BY <1>1 DEF Cut
  <2>2. 1..n - 2 = 1..m - 2
    BY <1>2, <2>1
  <2>3. n - 2 \in 1..n - 2 /\ m - 2 \in 1..m - 2
    BY <1>1
  <2>4. n - 2 <= m - 2 /\ m - 2 <= n - 2
    BY <1>1, <2>2, <2>3
  <2> QED
    BY <1>1, <2>4
<1>4. ASSUME NEW i \in 1..n - 2 PROVE c[i] = d[i] /\ c[i + 1] = d[i + 1] /\ c[i + 2] = d[i + 2]
  <2>1. /\ Cut(c)[i] = [high |-> c[i], low |-> c[i + 1] * 256 + c[i + 2]]
        /\ Cut(d)[i] = [high |-> d[i], low |-> d[i + 1] * 256 + d[i + 2]]
    BY <1>1, <1>3 DEF Cut
  <2>2. c[i] = d[i] /\ c[i + 1] * 256 + c[i + 2] = d[i + 1] * 256 + d[i + 2]
    BY <1>2, <2>1
  <2>3. i + 1 \in 1..n /\ i + 2 \in 1..n
    BY <1>1
  <2>4. \A j \in 1..n : c[j] \in Letters /\ d[j] \in Letters
    <3>1. (\A j \in 1..Len(c) : c[j] \in Letters) /\ (\A j \in 1..Len(d) : d[j] \in Letters)
      OBVIOUS
    <3> QED
      BY ONLY <1>1, <1>3, <3>1, Zenon
  <2>5. PICK x \in Letters, y \in Letters, p \in Letters, q \in Letters :
          x = c[i + 1] /\ y = c[i + 2] /\ p = d[i + 1] /\ q = d[i + 2]
    BY <2>3, <2>4
  <2>6. x * 256 + y = p * 256 + q
    BY <2>2, <2>5
  <2>7. /\ x \in Nat /\ x < 256 /\ y \in Nat /\ y < 256
        /\ p \in Nat /\ p < 256 /\ q \in Nat /\ q < 256
    BY DEF Letters
  <2>8. x = p /\ y = q
    BY ONLY <2>6, <2>7
  <2> QED
    BY <2>2, <2>5, <2>8
<1>5. ASSUME NEW i \in 1..n PROVE c[i] = d[i]
  <2>1. CASE i <= n - 2
    <3>1. i \in 1..n - 2
      BY <1>1, <2>1
    <3> QED
      BY <1>4, <3>1
  <2>2. CASE i = n - 1
    <3>1. PICK k \in 1..n - 2 : k + 1 = i
      <4>1. n - 2 \in 1..n - 2 /\ (n - 2) + 1 = i
        BY <1>1, <2>2
      <4> QED
        BY <4>1
    <3> QED
      BY <1>4, <3>1
  <2>3. CASE i = n
    <3>1. PICK k \in 1..n - 2 : k + 2 = i
      BY <1>1, <2>3
    <3> QED
      BY <1>4, <3>1
  <2> QED
    BY <1>1, <2>1, <2>2, <2>3
<1>6. c = [i \in 1..n |-> c[i]] /\ d = [i \in 1..n |-> d[i]]
  <2>1. c = [i \in 1..Len(c) |-> c[i]] /\ d = [i \in 1..Len(d) |-> d[i]]
    OBVIOUS
  <2> QED
    BY ONLY <1>1, <1>3, <2>1, Zenon
<1> QED
  BY <1>5, <1>6

\* Latin texts with the same tokens are the same but for case.
LEMMA LatinKeys ==
  ASSUME LatinStaysLatin, NEW text \in Seq(Nat), Latin(text), NEW other \in Seq(Nat), Latin(other),
         TokenizeText(text) = TokenizeText(other)
  PROVE  Lowered(text) = Lowered(other)
<1>1. PICK c \in Seq(Letters) : c = Lowered(text)
  BY LatinLowered
<1>2. PICK d \in Seq(Letters) : d = Lowered(other)
  BY LatinLowered
<1>3. (Len(c) <= 2 \/ Len(c) > 2) /\ (Len(d) <= 2 \/ Len(d) > 2)
  <2>1. PICK m \in Nat, n \in Nat : m = Len(c) /\ n = Len(d)
    OBVIOUS
  <2> QED
    BY <2>1
<1>4. CASE Len(c) > 2 /\ Len(d) > 2
  BY <1>1, <1>2, <1>4, LongTextsDiffer
<1>5. CASE Len(c) <= 2 /\ Len(d) > 2
  BY <1>1, <1>2, <1>5, ShortIsNotLong
<1>6. CASE Len(c) > 2 /\ Len(d) <= 2
  BY <1>1, <1>2, <1>6, ShortIsNotLong
<1>7. CASE Len(c) <= 2 /\ Len(d) <= 2
  <2>1. PICK b : TokenIs(c, b) /\ Encodes(c, b)
    BY <1>1, <1>7, ShortTokens
  <2>2. PICK e : TokenIs(d, e) /\ Encodes(d, e)
    BY <1>2, <1>7, ShortTokens
  <2>3. <<ShortToken(c)>> = <<ShortToken(d)>>
    BY <1>1, <1>2, <1>7, ShortTokens
  <2>4. ShortToken(c) = ShortToken(d)
    BY <2>3
  <2>5. c = Decoded(b) /\ d = Decoded(e)
    BY <2>1, <2>2, TextDecoded
  <2>6. Decoded(b) = Decoded(e)
    BY <2>1, <2>2, <2>4, SameShortToken
  <2> QED
    BY <1>1, <1>2, <2>5, <2>6
<1> QED
  BY <1>3, <1>4, <1>5, <1>6, <1>7

----------------------------------------------------------------------------
(* The similarity of trigrams: a token stands for one trigram.             *)

\* Three letters.
Triples == {<<x, y, z>> : x \in Letters, y \in Letters, z \in Letters}

\* The tokens of trigrams.
Image(A) == {Trigram(o) : o \in A}

\* What a trigram is packed into.
LEMMA TripleParts ==
  ASSUME NEW o \in Triples
  PROVE  /\ o[1] \in Letters /\ o[2] \in Letters /\ o[3] \in Letters /\ o = <<o[1], o[2], o[3]>>
         /\ Trigram(o) = [high |-> o[1], low |-> o[2] * 256 + o[3]]
<1>1. o[1] \in Letters /\ o[2] \in Letters /\ o[3] \in Letters /\ o = <<o[1], o[2], o[3]>>
  BY DEF Triples
<1> QED
  BY <1>1, LatinTrigram

\* No two trigrams of letters are packed alike.
LEMMA TrigramTells ==
  ASSUME NEW o \in Triples, NEW p \in Triples, Trigram(o) = Trigram(p)
  PROVE  o = p
<1>1. PICK x \in Letters, y \in Letters, z \in Letters :
          x = o[1] /\ y = o[2] /\ z = o[3] /\ o = <<x, y, z>>
  BY TripleParts
<1>2. PICK u \in Letters, v \in Letters, w \in Letters :
          u = p[1] /\ v = p[2] /\ w = p[3] /\ p = <<u, v, w>>
  BY TripleParts
<1>3. [high |-> x, low |-> y * 256 + z] = [high |-> u, low |-> v * 256 + w]
  BY <1>1, <1>2, TripleParts
<1>4. x = u /\ y * 256 + z = v * 256 + w
  BY <1>3
<1>5. /\ y \in Nat /\ y < 256 /\ z \in Nat /\ z < 256
      /\ v \in Nat /\ v < 256 /\ w \in Nat /\ w < 256
  BY DEF Letters
<1>6. y = v /\ z = w
  BY ONLY <1>4, <1>5
<1> QED
  BY <1>1, <1>2, <1>4, <1>6

\* So a set of trigrams has as many tokens as trigrams.
LEMMA ImageCount ==
  ASSUME NEW A \in SUBSET Triples, IsFiniteSet(A)
  PROVE  Cardinality(Image(A)) = Cardinality(A)
<1> DEFINE f == [o \in A |-> Trigram(o)]
<1>1. f \in [A -> Image(A)] /\ \A o \in A : f[o] = Trigram(o)
  BY DEF Image
<1>2. \A o, p \in A : f[o] = f[p] => o = p
  BY <1>1, TrigramTells
<1>3. \A t \in Image(A) : \E o \in A : f[o] = t
  BY <1>1 DEF Image
<1> HIDE DEF f
<1>4. f \in Bijection(A, Image(A))
  BY <1>1, <1>2, <1>3 DEF Bijection, Injection, Surjection, IsInjective
<1>5. ExistsBijection(A, Image(A))
  BY <1>4 DEF ExistsBijection
<1> QED
  BY <1>5, FS_Bijection

\* The tokens of a Latin text are those of its trigrams.
LEMMA LatinTokenSet ==
  ASSUME LatinStaysLatin, NEW text \in Seq(Nat), Latin(text), Len(text) > 2
  PROVE  /\ Trigrams(text) \in SUBSET Triples /\ IsFiniteSet(Trigrams(text))
         /\ ToSet(TokenizeText(text)) = Image(Trigrams(text))
<1>1. PICK c \in Seq(Letters) : c = Lowered(text) /\ Len(c) = Len(text)
  BY LatinLowered
<1>2. PICK n \in Nat : n = Len(c) /\ n > 2
  BY <1>1
<1>3. PICK cut : cut = [i \in 1..n - 2 |-> SubSeq(c, i, i + 2)]
  OBVIOUS
<1>4. Trigrams(text) = {cut[i] : i \in 1..n - 2}
  BY <1>1, <1>2, <1>3 DEF Trigrams
<1>5. TokenizeText(text) = [i \in 1..n - 2 |-> Trigram(cut[i])]
  <2>1. ~(n < 3)
    BY <1>2
  <2> QED
    BY <1>1, <1>2, <1>3, <2>1 DEF TokenizeText
<1>6. ASSUME NEW i \in 1..n - 2 PROVE cut[i] \in Triples
  <2>1. \A j \in 1..n : c[j] \in Letters
    BY <1>2
  <2>2. i + 1 \in 1..n /\ i + 2 \in 1..n /\ i \in 1..n
    BY <1>2
  <2>3. PICK k \in Int : k = i + 2 /\ k - i + 1 = 3
    BY <1>2
  <2>4. i \in Int /\ \A j \in i..k : c[j] \in Letters
    BY <1>2, <2>1, <2>3
  <2>5. PICK o : o = cut[i]
    OBVIOUS
  <2>6. o \in Seq(Letters) /\ Len(o) = 3
    <3>1. i <= k
      BY <2>3
    <3> QED
      BY <1>3, <2>3, <2>4, <2>5, <3>1, SubSeqProperties
  <2>7. PICK x \in Letters, y \in Letters, z \in Letters : x = o[1] /\ y = o[2] /\ z = o[3]
    <3>1. o[1] \in Letters /\ o[2] \in Letters /\ o[3] \in Letters
      BY <2>6, ElementsOfThree
    <3> QED
      BY <3>1
  <2>8. o = <<x, y, z>>
    <3>1. o = <<o[1], o[2], o[3]>>
      BY <2>6, SeqThree
    <3> QED
      BY <2>7, <3>1
  <2> QED
    BY <2>5, <2>8 DEF Triples
<1>7. IsFiniteSet(Trigrams(text))
  <2>1. cut \in Surjection(1..n - 2, Trigrams(text))
    BY <1>3, <1>4 DEF Surjection
  <2>2. IsFiniteSet(1..n - 2)
    BY <1>2, FS_Interval
  <2> QED
    BY <2>1, <2>2, FS_Surjection
<1>8. ToSet(TokenizeText(text)) = {Trigram(cut[i]) : i \in 1..n - 2}
  <2> DEFINE tokens == [i \in 1..n - 2 |-> Trigram(cut[i])]
  <2>1. ToSet(tokens) = {tokens[i] : i \in DOMAIN tokens}
    BY DEF ToSet
  <2> QED
    BY <1>5, <2>1
<1>9. {Trigram(cut[i]) : i \in 1..n - 2} = Image(Trigrams(text))
  BY <1>4 DEF Image
<1> QED
  BY <1>4, <1>6, <1>7, <1>8, <1>9

\* Packing changes no similarity between Latin texts.
LEMMA LatinSimilarity ==
  ASSUME LatinStaysLatin, NEW q \in Seq(Nat), Latin(q), Len(q) > 2,
         NEW text \in Seq(Nat), Latin(text), Len(text) > 2
  PROVE  TextSimilarity(q, text) = Jaccard(Trigrams(q), Trigrams(text))
<1>1. PICK A \in SUBSET Triples : A = Trigrams(q) /\ IsFiniteSet(A) /\ ToSet(TokenizeText(q)) = Image(A)
  BY LatinTokenSet
<1>2. PICK B \in SUBSET Triples :
          B = Trigrams(text) /\ IsFiniteSet(B) /\ ToSet(TokenizeText(text)) = Image(B)
  BY LatinTokenSet
<1>3. Image(A) \cap Image(B) = Image(A \cap B)
  BY TrigramTells DEF Image
<1>4. Image(A) \cup Image(B) = Image(A \cup B)
  BY DEF Image
<1>5. IsFiniteSet(A \cap B) /\ IsFiniteSet(A \cup B)
  BY <1>1, <1>2, FS_Subset, FS_Union
<1>6. /\ Cardinality(Image(A \cap B)) = Cardinality(A \cap B)
      /\ Cardinality(Image(A \cup B)) = Cardinality(A \cup B)
  BY <1>5, ImageCount
<1> QED
  BY <1>1, <1>2, <1>3, <1>4, <1>6 DEF TextSimilarity, Jaccard

----------------------------------------------------------------------------
(* What the properties of Latin texts rest on, put together.               *)

\* The lower case that the assumption speaks of is of letters.
LEMMA LowerIsLatin == LatinStaysLatin
<1> SUFFICES ASSUME NEW c \in Nat, 0 < c, c < 256 PROVE \E d \in Letters : Lower(c) = <<d>>
  BY DEF LatinStaysLatin
<1>1. c \in 1..255
  OBVIOUS
<1>2. PICK d \in (1..255) \ {194, 195} : Lower(c) = <<d>>
  BY <1>1, LowerAssumption
<1>3. d \in Letters
  BY <1>2 DEF Letters
<1> QED
  BY <1>2, <1>3

\* The key of a text that can be hashed is that of its tokens.
LEMMA NewKeyIs ==
  ASSUME NEW text \in DOMAIN NewKey
  PROVE  text \in Texts /\ text \in Seq(Nat) /\ NewKey[text] = TextKey(text)
BY TextsAssumption DEF NewKey

\* Texts have one key if they have the same tokens.
LEMMA KeysAreTokens ==
  ASSUME NEW text, NEW other
  PROVE  TextKey(text) = TextKey(other) <=> TokenizeText(text) = TokenizeText(other)
BY DEF TextKey, LookupKey

\* Of Latin texts: if they are the same but for case, and only then.
LEMMA KeysAreRight ==
  ASSUME NEW text \in Seq(Nat), Latin(text), NEW other \in Seq(Nat), Latin(other)
  PROVE  TextKey(text) = TextKey(other) <=> Lowered(text) = Lowered(other)
<1>1. TextKey(text) = TextKey(other) => Lowered(text) = Lowered(other)
  BY KeysAreTokens, LowerIsLatin, LatinKeys
<1>2. Lowered(text) = Lowered(other) => TextKey(text) = TextKey(other)
  <2>1. Lowered(text) = Lowered(other) => TokenizeText(text) = TokenizeText(other)
    BY DEF TokenizeText
  <2> QED
    BY <2>1, KeysAreTokens
<1> QED
  BY <1>1, <1>2

\* rekey_migration.py with ngram_hasher.py: between Latin texts a rewrite
\* does not choose.  Each that can be hashed is still there but for its
\* case, unless a text beyond Latin has its key.
THEOREM LatinTextsAreKept == RekeySpec => LatinTextsKeepApart
<1> DEFINE Stays(a, k) ==
             LET text == reading[a][k].text IN
               Latin(text) /\ text \in DOMAIN NewKey =>
                 \E j \in DOMAIN disk'[a] :
                   LET found == disk'[a][j].text
                   IN  (~Latin(found) /\ j = NewKey[text]) \/ Folded[found] = Folded[text]
           A == \A a \in JustRewritten : \A k \in DOMAIN reading[a] : Stays(a, k)
<1>1. RekeyInv /\ [RekeyNext]_rekeyVars => A
  <2> SUFFICES ASSUME RekeyInv, [RekeyNext]_rekeyVars, NEW a \in JustRewritten,
                      NEW k \in DOMAIN reading[a],
                      Latin(reading[a][k].text), reading[a][k].text \in DOMAIN NewKey
               PROVE  \E j \in DOMAIN disk'[a] :
                        LET found == disk'[a][j].text
                        IN  \/ ~Latin(found) /\ j = NewKey[reading[a][k].text]
                            \/ Folded[found] = Folded[reading[a][k].text]
    OBVIOUS
  <2>1. a \in Adapters /\ Rewrite(a) /\ disk'[a] # disk[a]
    BY RekeyStep DEF JustRewritten
  <2>2. PICK text \in DOMAIN NewKey : text = reading[a][k].text /\ Latin(text)
    OBVIOUS
  <2>3. PICK j \in DOMAIN disk'[a] : j = NewKey[text]
    <3>1. HasKey(reading[a][k]) => Stands(reading[a], disk'[a], reading[a][k])
      BY <2>1, RewriteEffect
    <3> QED
      BY <2>2, <3>1 DEF HasKey, Stands
  <2>4. PICK found \in DOMAIN NewKey : found = disk'[a][j].text /\ NewKey[found] = j
    <3>1. HasKey(disk'[a][j]) /\ NewKey[disk'[a][j].text] = j
      BY <2>1, RewriteEffect
    <3> QED
      BY <3>1 DEF HasKey
  <2>5. Latin(found) => Folded[found] = Folded[text]
    <3>1. text \in Texts /\ text \in Seq(Nat) /\ found \in Texts /\ found \in Seq(Nat)
          /\ TextKey(found) = TextKey(text)
      BY <2>3, <2>4, NewKeyIs
    <3>2. Latin(found) => Lowered(found) = Lowered(text)
      BY <2>2, <3>1, KeysAreRight
    <3> QED
      BY <3>1, <3>2 DEF Folded
  <2> QED
    BY <2>2, <2>3, <2>4, <2>5
<1> QED
  BY <1>1, RekeySound, PTL DEF RekeySpec, LatinTextsKeepApart

\* ngram_hasher.py:101: in a database that was rewritten a query by a Latin
\* text hits a Latin memory if the two are the same but for case, and only
\* then.
THEOREM QueriesHitTheirOwn == RekeySpec => HitsAreRight
<1> DEFINE A == \A a \in JustRewritten : \A k \in DOMAIN disk'[a] :
                  LET found == disk'[a][k].text
                  IN  Latin(found) => \A q \in Queries : q.key = k <=> q.folded = Folded[found]
<1>1. RekeyInv /\ [RekeyNext]_rekeyVars => A
  <2> SUFFICES ASSUME RekeyInv, [RekeyNext]_rekeyVars, NEW a \in JustRewritten,
                      NEW k \in DOMAIN disk'[a], Latin(disk'[a][k].text), NEW q \in Queries
               PROVE  q.key = k <=> q.folded = Folded[disk'[a][k].text]
    OBVIOUS
  <2>1. a \in Adapters /\ Rewrite(a) /\ disk'[a] # disk[a]
    BY RekeyStep DEF JustRewritten
  <2>2. PICK found \in DOMAIN NewKey : found = disk'[a][k].text /\ NewKey[found] = k
    <3>1. HasKey(disk'[a][k]) /\ NewKey[disk'[a][k].text] = k
      BY <2>1, RewriteEffect
    <3> QED
      BY <3>1 DEF HasKey
  <2>3. PICK t \in Asked : Latin(t) /\ q = [folded |-> Lowered(t), key |-> TextKey(t)]
    BY DEF Queries
  <2>4. q.key = TextKey(t) /\ q.folded = Lowered(t) /\ t \in Seq(Nat)
    BY <2>3, TextsAssumption
  <2>5. found \in Texts /\ found \in Seq(Nat) /\ k = TextKey(found) /\ Folded[found] = Lowered(found)
    BY <2>2, NewKeyIs DEF Folded
  <2>6. TextKey(t) = TextKey(found) <=> Lowered(t) = Lowered(found)
    BY <2>2, <2>3, <2>4, <2>5, KeysAreRight
  <2> QED
    BY <2>2, <2>4, <2>5, <2>6
<1> QED
  BY <1>1, RekeySound, PTL DEF RekeySpec, HitsAreRight

\* ngram_hasher.py:145: the similarity by which memories are ranked is that
\* of the trigrams themselves, between Latin texts that have any.
THEOREM RankingIsOfTrigrams == RekeySpec => SimilarityIsJaccard
<1> DEFINE A == \A a \in JustRewritten : \A k \in DOMAIN disk'[a] :
                  LET text == disk'[a][k].text
                  IN  Latin(text) /\ Len(text) > 2 => \A pair \in Compared[text] : pair[1] = pair[2]
<1>1. RekeyInv /\ [RekeyNext]_rekeyVars => A
  <2> SUFFICES ASSUME RekeyInv, [RekeyNext]_rekeyVars, NEW a \in JustRewritten,
                      NEW k \in DOMAIN disk'[a], Latin(disk'[a][k].text), Len(disk'[a][k].text) > 2,
                      NEW pair \in Compared[disk'[a][k].text]
               PROVE  pair[1] = pair[2]
    OBVIOUS
  <2>1. a \in Adapters /\ Rewrite(a) /\ disk'[a] # disk[a]
    BY RekeyStep DEF JustRewritten
  <2>2. PICK text \in DOMAIN NewKey : text = disk'[a][k].text
    <3>1. HasKey(disk'[a][k])
      BY <2>1, RewriteEffect
    <3> QED
      BY <3>1 DEF HasKey
  <2>3. text \in Texts /\ text \in Seq(Nat) /\ Latin(text) /\ Len(text) > 2
    BY <2>2, NewKeyIs
  <2>4. PICK q \in Asked : /\ Latin(q) /\ Len(q) > 2
                           /\ pair = <<TextSimilarity(q, text), Jaccard(Trigrams(q), Trigrams(text))>>
    BY <2>2, <2>3 DEF Compared
  <2>5. q \in Seq(Nat)
    BY TextsAssumption
  <2>6. TextSimilarity(q, text) = Jaccard(Trigrams(q), Trigrams(text))
    BY <2>3, <2>4, <2>5, LowerIsLatin, LatinSimilarity
  <2> QED
    BY <2>4, <2>6
<1> QED
  BY <1>1, RekeySound, PTL DEF RekeySpec, SimilarityIsJaccard

\* A text that can be hashed, by the characters of its lower case.
HasPlace(c) ==
  \/ Len(c) > 2 /\ \A i \in 1..(Len(c) - 2) : c[i] < 32768
  \/ Len(c) = 2 /\ ((c[1] < 65536 /\ Ascii(c[2])) \/ (Ascii(c[1]) /\ c[2] < 2048))
  \/ Len(c) = 1 /\ c[1] < 65536
  \/ Len(c) = 0

\* Of the texts that a memory can have, these are the ones with a key.
LEMMA PlaceIsKey ==
  ASSUME NEW text \in Texts
  PROVE  text \in DOMAIN NewKey <=> HasPlace(Folded[text])
<1>1. PICK c \in Seq(CodePoints) : c = Lowered(text) /\ c = Folded[text]
  BY FoldedAssumption DEF Folded
<1>2. text \in DOMAIN NewKey <=> Hashable(text)
  BY DEF NewKey
<1>3. PICK n \in Nat : n = Len(c)
  OBVIOUS
<1>4. CASE n < 3
  <2>1. Hashable(text) <=> FitsShort(c)
    BY <1>1, <1>3, <1>4, ShortHashable
  <2>2. ~(Len(c) > 2)
    BY <1>3, <1>4
  <2>3. FitsShort(c) <=> HasPlace(c)
    BY <2>2 DEF FitsShort, HasPlace, Ascii
  <2> QED
    BY <1>1, <1>2, <2>1, <2>3
<1>5. CASE ~(n < 3)
  <2>1. Hashable(text) <=> \A i \in 1..(Len(c) - 2) : c[i] < 32768
    <3>1. ~(Len(c) < 3)
      BY ONLY <1>3, <1>5, Zenon
    <3>2. Lowered(text) = c
      BY <1>1
    <3> QED
      BY <3>1, <3>2, LongHashable
  <2>2. Len(c) > 2 /\ Len(c) # 2 /\ Len(c) # 1 /\ Len(c) # 0
    <3>1. n > 2 /\ n # 2 /\ n # 1 /\ n # 0
      BY ONLY <1>5, n \in Nat, SMT
    <3> QED
      BY ONLY <1>3, <3>1, Zenon
  <2>3. HasPlace(c) <=> \A i \in 1..(Len(c) - 2) : c[i] < 32768
    BY <2>2 DEF HasPlace
  <2> QED
    BY <1>1, <1>2, <2>1, <2>3
<1> QED
  BY <1>4, <1>5

\* ngram_hasher.py:116, "Works on any text": the texts that a rewrite finds
\* no place for are those with a character too large for the key, and the
\* theorem says which these are for texts of any length.
THEOREM SkippedAreKnown == RekeySpec => SkipsExactly
<1> DEFINE Sorted(a, k) ==
             LET text == reading[a][k].text
                 c == Folded[text]
             IN  text \in DOMAIN NewKey /\ NewKey[text] \in DOMAIN disk'[a] <=>
                   \/ Len(c) > 2 /\ \A i \in 1..(Len(c) - 2) : c[i] < 32768
                   \/ Len(c) = 2 /\ ((c[1] < 65536 /\ Ascii(c[2])) \/ (Ascii(c[1]) /\ c[2] < 2048))
                   \/ Len(c) = 1 /\ c[1] < 65536
                   \/ Len(c) = 0
           A == \A a \in JustRewritten : \A k \in DOMAIN reading[a] : Sorted(a, k)
<1>1. RekeyInv /\ [RekeyNext]_rekeyVars => A
  <2> SUFFICES ASSUME RekeyInv, [RekeyNext]_rekeyVars, NEW a \in JustRewritten,
                      NEW k \in DOMAIN reading[a]
               PROVE  Sorted(a, k)
    OBVIOUS
  <2>1. a \in Adapters /\ Rewrite(a) /\ disk'[a] # disk[a]
    BY RekeyStep DEF JustRewritten
  <2>2. PICK row : row = reading[a][k]
    OBVIOUS
  <2>3. HasKey(row) => Stands(reading[a], disk'[a], row)
    BY <2>1, <2>2, RewriteEffect
  <2>4. row.text \in Texts
    BY <2>2, RewriteEffect, <2>1 DEF RekeyInv, IsStored
  <2>5. row.text \in DOMAIN NewKey <=> HasPlace(Folded[row.text])
    BY <2>4, PlaceIsKey
  <2>6. row.text \in DOMAIN NewKey => NewKey[row.text] \in DOMAIN disk'[a]
    BY <2>3 DEF HasKey, Stands
  <2>7. row.text \in DOMAIN NewKey /\ NewKey[row.text] \in DOMAIN disk'[a] <=> HasPlace(Folded[row.text])
    BY <2>5, <2>6
  <2> QED
    BY <2>2, <2>7 DEF HasPlace
<1> QED
  BY <1>1, RekeySound, PTL DEF RekeySpec, SkipsExactly
=============================================================================
