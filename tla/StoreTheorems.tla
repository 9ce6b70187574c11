--------------------------- MODULE StoreTheorems ---------------------------
(***************************************************************************)
(* What the operations of the store do, for every proof about a module     *)
(* that is built on them: recency orders (sequences that name each element *)
(* of a set once, as the keys of the OrderedDict of manager.py do) under   *)
(* pop, insert and move_to_end, and tables and databases under those of    *)
(* engram_table.py and sqlite_backend.py.                                  *)
(***************************************************************************)
EXTENDS SqliteBackend, SequencesExt, FiniteSetTheorems, SequenceTheorems, TLAPS

----------------------------------------------------------------------------
(* Orders. *)

Distinct(s) == \A i, j \in 1..Len(s) : s[i] = s[j] => i = j

\* s is an order of the set D: its elements are those of D, each once.
Lists(s, D) == s \in Seq(D) /\ Distinct(s) /\ ToSet(s) = D

\* A sequence is one over any set that has its elements.
LEMMA SeqOfElements ==
  ASSUME NEW S, NEW T, NEW s \in Seq(S), \A i \in 1..Len(s) : s[i] \in T
  PROVE  s \in Seq(T)
<1>1. Len(s) \in Nat
  BY LenProperties
<1>2. SubSeq(s, 1, Len(s)) \in Seq(T)
  BY <1>1, SubSeqProperties
<1> QED
  BY <1>2, SubSeqFull

\* Taking the i-th element out of an order without repetitions is cutting it
\* at i (OrderedDict.pop and move_to_end in manager.py find it by name).
LEMMA RemoveFirstIndex ==
  ASSUME NEW S, NEW s \in Seq(S), Distinct(s), NEW i \in 1..Len(s)
  PROVE  RemoveFirst(s, s[i]) = SubSeq(s, 1, i - 1) \o SubSeq(s, i + 1, Len(s))
<1> DEFINE I == {j \in 1..Len(s) : s[j] = s[i]}
<1>1. I = {i}
  BY DEF Distinct
<1>2. Min(I) = i
  BY <1>1 DEF Min
<1>3. SelectInSeq(s, LAMBDA v : v = s[i]) = i
  BY <1>1, <1>2 DEF SelectInSeq
<1> QED
  BY <1>3 DEF RemoveFirst, RemoveAt

\* What is left is the others, in their order.
LEMMA RemoveFirstAt ==
  ASSUME NEW s, NEW D, Lists(s, D), NEW i \in 1..Len(s)
  PROVE  /\ RemoveFirst(s, s[i]) \in Seq(D)
         /\ Len(RemoveFirst(s, s[i])) = Len(s) - 1
         /\ \A j \in 1..Len(s) - 1 : RemoveFirst(s, s[i])[j] = IF j < i THEN s[j] ELSE s[j + 1]
<1> DEFINE r == RemoveFirst(s, s[i])
           p == SubSeq(s, 1, i - 1)
           q == SubSeq(s, i + 1, Len(s))
<1>1. s \in Seq(D) /\ Distinct(s)
  BY DEF Lists
<1>2. r = p \o q
  BY <1>1, RemoveFirstIndex
<1>3. Len(s) \in Nat /\ \A j \in 1..Len(s) : s[j] \in D
  BY <1>1, LenProperties, ElementOfSeq
<1>4. /\ p \in Seq(D) /\ Len(p) = i - 1
      /\ \A j \in 1..i - 1 : p[j] = s[j]
  BY <1>3, SubSeqProperties
<1>5. /\ q \in Seq(D) /\ Len(q) = Len(s) - i
      /\ \A j \in 1..Len(s) - i : q[j] = s[i + j]
  BY <1>3, SubSeqProperties
<1> HIDE DEF p, q, r
<1>6. /\ r \in Seq(D) /\ Len(r) = (i - 1) + (Len(s) - i)
      /\ \A j \in 1..(i - 1) + (Len(s) - i) : r[j] = IF j <= i - 1 THEN p[j] ELSE q[j - (i - 1)]
  <2>1. /\ r \in Seq(D) /\ Len(r) = Len(p) + Len(q)
        /\ \A j \in 1..Len(p) + Len(q) : r[j] = IF j <= Len(p) THEN p[j] ELSE q[j - Len(p)]
    BY <1>2, <1>4, <1>5, ConcatProperties, Zenon
  <2> QED
    BY <2>1, <1>4, <1>5
<1>7. ASSUME NEW j \in 1..Len(s) - 1 PROVE r[j] = IF j < i THEN s[j] ELSE s[j + 1]
  <2>1. CASE j < i
    BY <2>1, <1>6, <1>3, <1>4
  <2>2. CASE j >= i
    <3>1. r[j] = q[j - (i - 1)] /\ j - (i - 1) \in 1..Len(s) - i
      BY <2>2, <1>6, <1>3
    <3>2. q[j - (i - 1)] = s[i + (j - (i - 1))] /\ i + (j - (i - 1)) = j + 1
      BY <3>1, <1>5, <1>3
    <3> QED
      BY <2>2, <3>1, <3>2
  <2> QED
    BY <2>1, <2>2, <1>3
<1> QED
  BY <1>6, <1>7, <1>3 DEF r

\* Popping one adapter from the recency order leaves an order of the others.
LEMMA ListsRemove ==
  ASSUME NEW s, NEW D, Lists(s, D), NEW a \in D
  PROVE  /\ Lists(RemoveFirst(s, a), D \ {a})
         /\ Len(RemoveFirst(s, a)) = Len(s) - 1
<1>1. s \in Seq(D) /\ Distinct(s) /\ D = {s[i] : i \in 1..Len(s)}
  BY LenProperties DEF Lists, ToSet
<1>2. PICK i \in 1..Len(s) : s[i] = a
  BY <1>1
<1> DEFINE r == RemoveFirst(s, a)
<1>3. Len(s) \in Nat /\ \A j \in 1..Len(s) : s[j] \in D
  BY <1>1, LenProperties, ElementOfSeq
<1>4. /\ r \in Seq(D) /\ Len(r) = Len(s) - 1
      /\ \A j \in 1..Len(s) - 1 : r[j] = IF j < i THEN s[j] ELSE s[j + 1]
  BY <1>2, RemoveFirstAt
<1> HIDE DEF r
<1>5. Distinct(r)
  <2> SUFFICES ASSUME NEW j \in 1..Len(r), NEW k \in 1..Len(r), r[j] = r[k] PROVE j = k
    BY DEF Distinct
  <2> DEFINE at(x) == IF x < i THEN x ELSE x + 1
  <2>1. /\ at(j) \in 1..Len(s) /\ r[j] = s[at(j)]
        /\ at(k) \in 1..Len(s) /\ r[k] = s[at(k)]
    BY <1>3, <1>4
  <2>2. at(j) = at(k)
    BY <1>1, <2>1 DEF Distinct
  <2> QED
    BY <2>2, <1>3, <1>4
<1>6. {r[j] : j \in 1..Len(r)} = D \ {a}
  <2>1. ASSUME NEW j \in 1..Len(r) PROVE r[j] \in D \ {a}
    <3>1. r[j] = IF j < i THEN s[j] ELSE s[j + 1]
      BY <1>4
    <3>2. /\ Len(r) = Len(s) - 1 /\ Len(s) \in Nat
          /\ \A k, l \in 1..Len(s) : s[k] = s[l] => k = l
          /\ \A k \in 1..Len(s) : s[k] \in D
      BY <1>1, <1>3, <1>4 DEF Distinct
    <3> QED
      BY <3>1, <3>2, <1>2
  <2>2. ASSUME NEW b \in D \ {a} PROVE \E j \in 1..Len(r) : r[j] = b
    <3>1. PICK k \in 1..Len(s) : s[k] = b
      BY <1>1
    <3>2. CASE k < i
      <4>1. k \in 1..Len(s) - 1 /\ r[k] = s[k]
        BY <3>2, <1>3, <1>4
      <4> QED
        BY <4>1, <3>1, <1>4
    <3>3. CASE k > i
      <4>1. k - 1 \in 1..Len(s) - 1 /\ ~(k - 1 < i) /\ (k - 1) + 1 = k
        BY <3>3, <1>3
      <4>2. r[k - 1] = s[k]
        BY <4>1, <1>4
      <4> QED
        BY <4>1, <4>2, <3>1, <1>4
    <3> QED
      BY <3>1, <3>2, <3>3, <1>2, <1>3
  <2> QED
    BY <2>1, <2>2
<1>7. r \in Seq(D \ {a})
  <2>1. \A j \in 1..Len(r) : r[j] \in D \ {a}
    BY <1>6
  <2> QED
    BY <2>1, <1>4, SeqOfElements
<1> QED
  BY <1>4, <1>5, <1>6, <1>7, LenProperties DEF Lists, ToSet, r

\* A table newly inserted in the dict is the last of the order.
LEMMA ListsAppend ==
  ASSUME NEW s, NEW D, Lists(s, D), NEW a, a \notin D
  PROVE  /\ Lists(Append(s, a), D \cup {a})
         /\ Len(Append(s, a)) = Len(s) + 1
<1> DEFINE r == Append(s, a)
<1>1. s \in Seq(D) /\ Distinct(s) /\ D = {s[i] : i \in 1..Len(s)}
  BY LenProperties DEF Lists, ToSet
<1>2. /\ r \in Seq(D \cup {a}) /\ Len(r) = Len(s) + 1 /\ r[Len(s) + 1] = a
      /\ \A i \in 1..Len(s) : r[i] = s[i]
  <2>1. s \in Seq(D \cup {a})
    BY <1>1, SeqMonotonic
  <2> QED
    BY <2>1, AppendProperties
<1>3. Len(s) \in Nat
  BY <1>1, LenProperties
<1> HIDE DEF r
<1>4. /\ Len(r) = Len(s) + 1 /\ r[Len(s) + 1] = a
      /\ \A i \in 1..Len(s) : r[i] = s[i] /\ s[i] \in D
      /\ \A i, j \in 1..Len(s) : s[i] = s[j] => i = j
  BY <1>1, <1>2 DEF Distinct
<1>5. Distinct(r)
  BY <1>3, <1>4 DEF Distinct
<1>6. {r[j] : j \in 1..Len(r)} = D \cup {a}
  <2>1. \A d \in D : \E i \in 1..Len(s) : s[i] = d
    BY <1>1
  <2> QED
    BY <2>1, <1>3, <1>4
<1> QED
  BY <1>2, <1>5, <1>6, LenProperties DEF Lists, ToSet, r

\* What unmount_all has not reached yet is an order of the tables left.
LEMMA ListsTail ==
  ASSUME NEW s, NEW D, Lists(s, D), NEW n \in 0..Len(s)
  PROVE  /\ Lists(SubSeq(s, n + 1, Len(s)), D \ {s[i] : i \in 1..n})
         /\ Len(SubSeq(s, n + 1, Len(s))) = Len(s) - n
<1> DEFINE r == SubSeq(s, n + 1, Len(s))
<1>1. s \in Seq(D) /\ Distinct(s) /\ D = {s[i] : i \in 1..Len(s)}
  BY LenProperties DEF Lists, ToSet
<1>2. Len(s) \in Nat /\ \A j \in 1..Len(s) : s[j] \in D
  BY <1>1, LenProperties, ElementOfSeq
<1>3. /\ r \in Seq(D) /\ Len(r) = Len(s) - n
      /\ \A j \in 1..Len(s) - n : r[j] = s[n + j]
  BY <1>2, SubSeqProperties
<1> HIDE DEF r
<1>4. /\ Len(r) = Len(s) - n
      /\ \A j \in 1..Len(r) : n + j \in 1..Len(s) /\ r[j] = s[n + j]
      /\ \A k, l \in 1..Len(s) : s[k] = s[l] => k = l
  BY <1>1, <1>2, <1>3 DEF Distinct
<1>5. Distinct(r)
  BY <1>2, <1>4 DEF Distinct
<1>6. {r[j] : j \in 1..Len(r)} = D \ {s[i] : i \in 1..n}
  <2>1. ASSUME NEW j \in 1..Len(r) PROVE r[j] \in D \ {s[i] : i \in 1..n}
    BY <1>2, <1>4
  <2>2. ASSUME NEW b \in D \ {s[i] : i \in 1..n} PROVE \E j \in 1..Len(r) : r[j] = b
    <3>1. PICK k \in 1..Len(s) : s[k] = b
      BY <1>1
    <3>2. k > n /\ k - n \in 1..Len(r)
      BY <3>1, <1>2, <1>3
    <3>3. n + (k - n) = k /\ k - n \in 1..Len(s) - n
      BY <3>2, <1>2, <1>3
    <3>4. r[k - n] = s[k]
      BY <3>3, <1>3
    <3> QED
      BY <3>1, <3>2, <3>4
  <2> QED
    BY <2>1, <2>2
<1>7. r \in Seq(D \ {s[i] : i \in 1..n})
  <2>1. \A j \in 1..Len(r) : r[j] \in D \ {s[i] : i \in 1..n}
    BY <1>6
  <2> QED
    BY <2>1, <1>3, SeqOfElements
<1> QED
  BY <1>3, <1>5, <1>6, <1>7, LenProperties DEF Lists, ToSet, r

\* Popping the front of the order, as _evict_lru does, takes the first away.
LEMMA ListsPop ==
  ASSUME NEW s, NEW D, Lists(s, D), s # <<>>
  PROVE  /\ Head(s) \in D
         /\ Lists(Tail(s), D \ {Head(s)})
         /\ Len(Tail(s)) = Len(s) - 1
<1>1. s \in Seq(D) /\ Len(s) \in Nat /\ Len(s) # 0
  BY LenProperties, EmptySeq DEF Lists
<1>2. Head(s) \in D /\ Head(s) = s[1] /\ Tail(s) = SubSeq(s, 2, Len(s))
  BY <1>1, HeadTailProperties, TailIsSubSeq
<1>3. {s[i] : i \in 1..1} = {s[1]} /\ 1 \in 0..Len(s) /\ 1 + 1 = 2
  BY <1>1
<1>4. Lists(SubSeq(s, 1 + 1, Len(s)), D \ {s[i] : i \in 1..1})
      /\ Len(SubSeq(s, 1 + 1, Len(s))) = Len(s) - 1
  BY <1>3, ListsTail
<1> QED
  BY <1>2, <1>3, <1>4

\* The empty order lists nothing, and no other does.
LEMMA ListsEmpty == Lists(<<>>, {}) /\ \A s : Lists(s, {}) => s = <<>>
<1>1. Lists(<<>>, {})
  BY EmptySeq DEF Lists, Distinct, ToSet
<1>2. ASSUME NEW s, Lists(s, {}) PROVE s = <<>>
  <2>1. s \in Seq({}) /\ Len(s) \in Nat /\ (s # <<>> => Len(s) # 0)
    BY <1>2, LenProperties, EmptySeq DEF Lists
  <2> QED
    BY <2>1, ElementOfSeq
<1> QED
  BY <1>1, <1>2

\* An order of a set is as long as the set is large.
LEMMA ListsCardinality ==
  ASSUME NEW s, NEW D, Lists(s, D)
  PROVE  Cardinality(D) = Len(s)
<1>1. /\ s \in [1..Len(s) -> D] /\ Len(s) \in Nat
      /\ \A d \in D : \E i \in 1..Len(s) : s[i] = d
      /\ Distinct(s)
  BY LenProperties DEF Lists, ToSet
<1>2. s \in Bijection(1..Len(s), D)
  BY <1>1 DEF Bijection, Injection, Surjection, IsInjective, Distinct
<1>3. ExistsBijection(1..Len(s), D)
  BY <1>2 DEF ExistsBijection
<1> QED
  BY <1>1, <1>3, FS_CountingElements

\* a stands before b in an order.
Before(s, a, b) == \E i, j \in 1..Len(s) : i < j /\ s[i] = a /\ s[j] = b

\* Popping an adapter leaves the others before and after each other.
LEMMA BeforeRemove ==
  ASSUME NEW s, NEW D, Lists(s, D), NEW a \in D, NEW x, NEW y
  PROVE  Before(RemoveFirst(s, a), x, y) <=> Before(s, x, y) /\ x # a /\ y # a
<1> DEFINE r == RemoveFirst(s, a)
<1>1. /\ Len(s) \in Nat /\ D = {s[i] : i \in 1..Len(s)}
      /\ \A i, j \in 1..Len(s) : s[i] = s[j] => i = j
  BY LenProperties DEF Lists, Distinct, ToSet
<1>2. PICK c \in 1..Len(s) : s[c] = a
  BY <1>1
<1>3. /\ Len(r) = Len(s) - 1
      /\ \A j \in 1..Len(s) - 1 : r[j] = IF j < c THEN s[j] ELSE s[j + 1]
  BY <1>2, RemoveFirstAt
<1> HIDE DEF r
<1>4. ASSUME Before(r, x, y) PROVE Before(s, x, y) /\ x # a /\ y # a
  <2>1. PICK i, j \in 1..Len(s) - 1 : i < j /\ r[i] = x /\ r[j] = y
    BY <1>3, <1>4 DEF Before
  <2>2. PICK k, l \in 1..Len(s) : k < l /\ s[k] = x /\ s[l] = y /\ k # c /\ l # c
    <3> DEFINE at(n) == IF n < c THEN n ELSE n + 1
    <3>1. at(i) \in 1..Len(s) /\ at(j) \in 1..Len(s) /\ at(i) < at(j) /\ at(i) # c /\ at(j) # c
      BY <1>1, <2>1
    <3>2. s[at(i)] = x /\ s[at(j)] = y
      BY <1>3, <2>1
    <3> QED
      BY <3>1, <3>2
  <2> QED
    BY <1>1, <1>2, <2>2 DEF Before
<1>5. ASSUME Before(s, x, y), x # a, y # a PROVE Before(r, x, y)
  <2>1. PICK k, l \in 1..Len(s) : k < l /\ s[k] = x /\ s[l] = y
    BY <1>5 DEF Before
  <2>2. k # c /\ l # c
    BY <1>2, <1>5, <2>1
  <2> DEFINE at(n) == IF n < c THEN n ELSE n - 1
  <2>3. at(k) \in 1..Len(s) - 1 /\ at(l) \in 1..Len(s) - 1 /\ at(k) < at(l)
    BY <1>1, <2>1, <2>2
  <2>4. r[at(k)] = x /\ r[at(l)] = y
    <3>1. ASSUME NEW n \in 1..Len(s), n # c PROVE at(n) \in 1..Len(s) - 1 /\ r[at(n)] = s[n]
      <4>1. CASE n < c
        BY <1>1, <1>3, <4>1
      <4>2. CASE n > c
        <5>1. n - 1 \in 1..Len(s) - 1 /\ ~(n - 1 < c) /\ n - 1 + 1 = n /\ at(n) = n - 1
          BY <1>1, <4>2
        <5> QED
          BY <1>3, <5>1
      <4> QED
        BY <1>1, <3>1, <4>1, <4>2
    <3> QED
      BY <2>1, <2>2, <3>1
  <2> HIDE DEF at
  <2> QED
    BY <1>3, <2>3, <2>4 DEF Before
<1> QED
  BY <1>4, <1>5 DEF r

\* What is appended stands after everything else, and before nothing.
LEMMA BeforeAppend ==
  ASSUME NEW S, NEW s \in Seq(S), NEW a \in S, NEW x, NEW y
  PROVE  Before(Append(s, a), x, y) <=> Before(s, x, y) \/ (y = a /\ x \in ToSet(s))
<1> DEFINE r == Append(s, a)
<1>1. /\ Len(s) \in Nat /\ Len(r) = Len(s) + 1 /\ r[Len(s) + 1] = a
      /\ \A i \in 1..Len(s) : r[i] = s[i]
  BY LenProperties, AppendProperties
<1>2. ToSet(s) = {s[i] : i \in 1..Len(s)}
  BY LenProperties DEF ToSet
<1> HIDE DEF r
<1>3. ASSUME Before(r, x, y) PROVE Before(s, x, y) \/ (y = a /\ x \in ToSet(s))
  <2>1. PICK i, j \in 1..Len(s) + 1 : i < j /\ r[i] = x /\ r[j] = y
    BY <1>1, <1>3 DEF Before
  <2>2. i \in 1..Len(s) /\ s[i] = x
    BY <1>1, <2>1
  <2>3. CASE j = Len(s) + 1
    BY <1>1, <1>2, <2>1, <2>2, <2>3
  <2>4. CASE j # Len(s) + 1
    <3>1. j \in 1..Len(s) /\ s[j] = y
      BY <1>1, <2>1, <2>4
    <3> QED
      BY <2>1, <2>2, <3>1 DEF Before
  <2> QED
    BY <2>3, <2>4
<1>4. ASSUME Before(s, x, y) PROVE Before(r, x, y)
  <2>1. PICK i, j \in 1..Len(s) : i < j /\ s[i] = x /\ s[j] = y
    BY <1>4 DEF Before
  <2>2. i \in 1..Len(r) /\ j \in 1..Len(r) /\ r[i] = x /\ r[j] = y
    BY <1>1, <2>1
  <2> QED
    BY <2>1, <2>2 DEF Before
<1>5. ASSUME y = a, x \in ToSet(s) PROVE Before(r, x, y)
  <2>1. PICK i \in 1..Len(s) : s[i] = x
    BY <1>2, <1>5
  <2>2. i \in 1..Len(r) /\ Len(s) + 1 \in 1..Len(r) /\ i < Len(s) + 1 /\ r[i] = x
    BY <1>1, <2>1
  <2> QED
    BY <1>1, <1>5, <2>2 DEF Before
<1> QED
  BY <1>3, <1>4, <1>5 DEF r

\* The end of an order is in the same order.
LEMMA BeforeTail ==
  ASSUME NEW s, NEW D, Lists(s, D), NEW n \in 0..Len(s), NEW x, NEW y,
         Before(SubSeq(s, n + 1, Len(s)), x, y)
  PROVE  Before(s, x, y)
<1> DEFINE r == SubSeq(s, n + 1, Len(s))
<1>1. Len(s) \in Nat /\ \A i \in 1..Len(s) : s[i] \in D
  BY LenProperties, ElementOfSeq DEF Lists
<1>2. /\ Len(r) = Len(s) - n
      /\ \A j \in 1..Len(s) - n : r[j] = s[n + j]
  BY <1>1, SubSeqProperties
<1> HIDE DEF r
<1>3. PICK i, j \in 1..Len(s) - n : i < j /\ r[i] = x /\ r[j] = y
  BY <1>2 DEF Before, r
<1>4. n + i \in 1..Len(s) /\ n + j \in 1..Len(s) /\ n + i < n + j
  BY <1>1, <1>3
<1> QED
  BY <1>2, <1>3, <1>4 DEF Before

----------------------------------------------------------------------------
(* Tables and databases. *)

\* A row read back by load is a payload again (its metadata is the default).
LEMMA RowIsPayload ==
  ASSUME NEW p \in Payload
  PROVE  Row(p) \in Payload
BY DEF Row, Payload

\* The rows of a table are the contents of a database.
LEMMA RowsAreContents ==
  ASSUME NEW contents, IsContents(contents)
  PROVE  IsContents(Rows(contents))
BY RowIsPayload DEF IsContents, Rows

\* Rows inserted or updated leave a database of payloads.
LEMMA UpsertedIsContents ==
  ASSUME NEW old, IsContents(old), NEW new, IsContents(new)
  PROVE  IsContents(Upserted(old, new))
BY DEF IsContents, Upserted

\* After save a database still holds payloads under context hashes only.
LEMMA SaveIsContents ==
  ASSUME NEW rows, IsContents(rows), NEW table, IsTable(table)
  PROVE  IsContents(Save(rows, table))
<1>1. IsContents(Rows(table.store))
  BY RowsAreContents DEF IsTable
<1> QED
  BY <1>1, UpsertedIsContents DEF Save

\* What load builds is a table.
LEMMA LoadIsTable ==
  ASSUME NEW contents, IsContents(contents)
  PROVE  IsTable(Load(contents))
BY DEF IsTable, Load

\* put leaves a table.
LEMMA PutIsTable ==
  ASSUME NEW table, IsTable(table), NEW k \in Keys, NEW p \in Payload
  PROVE  IsTable(Put(table, k, p))
<1>1. IsContents(With(table.store, k, p))
  BY DEF IsTable, IsContents, With
<1> QED
  BY <1>1 DEF IsTable, Put

\* tick leaves a table: the same keys, each with a payload.
LEMMA TickIsTable ==
  ASSUME NEW table, IsTable(table), NEW steps \in Int
  PROVE  /\ IsTable(Tick(table, steps))
         /\ DOMAIN Tick(table, steps).store = DOMAIN table.store
<1> DEFINE aged == [k \in DOMAIN table.store |-> [table.store[k] EXCEPT !.age = @ + steps]]
<1>1. IsContents(table.store)
  BY DEF IsTable
<1>2. ASSUME NEW k \in DOMAIN table.store
      PROVE  [table.store[k] EXCEPT !.age = @ + steps] \in Payload
  BY <1>1 DEF IsContents, Payload
<1>3. IsContents(aged) /\ DOMAIN aged = DOMAIN table.store
  BY <1>1, <1>2 DEF IsContents
<1> QED
  BY <1>3 DEF IsTable, Tick

\* evict_stale leaves a table.
LEMMA EvictIsTable ==
  ASSUME NEW table, IsTable(table), NEW threshold
  PROVE  IsTable(EvictStale(table, threshold))
<1>1. IsContents(Without(table.store, Stale(table.store, threshold)))
  BY DEF IsTable, IsContents, Without, Restrict
<1> QED
  BY <1>1 DEF IsTable, EvictStale

\* A scan of evict_stale leaves nothing stale under its own threshold.
LEMMA NothingStaleLeft ==
  ASSUME NEW store, NEW threshold
  PROVE  Stale(Without(store, Stale(store, threshold)), threshold) = {}
BY DEF Stale, Without, Restrict

----------------------------------------------------------------------------
(* Powers. *)

\* Induction over the numbers; the fold that goes with it plays no part.
Numbers == INSTANCE FoldTheorems WITH
  op <- LAMBDA p, x, y : x,
  P  <- LAMBDA q, k, x : TRUE

IsPowers(base, n, g) == g = [i \in 0..n |-> IF i = 0 THEN 1 ELSE base * g[i - 1]]

\* The powers up to the n-th exist.
LEMMA PowersExist ==
  ASSUME NEW base, NEW n \in Nat
  PROVE  \E g : IsPowers(base, n, g)
<1> DEFINE K == {k \in Nat : \E g : IsPowers(base, k, g)}
<1>1. \E g : IsPowers(base, 0, g)
  <2>1. IsPowers(base, 0, [i \in 0..0 |-> 1])
    BY DEF IsPowers
  <2> QED
    BY <2>1
<1>2. ASSUME NEW k \in Nat, \E g : IsPowers(base, k, g) PROVE \E g : IsPowers(base, k + 1, g)
  <2>1. PICK g : IsPowers(base, k, g)
    BY <1>2
  <2> DEFINE h == [i \in 0..k + 1 |-> IF i = k + 1 THEN base * g[k] ELSE g[i]]
  <2>2. \A i \in 0..k + 1 : h[i] = IF i = 0 THEN 1 ELSE base * h[i - 1]
    BY <2>1 DEF IsPowers
  <2>3. h = [i \in 0..k + 1 |-> h[i]]
    OBVIOUS
  <2> HIDE DEF h
  <2>4. IsPowers(base, k + 1, h)
    BY <2>2, <2>3 DEF IsPowers
  <2> QED
    BY <2>4
<1>3. 0 \in K /\ \A k \in Nat : k \in K => k + 1 \in K
  BY <1>1, <1>2
<1> HIDE DEF K
<1>4. n \in K
  BY <1>3, Numbers!NatSetInduction
<1> QED
  BY <1>4 DEF K

\* A power is the one before it times the base.
LEMMA PowNext ==
  ASSUME NEW base
  PROVE  /\ Pow(base, 0) = 1
         /\ \A n \in Nat : Pow(base, n + 1) = base * Pow(base, n)
<1> DEFINE p(n) == CHOOSE g : IsPowers(base, n, g)
<1>1. \A n \in Nat : Pow(base, n) = p(n)[n]
  BY DEF Pow, IsPowers
<1>2. \A n \in Nat : IsPowers(base, n, p(n))
  BY PowersExist
<1> HIDE DEF p
<1>3. Pow(base, 0) = 1
  BY <1>1, <1>2 DEF IsPowers
<1>4. ASSUME NEW n \in Nat PROVE Pow(base, n + 1) = base * Pow(base, n)
  <2> DEFINE K == {k \in Nat : k <= n => p(n)[k] = p(n + 1)[k]}
  <2>1. IsPowers(base, n, p(n)) /\ IsPowers(base, n + 1, p(n + 1)) /\ n + 1 \in Nat
    BY <1>2
  <2>2. 0 \in K
    BY <2>1 DEF IsPowers
  <2>3. ASSUME NEW k \in Nat, k \in K PROVE k + 1 \in K
    <3> SUFFICES ASSUME k + 1 <= n PROVE p(n)[k + 1] = p(n + 1)[k + 1]
      OBVIOUS
    <3>1. p(n)[k] = p(n + 1)[k]
      BY <2>3
    <3>2. k + 1 \in 0..n /\ k + 1 \in 0..n + 1 /\ k + 1 # 0 /\ (k + 1) - 1 = k
      OBVIOUS
    <3>3. p(n)[k + 1] = base * p(n)[k] /\ p(n + 1)[k + 1] = base * p(n + 1)[k]
      BY <2>1, <3>2 DEF IsPowers
    <3> QED
      BY <3>1, <3>3
  <2> HIDE DEF K
  <2>4. n \in K
    BY <2>2, <2>3, Numbers!NatSetInduction
  <2>5. p(n)[n] = p(n + 1)[n]
    BY <2>4 DEF K
  <2>6. p(n + 1)[n + 1] = base * p(n + 1)[n]
    BY <2>1 DEF IsPowers
  <2> QED
    BY <1>1, <2>1, <2>5, <2>6
<1> QED
  BY <1>3, <1>4

\* The powers of a positive number are positive.
LEMMA PowPositive ==
  ASSUME NEW base \in Nat \ {0}, NEW n \in Nat
  PROVE  Pow(base, n) \in Nat \ {0}
<1> DEFINE K == {k \in Nat : Pow(base, k) \in Nat \ {0}}
<1>1. 0 \in K
  BY PowNext
<1>2. ASSUME NEW k \in Nat, Pow(base, k) \in Nat \ {0} PROVE Pow(base, k + 1) \in Nat \ {0}
  <2>1. \A x \in Nat \ {0} : base * x \in Nat \ {0}
    OBVIOUS
  <2> QED
    BY <1>2, <2>1, PowNext
<1> HIDE DEF K
<1>3. \A k \in Nat : k \in K => k + 1 \in K
  BY <1>2 DEF K
<1>4. n \in K
  BY <1>1, <1>3, Numbers!NatSetInduction
<1> QED
  BY <1>4 DEF K

\* The powers of a smaller positive number are no greater.
LEMMA PowMonotone ==
  ASSUME NEW low \in Nat \ {0}, NEW high \in Nat \ {0}, low <= high, NEW n \in Nat
  PROVE  Pow(low, n) <= Pow(high, n)
<1> DEFINE K == {k \in Nat : Pow(low, k) <= Pow(high, k)}
<1>1. 0 \in K
  BY PowNext
<1>2. ASSUME NEW k \in Nat, Pow(low, k) <= Pow(high, k) PROVE Pow(low, k + 1) <= Pow(high, k + 1)
  <2>1. Pow(low, k) \in Nat \ {0} /\ Pow(high, k) \in Nat \ {0}
    BY PowPositive
  <2>2. \A x, y \in Nat : x <= y => low * x <= low * y
    OBVIOUS
  <2>3. \A y \in Nat : low * y <= high * y
    OBVIOUS
  <2>4. \A x, y \in Nat : x <= y => low * x <= high * y
    BY <2>2, <2>3
  <2> QED
    BY <1>2, <2>1, <2>4, PowNext
<1> HIDE DEF K
<1>3. \A k \in Nat : k \in K => k + 1 \in K
  BY <1>2 DEF K
<1>4. n \in K
  BY <1>1, <1>3, Numbers!NatSetInduction
<1> QED
  BY <1>4 DEF K

\* Exponents add up.
LEMMA PowSum ==
  ASSUME NEW base \in Nat \ {0}, NEW m \in Nat, NEW n \in Nat
  PROVE  Pow(base, m + n) = Pow(base, m) * Pow(base, n)
<1> DEFINE K == {k \in Nat : Pow(base, m + k) = Pow(base, m) * Pow(base, k)}
<1>1. 0 \in K
  <2>1. Pow(base, m) \in Nat
    BY PowPositive
  <2>2. m + 0 = m /\ \A x \in Nat : x * 1 = x
    OBVIOUS
  <2> QED
    BY <2>1, <2>2, PowNext
<1>2. ASSUME NEW k \in Nat, Pow(base, m + k) = Pow(base, m) * Pow(base, k)
      PROVE  Pow(base, m + (k + 1)) = Pow(base, m) * Pow(base, k + 1)
  <2>1. Pow(base, m) \in Nat /\ Pow(base, k) \in Nat
    BY PowPositive
  <2>2. m + (k + 1) = (m + k) + 1 /\ m + k \in Nat
    OBVIOUS
  <2>3. \A x, y \in Nat : base * (x * y) = x * (base * y)
    OBVIOUS
  <2>4. Pow(base, (m + k) + 1) = base * Pow(base, m + k) /\ Pow(base, k + 1) = base * Pow(base, k)
    BY <2>2, PowNext
  <2>5. base * (Pow(base, m) * Pow(base, k)) = Pow(base, m) * (base * Pow(base, k))
    BY <2>1, <2>3
  <2> QED
    BY <1>2, <2>2, <2>4, <2>5
<1> HIDE DEF K
<1>3. \A k \in Nat : k \in K => k + 1 \in K
  BY <1>2 DEF K
<1>4. n \in K
  BY <1>1, <1>3, Numbers!NatSetInduction
<1> QED
  BY <1>4 DEF K

\* What a salience decays to is a fraction with a positive denominator.
LEMMA DecayedIsFraction ==
  ASSUME NEW policy, IsPolicy(policy), NEW salience \in Int, NEW age \in Int
  PROVE  /\ DecayedSalience(policy, salience, age).num \in Int
         /\ DecayedSalience(policy, salience, age).den \in Nat \ {0}
<1>1. ASSUME NEW keep, keep.num \in Nat \ {0}, keep.den \in Nat \ {0}, NEW n \in Int
      PROVE  Power(keep, salience, n).num \in Int /\ Power(keep, salience, n).den \in Nat \ {0}
  <2>1. \A b \in Nat \ {0}, k \in Nat : Pow(b, k) \in Nat \ {0}
    BY PowPositive
  <2>2. \A x \in Nat : salience * x \in Int
    OBVIOUS
  <2>3. CASE n >= 0
    <3>1. Power(keep, salience, n) = [num |-> salience * Pow(keep.num, n), den |-> Pow(keep.den, n)]
      BY <2>3 DEF Power
    <3>2. Pow(keep.num, n) \in Nat \ {0} /\ Pow(keep.den, n) \in Nat \ {0}
      <4>1. n \in Nat
        BY <2>3
      <4> QED
        BY <1>1, <2>1, <4>1
    <3> QED
      BY <2>2, <3>1, <3>2
  <2>4. CASE n < 0
    <3>1. Power(keep, salience, n) = [num |-> salience * Pow(keep.den, -n), den |-> Pow(keep.num, -n)]
      BY <2>4 DEF Power
    <3>2. -n \in Nat
      BY <2>4
    <3>3. Pow(keep.den, -n) \in Nat \ {0} /\ Pow(keep.num, -n) \in Nat \ {0}
      BY <1>1, <2>1, <3>2
    <3> QED
      BY <2>2, <3>1, <3>3
  <2> QED
    BY <2>3, <2>4
<1>2. Whole(0).num \in Int /\ Whole(0).den \in Nat \ {0}
  BY DEF Whole
<1>3. CASE policy.kind = "exponential"
  <2>1. policy.keep.num \in Nat \ {0} /\ policy.keep.den \in Nat \ {0}
    BY <1>3 DEF IsPolicy
  <2>2. LookupIndex(age) \in Int
    BY LookupSizeAssumption DEF LookupIndex
  <2>3. DecayedSalience(policy, salience, age) = Exponential(policy.keep, salience, age)
    BY <1>3 DEF DecayedSalience
  <2>4. Exponential(policy.keep, salience, age)
          \in {Power(policy.keep, salience, age), Power(policy.keep, salience, LookupIndex(age)), Whole(0)}
    BY DEF Exponential
  <2> QED
    BY <1>1, <1>2, <2>1, <2>2, <2>3, <2>4
<1>4. CASE policy.kind = "linear"
  BY <1>4 DEF IsPolicy, DecayedSalience, Linear, Whole
<1>5. CASE policy.kind = "none"
  BY <1>5 DEF DecayedSalience, Whole
<1> QED
  BY <1>3, <1>4, <1>5 DEF IsPolicy
=============================================================================
