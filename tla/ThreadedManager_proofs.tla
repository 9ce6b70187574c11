---------------------- MODULE ThreadedManager_proofs -----------------------
(***************************************************************************)
(* Proofs about ThreadedManager, for every number of threads, adapters and *)
(* slots and every interleaving of their steps.                            *)
(***************************************************************************)
EXTENDS ThreadedManager, StoreTheorems

\* What serves a write is a key and a payload.
Requests == [key : Keys, payload : Payloads]

\* The places at which a thread holds an object, or rows it has read.
Holding == {"save", "gather", "install", "mounted"}
Saving == {"save", "gather", "commit"}

\* A thread has in its locals what the statement it stands at reads.
ThreadsOK ==
  /\ at \in [Threads -> Places]
  /\ held \in [Threads -> Objects \cup {None}]
  /\ DOMAIN on = Threads /\ DOMAIN victim = Threads
  /\ DOMAIN rows = Threads /\ write \in [Threads -> Requests \cup {Absent}]
  /\ \A t \in Threads :
       /\ at[t] # "idle" => on[t] \in Adapters
       /\ at[t] \in Holding <=> held[t] # None
       /\ at[t] \in Saving => victim[t] \in Adapters
       /\ at[t] \in {"gather", "commit"} => IsContents(rows[t])
       /\ at[t] \in {"idle", "finally"} => write[t] = Absent

\* The dict and its order name the same adapters, each once.
DictOK ==
  /\ Lists(order, DOMAIN tables)
  /\ DOMAIN tables \subseteq Adapters
  /\ tables \in [DOMAIN tables -> Objects]

\* What the dict and the threads refer to is a table.
StoreOK ==
  /\ DOMAIN objects = Objects
  /\ \A a \in DOMAIN tables : IsTable(objects[tables[a]])
  /\ \A t \in Threads : held[t] # None => IsTable(objects[held[t]])
  /\ DOMAIN disk = Adapters
  /\ \A a \in Adapters : IsContents(disk[a])

----------------------------------------------------------------------------
(* Lemmas about the operators. *)

\* 0 stands for no object.
LEMMA NoneIsNoObject == None \notin Objects
BY DEF None, Objects

\* A table is not the mark of a free object.
LEMMA TableIsNotFree == \A x : IsTable(x) => x # Free
<1> SUFFICES ASSUME NEW x, IsTable(x) PROVE x # Free
  OBVIOUS
<1>1. DOMAIN x.store \in SUBSET Keys /\ x.store \in [DOMAIN x.store -> Payload]
  BY DEF IsTable, IsContents
<1>2. x.store \in UNION {[S -> Payload] : S \in SUBSET Keys}
  BY <1>1
<1>3. x \in [store : UNION {[S -> Payload] : S \in SUBSET Keys}, needsEviction : BOOLEAN]
  BY <1>2 DEF IsTable
<1> QED
  BY <1>3, MarkAssumption

\* The label that handle_trigger hands to the hook is stripped back to the
\* adapter's name (coordinator.py: the suffix after the last underscore).
LEMMA StripBandOfLabel ==
  ASSUME NEW a \in Adapters, NEW band \in BandNames
  PROVE  StripBand(Label(a, band)) = a
<1> DEFINE S == STRING \cup BandSuffixes
<1>1. band \in BandSuffixes
  <2>1. DOMAIN AffectBands = 1..5
    BY DEF AffectBands
  <2>2. \A i \in 1..5 : AffectBands[i].name \in BandSuffixes
    BY DEF AffectBands, BandSuffixes
  <2>3. PICK i \in DOMAIN AffectBands : band = AffectBands[i].name
    BY DEF BandNames
  <2> QED
    BY <2>1, <2>2, <2>3
<1>2. a \in Seq(S) /\ band \in S
  BY <1>1, NameAssumption, SeqMonotonic
<1> HIDE DEF S
<1>3. Len(a) \in Nat /\ \A i \in 1..Len(a) : a[i] \in S
  BY <1>2, LenProperties, ElementOfSeq
<1>4. PICK label : label = Append(a, band)
  OBVIOUS
<1>5. /\ label \in Seq(S) /\ Len(label) = Len(a) + 1 /\ label[Len(a) + 1] = band
      /\ \A i \in 1..Len(a) : label[i] = a[i]
  BY <1>2, <1>4, AppendProperties
<1>6. Last(label) = band /\ Front(label) = SubSeq(label, 1, Len(a))
  BY <1>3, <1>5 DEF Last, Front
<1>7. /\ Front(label) \in Seq(S) /\ Len(Front(label)) = Len(a)
      /\ \A i \in 1..Len(a) : Front(label)[i] = label[i]
  BY <1>3, <1>5, <1>6, SubSeqProperties
<1>8. Front(label) = a
  BY <1>2, <1>3, <1>5, <1>7, SeqEqual
<1> QED
  BY <1>1, <1>4, <1>6, <1>8 DEF StripBand, Label

\* A call that starts a thread's work.
Begins(t) ==
  \/ \E a \in Adapters, k \in Keys, p \in Payloads : WriteMemory(t, a, k, p)
  \/ \E a \in Adapters : Schedule(t, a)

\* Every step is one thread's: it begins a call, or goes on with it.
LEMMA StepOfOne ==
  ASSUME Next
  PROVE  \E t \in Threads : Begins(t) \/ Work(t)
BY StripBandOfLabel DEF Next, Begins, HintRaw, Hint

\* There is an object left for load: the dict and the other threads refer
\* to fewer than there are.
LEMMA FreshObject ==
  ASSUME ThreadsOK, DictOK, NEW t \in Threads, held[t] = None
  PROVE  \E i \in Objects : i \notin Referred
<1> DEFINE D == DOMAIN tables
           R == {tables[a] : a \in D}
           O == Threads \ {t}
           H == {held[u] : u \in O}
           h == [u \in O |-> held[u]]
           n == Cardinality(Adapters)
           m == Cardinality(Threads)
<1>1. IsFiniteSet(R) /\ Cardinality(R) \in Nat /\ Cardinality(R) <= n /\ n \in Nat
  <2>1. IsFiniteSet(D) /\ Cardinality(D) <= n
    BY NameAssumption, FS_Subset DEF DictOK
  <2>2. tables \in Surjection(D, R)
    BY DEF Surjection, DictOK
  <2>3. IsFiniteSet(R) /\ Cardinality(R) <= Cardinality(D)
    BY <2>1, <2>2, FS_Surjection
  <2> QED
    BY <2>1, <2>3, NameAssumption, FS_CardinalityType
<1>2. IsFiniteSet(H) /\ Cardinality(H) \in Nat /\ Cardinality(H) <= m - 1 /\ m \in Nat
  <2>1. IsFiniteSet(O) /\ Cardinality(O) = m - 1
    BY ThreadAssumption, FS_RemoveElement
  <2>2. h \in Surjection(O, H)
    BY DEF Surjection
  <2>3. IsFiniteSet(H) /\ Cardinality(H) <= Cardinality(O)
    BY <2>1, <2>2, FS_Surjection
  <2> QED
    BY <2>1, <2>3, ThreadAssumption, FS_CardinalityType
<1>3. IsFiniteSet(R \cup H) /\ Cardinality(R \cup H) <= n + m - 1
  <2>1. /\ IsFiniteSet(R \cup H)
        /\ Cardinality(R \cup H) = Cardinality(R) + Cardinality(H) - Cardinality(R \cap H)
    BY <1>1, <1>2, FS_Union
  <2>2. Cardinality(R \cap H) \in Nat
    BY <1>1, FS_Intersection, FS_CardinalityType
  <2> QED
    BY <2>1, <2>2, <1>1, <1>2
<1>4. IsFiniteSet(Objects) /\ Cardinality(Objects) = n + m
  <2>1. n + m \in Nat
    BY <1>1, <1>2
  <2> HIDE DEF n, m
  <2>2. IsFiniteSet(1..(n + m)) /\ Cardinality(1..(n + m)) = n + m
    BY <2>1, FS_Interval
  <2> QED
    BY <2>2 DEF Objects, n, m
<1>5. ~(Objects \subseteq R \cup H)
  <2>1. Cardinality(R \cup H) \in Nat
    BY <1>3, FS_CardinalityType
  <2> QED
    BY <2>1, <1>1, <1>2, <1>3, <1>4, FS_Subset
<1>6. Referred \subseteq R \cup H \cup {None}
  <2>1. Range(tables) = R /\ Range(held) = {held[u] : u \in Threads}
    BY DEF Range, ThreadsOK
  <2>2. \A u \in Threads : held[u] \in H \cup {None}
    OBVIOUS
  <2> HIDE DEF R, H
  <2> QED
    BY <2>1, <2>2 DEF Referred
<1> HIDE DEF R, H
<1> QED
  BY <1>5, <1>6, NoneIsNoObject

----------------------------------------------------------------------------
(* References: each step leaves the locals of the threads, the dict and    *)
(* the tables behind them well-formed.                                     *)

Sound == ThreadsOK /\ DictOK /\ StoreOK

\* mount raising drops what its thread held.
LEMMA RaiseIsSound ==
  ASSUME Sound, NEW t \in Threads, at[t] # "idle", Raise(t)
  PROVE  Sound'
<1>1. ThreadsOK'
  BY NoneIsNoObject DEF Sound, Raise, Goto, ThreadsOK, Holding, Saving, Places, Prefetching
<1>2. DictOK'
  BY DEF Sound, Raise, DictOK, dict
<1>3. StoreOK'
  BY DEF Sound, Raise, StoreOK, ThreadsOK, dict, store
<1> QED
  BY <1>1, <1>2, <1>3 DEF Sound

\* Looking up, and starting a call, touches no table.
LEMMA LookupIsSound ==
  ASSUME Sound, NEW t \in Threads, Lookup(t) \/ Room(t) \/ Begins(t)
  PROVE  Sound'
<1>1. UNCHANGED <<order, tables, objects, disk, victim, held, rows>>
  BY DEF Lookup, Room, Begins, WriteMemory, Schedule, Start, dict, store, locals
<1>2. ThreadsOK'
  BY <1>1 DEF Sound, Lookup, Room, Begins, WriteMemory, Schedule, Start, Goto, locals,
              ThreadsOK, Holding, Saving, Places, Requests
<1>3. DictOK'
  BY <1>1 DEF Sound, DictOK
<1>4. StoreOK'
  BY <1>1 DEF Sound, StoreOK
<1> QED
  BY <1>2, <1>3, <1>4 DEF Sound

\* A hit moves the adapter to the end of the order.
LEMMA TouchIsSound ==
  ASSUME Sound, NEW t \in Threads, Touch(t)
  PROVE  Sound'
<1>1. CASE on[t] \notin DOMAIN tables
  BY <1>1, RaiseIsSound DEF Touch
<1>2. CASE on[t] \in DOMAIN tables
  <2> DEFINE a == on[t]
             r == RemoveFirst(order, a)
  <2>1. order' = Append(r, a) /\ UNCHANGED <<tables, objects, disk, on, victim, held, rows, write>>
    BY <1>2 DEF Touch, store, locals
  <2>2. ThreadsOK'
    BY <1>2, <2>1 DEF Sound, Touch, Goto, ThreadsOK, Holding, Saving, Places
  <2>3. Lists(r, DOMAIN tables \ {a}) /\ a \notin DOMAIN tables \ {a}
    BY <1>2, ListsRemove DEF Sound, DictOK
  <2>4. Lists(Append(r, a), (DOMAIN tables \ {a}) \cup {a})
    BY <2>3, ListsAppend
  <2>5. (DOMAIN tables \ {a}) \cup {a} = DOMAIN tables
    BY <1>2
  <2>6. DictOK'
    BY <2>1, <2>4, <2>5 DEF Sound, DictOK
  <2>7. StoreOK'
    BY <2>1 DEF Sound, StoreOK
  <2> QED
    BY <2>2, <2>6, <2>7 DEF Sound
<1> QED
  BY <1>1, <1>2

\* The thread holds the object it finds in the dict.
LEMMA FetchIsSound ==
  ASSUME Sound, NEW t \in Threads, Fetch(t)
  PROVE  Sound'
<1>1. CASE on[t] \notin DOMAIN tables
  BY <1>1, RaiseIsSound DEF Fetch
<1>2. CASE on[t] \in DOMAIN tables
  <2>1. tables[on[t]] \in Objects
    BY <1>2 DEF Sound, DictOK
  <2>2. ThreadsOK'
    BY <1>2, <2>1, NoneIsNoObject
       DEF Sound, Fetch, Goto, ThreadsOK, Holding, Saving, Places
  <2>3. DictOK'
    BY <1>2 DEF Sound, Fetch, DictOK, dict
  <2>4. StoreOK'
    BY <1>2 DEF Sound, Fetch, StoreOK, ThreadsOK, dict, store
  <2> QED
    BY <2>2, <2>3, <2>4 DEF Sound
<1> QED
  BY <1>1, <1>2

\* The victim leaves the dict, and its table stays with the thread.
LEMMA EvictIsSound ==
  ASSUME Sound, NEW t \in Threads, Evict(t)
  PROVE  Sound'
<1>1. CASE order = <<>>
  BY <1>1, RaiseIsSound DEF Evict
<1>2. CASE order # <<>>
  <2> DEFINE v == Head(order)
  <2>1. v \in DOMAIN tables /\ Lists(Tail(order), DOMAIN tables \ {v})
    BY <1>2, ListsPop DEF Sound, DictOK
  <2>2. tables[v] \in Objects /\ v \in Adapters /\ IsTable(objects[tables[v]])
    BY <2>1 DEF Sound, DictOK, StoreOK
  <2>3. /\ order' = Tail(order)
        /\ tables' = [a \in DOMAIN tables \ {v} |-> tables[a]]
        /\ victim' = [victim EXCEPT ![t] = v]
        /\ held' = [held EXCEPT ![t] = tables[v]]
        /\ at[t] = "evict" /\ at' = [at EXCEPT ![t] = "save"]
        /\ UNCHANGED <<objects, disk, on, rows, write>>
    BY <1>2 DEF Evict, Goto, Restrict, store
  <2> HIDE DEF v
  <2>4. ThreadsOK'
    BY <2>2, <2>3, NoneIsNoObject DEF Sound, ThreadsOK, Holding, Saving, Places
  <2>5. DictOK'
    BY <2>1, <2>3 DEF Sound, DictOK
  <2>6. StoreOK'
    BY <2>2, <2>3 DEF Sound, StoreOK, ThreadsOK
  <2> QED
    BY <2>4, <2>5, <2>6 DEF Sound
<1> QED
  BY <1>1, <1>2

\* A table read is one that the thread holds.
LEMMA Save1IsSound ==
  ASSUME Sound, NEW t \in Threads, Save1(t)
  PROVE  Sound'
<1>1. IsContents(objects[held[t]].store)
  BY DEF Sound, Save1, ThreadsOK, StoreOK, Holding, IsTable
<1>2. ThreadsOK'
  BY <1>1 DEF Sound, Save1, Goto, ThreadsOK, Holding, Saving, Places
<1>3. DictOK'
  BY DEF Sound, Save1, DictOK, dict
<1>4. StoreOK'
  BY DEF Sound, Save1, StoreOK, dict, store
<1> QED
  BY <1>2, <1>3, <1>4 DEF Sound

\* What nobody refers to is collected, and nothing else is.
LEMMA CollectKeeps ==
  ASSUME NEW live
  PROVE  /\ DOMAIN Collect(live) = Objects
         /\ \A i \in Objects \cap live : Collect(live)[i] = objects[i]
BY DEF Collect

\* Once the rows are read the thread lets its table go.
LEMMA Save2IsSound ==
  ASSUME Sound, NEW t \in Threads, Save2(t)
  PROVE  Sound'
<1>1. CASE DOMAIN rows[t] # DOMAIN objects[held[t]].store
  BY <1>1, RaiseIsSound DEF Save2
<1>2. CASE DOMAIN rows[t] = DOMAIN objects[held[t]].store
  <2>1. IsContents(objects[held[t]].store)
    BY DEF Sound, Save2, ThreadsOK, StoreOK, Holding, IsTable
  <2>2. IsContents(Rows(objects[held[t]].store))
    BY <2>1, RowsAreContents
  <2>3. /\ rows' = [rows EXCEPT ![t] = Rows(objects[held[t]].store)]
        /\ held' = [held EXCEPT ![t] = None]
        /\ objects' = Collect(Range(tables) \cup Range(held'))
        /\ at[t] = "gather" /\ at' = [at EXCEPT ![t] = "commit"]
        /\ UNCHANGED <<order, tables, disk, on, victim, write>>
    BY <1>2 DEF Save2, Goto, dict
  <2>4. ThreadsOK'
    BY <2>2, <2>3, NoneIsNoObject DEF Sound, ThreadsOK, Holding, Saving, Places
  <2>5. DictOK'
    BY <2>3 DEF Sound, DictOK
  <2>6. StoreOK'
    <3>1. /\ DOMAIN objects' = Objects
          /\ \A i \in Objects : i \in Range(tables) \cup Range(held') => objects'[i] = objects[i]
      BY <2>3, CollectKeeps
    <3>2. \A a \in DOMAIN tables : tables[a] \in Range(tables) /\ tables[a] \in Objects
      BY DEF Range, Sound, DictOK
    <3>3. \A u \in Threads : held'[u] # None => /\ held'[u] \in Range(held') /\ held'[u] \in Objects
                                                /\ held'[u] = held[u]
      BY <2>3 DEF Range, Sound, ThreadsOK
    <3> QED
      BY <2>3, <3>1, <3>2, <3>3 DEF Sound, StoreOK
  <2> QED
    BY <2>4, <2>5, <2>6 DEF Sound
<1> QED
  BY <1>1, <1>2

\* The rows of the victim go to its database.
LEMMA Save3IsSound ==
  ASSUME Sound, NEW t \in Threads, Save3(t)
  PROVE  Sound'
<1>1. IsContents(Upserted(disk[victim[t]], rows[t])) /\ victim[t] \in Adapters
  BY UpsertedIsContents DEF Sound, Save3, ThreadsOK, StoreOK, Saving
<1>2. ThreadsOK'
  BY DEF Sound, Save3, Goto, ThreadsOK, Holding, Saving, Places
<1>3. DictOK'
  BY DEF Sound, Save3, DictOK, dict
<1>4. StoreOK'
  BY <1>1 DEF Sound, Save3, StoreOK, dict
<1> QED
  BY <1>2, <1>3, <1>4 DEF Sound

\* A load fills an object that nothing referred to.
LEMMA LoadRowsIsSound ==
  ASSUME Sound, NEW t \in Threads, LoadRows(t)
  PROVE  Sound'
<1> DEFINE new == CHOOSE i \in Objects : i \notin Referred
<1>1. new \in Objects /\ new \notin Referred
  BY FreshObject DEF Sound, LoadRows, ThreadsOK, Holding
<1>2. /\ objects' = [Collect(Referred) EXCEPT ![new] = Load(disk[on[t]])]
      /\ held' = [held EXCEPT ![t] = new]
      /\ at[t] = "load" /\ at' = [at EXCEPT ![t] = "install"]
      /\ UNCHANGED <<order, tables, disk, on, victim, rows, write>>
  BY DEF LoadRows, Goto, dict
<1> HIDE DEF new
<1>3. ThreadsOK'
  BY <1>1, <1>2, NoneIsNoObject DEF Sound, ThreadsOK, Holding, Saving, Places
<1>4. DictOK'
  BY <1>2 DEF Sound, DictOK
<1>5. IsTable(Load(disk[on[t]]))
  BY <1>2, LoadIsTable DEF Sound, ThreadsOK, StoreOK
<1>6. /\ DOMAIN objects' = Objects /\ IsTable(objects'[new])
      /\ \A i \in Objects : i \in Referred => objects'[i] = objects[i]
  BY <1>1, <1>2, <1>5, CollectKeeps
<1>7. /\ \A a \in DOMAIN tables : tables[a] \in Referred /\ tables[a] \in Objects
      /\ \A u \in Threads : held[u] # None => held[u] \in Referred /\ held[u] \in Objects
  BY DEF Referred, Range, Sound, DictOK, ThreadsOK
<1>8. StoreOK'
  BY <1>2, <1>6, <1>7 DEF Sound, StoreOK, ThreadsOK
<1> QED
  BY <1>3, <1>4, <1>8 DEF Sound

\* The loaded table goes into the dict, under a name that may be there.
LEMMA InstallIsSound ==
  ASSUME Sound, NEW t \in Threads, Install(t)
  PROVE  Sound'
<1> DEFINE a == on[t]
<1>1. /\ at[t] = "install" /\ at' = [at EXCEPT ![t] = "mounted"]
      /\ order' = IF a \in DOMAIN tables THEN order ELSE Append(order, a)
      /\ tables' = [b \in DOMAIN tables \cup {a} |-> IF b = a THEN held[t] ELSE tables[b]]
      /\ UNCHANGED <<objects, disk, on, victim, held, rows, write>>
  BY DEF Install, Goto, store, locals
<1>2. a \in Adapters /\ held[t] \in Objects /\ IsTable(objects[held[t]])
  BY <1>1 DEF Sound, ThreadsOK, StoreOK, Holding
<1> HIDE DEF a
<1>3. ThreadsOK'
  BY <1>1 DEF Sound, ThreadsOK, Holding, Saving, Places
<1>4. Lists(order', DOMAIN tables')
  <2>1. CASE a \in DOMAIN tables
    <3>1. DOMAIN tables \cup {a} = DOMAIN tables
      BY <2>1
    <3> QED
      BY <1>1, <2>1, <3>1 DEF Sound, DictOK
  <2>2. CASE a \notin DOMAIN tables
    BY <1>1, <2>2, ListsAppend DEF Sound, DictOK
  <2> QED
    BY <2>1, <2>2
<1>5. DictOK'
  BY <1>1, <1>2, <1>4 DEF Sound, DictOK
<1>6. StoreOK'
  BY <1>1, <1>2 DEF Sound, StoreOK, DictOK
<1> QED
  BY <1>3, <1>5, <1>6 DEF Sound

\* A write puts into the object that the thread holds.
LEMMA PutMountedIsSound ==
  ASSUME Sound, NEW t \in Threads, PutMounted(t)
  PROVE  Sound'
<1> DEFINE k == write[t].key
           p == write[t].payload
<1>1. /\ at[t] = "mounted" /\ at' = [at EXCEPT ![t] = "idle"]
      /\ held' = [held EXCEPT ![t] = None]
      /\ write' = [write EXCEPT ![t] = Absent]
      /\ on' = [on EXCEPT ![t] = Absent]
      /\ write[t] # Absent
      /\ objects' = [i \in Objects |->
                       IF i \notin Range(tables) \cup Range(held') THEN Free
                       ELSE IF i = held[t] THEN Put(objects[i], k, p) ELSE objects[i]]
      /\ UNCHANGED <<order, tables, disk, victim, rows>>
  BY DEF PutMounted, Goto, dict, Prefetching, Busy
<1>2. held[t] \in Objects /\ IsTable(Put(objects[held[t]], k, p))
  <2>1. held[t] \in Objects /\ IsTable(objects[held[t]])
    BY <1>1 DEF Sound, ThreadsOK, StoreOK, Holding
  <2>2. k \in Keys /\ p \in Payload
    BY <1>1, RequestAssumption DEF Sound, ThreadsOK, Requests
  <2> QED
    BY <2>1, <2>2, PutIsTable
<1> HIDE DEF k, p
<1>3. ThreadsOK'
  BY <1>1, NoneIsNoObject DEF Sound, ThreadsOK, Holding, Saving, Places
<1>4. DictOK'
  BY <1>1 DEF Sound, DictOK
<1>5. StoreOK'
  <2>1. \A a \in DOMAIN tables : tables[a] \in Range(tables) /\ tables[a] \in Objects
    BY DEF Range, Sound, DictOK
  <2>2. \A u \in Threads : held'[u] # None => /\ held'[u] \in Range(held') /\ held'[u] \in Objects
                                              /\ held'[u] = held[u]
    BY <1>1 DEF Range, Sound, ThreadsOK
  <2>3. \A i \in Objects : i \in Range(tables) \cup Range(held') /\ IsTable(objects[i]) => IsTable(objects'[i])
    BY <1>1, <1>2
  <2>4. DOMAIN objects' = Objects
    BY <1>1
  <2> QED
    BY <1>1, <2>1, <2>2, <2>3, <2>4 DEF Sound, StoreOK
<1> QED
  BY <1>3, <1>4, <1>5 DEF Sound

\* A prefetch thread lets go of what mount returned.
LEMMA PrefetchedIsSound ==
  ASSUME Sound, NEW t \in Threads, Prefetched(t)
  PROVE  Sound'
<1>1. /\ at[t] = "mounted" /\ at' = [at EXCEPT ![t] = "finally"]
      /\ held' = [held EXCEPT ![t] = None]
      /\ objects' = Collect(Range(tables) \cup Range(held'))
      /\ write[t] = Absent
      /\ UNCHANGED <<order, tables, disk, on, victim, rows, write>>
  BY DEF Prefetched, Goto, dict, Prefetching
<1>2. ThreadsOK'
  BY <1>1, NoneIsNoObject DEF Sound, ThreadsOK, Holding, Saving, Places
<1>3. DictOK'
  BY <1>1 DEF Sound, DictOK
<1>4. StoreOK'
  <2>1. /\ DOMAIN objects' = Objects
        /\ \A i \in Objects : i \in Range(tables) \cup Range(held') => objects'[i] = objects[i]
    BY <1>1, CollectKeeps
  <2>2. \A a \in DOMAIN tables : tables[a] \in Range(tables) /\ tables[a] \in Objects
    BY DEF Range, Sound, DictOK
  <2>3. \A u \in Threads : held'[u] # None => /\ held'[u] \in Range(held') /\ held'[u] \in Objects
                                              /\ held'[u] = held[u]
    BY <1>1 DEF Range, Sound, ThreadsOK
  <2> QED
    BY <1>1, <2>1, <2>2, <2>3 DEF Sound, StoreOK
<1> QED
  BY <1>2, <1>3, <1>4 DEF Sound

\* The end of a prefetch touches no table.
LEMMA DiscardIsSound ==
  ASSUME Sound, NEW t \in Threads, Discard(t)
  PROVE  Sound'
<1>1. ThreadsOK'
  BY DEF Sound, Discard, Goto, ThreadsOK, Holding, Saving, Places
<1>2. DictOK'
  BY DEF Sound, Discard, DictOK, dict
<1>3. StoreOK'
  BY DEF Sound, Discard, StoreOK, dict, store
<1> QED
  BY <1>1, <1>2, <1>3 DEF Sound

\* Every step keeps the state sound.
LEMMA StepIsSound ==
  ASSUME Sound, [Next]_vars
  PROVE  Sound'
<1>1. CASE UNCHANGED vars
  BY <1>1 DEF vars, dict, store, locals, Sound, ThreadsOK, DictOK, StoreOK
<1>2. ASSUME NEW t \in Threads, Begins(t) \/ Work(t) PROVE Sound'
  BY <1>2, LookupIsSound, TouchIsSound, FetchIsSound, EvictIsSound, Save1IsSound, Save2IsSound,
     Save3IsSound, LoadRowsIsSound, InstallIsSound, PutMountedIsSound, PrefetchedIsSound,
     DiscardIsSound DEF Work, Mount
<1> QED
  BY <1>1, <1>2, StepOfOne

\* A manager is created with nothing in it and no thread at work.
LEMMA InitIsSound == Init => Sound
<1> SUFFICES ASSUME Init PROVE Sound
  OBVIOUS
<1>1. IsContents(NoRows)
  BY DEF IsContents, NoRows
<1>2. ThreadsOK
  BY DEF Init, ThreadsOK, Holding, Saving, Places
<1>3. DictOK
  BY ListsEmpty DEF Init, DictOK
<1>4. StoreOK
  BY <1>1 DEF Init, StoreOK
<1> QED
  BY <1>2, <1>3, <1>4 DEF Sound

\* The state is sound in every reachable state.
THEOREM Soundness == Spec => []Sound
BY InitIsSound, StepIsSound, PTL DEF Spec

----------------------------------------------------------------------------
(* _pending: the coordinator adds a name under its lock before the thread  *)
(* starts and takes it away in the thread's finally.                       *)

\* A step after which the same threads prefetch the same adapters.
LEMMA PendingKept ==
  ASSUME PendingIsRunning, pending' = pending,
         \A u \in Threads : Prefetching(u)' <=> Prefetching(u),
         \A u \in Threads : Prefetching(u) => on'[u] = on[u]
  PROVE  PendingIsRunning'
BY DEF PendingIsRunning

\* A request's payload is never taken for the mark of a prefetch.
LEMMA RequestIsNoMark == \A k \in Keys, p \in Payloads : [key |-> k, payload |-> p] # Absent
BY MarkAssumption

\* _pending stays true to the threads.
LEMMA PendingStep ==
  ASSUME Sound, PendingIsRunning, [Next]_vars
  PROVE  PendingIsRunning'
<1>1. CASE UNCHANGED vars
  BY <1>1 DEF vars, locals, PendingIsRunning, Prefetching, Busy
<1>2. ASSUME NEW t \in Threads, Begins(t) \/ Work(t) PROVE PendingIsRunning'
  <2> USE DEF Sound, ThreadsOK
  <2>1. ASSUME at[t] # "idle", at'[t] # "idle", \A u \in Threads \ {t} : at'[u] = at[u],
               UNCHANGED <<pending, on, write>>
        PROVE  PendingIsRunning'
    BY <2>1, PendingKept DEF Prefetching, Busy
  <2>2. ASSUME at[t] # "idle", Raise(t) PROVE PendingIsRunning'
    <3>1. CASE Prefetching(t)
      BY <2>2, <3>1, PendingKept DEF Raise, Goto, Prefetching, Busy
    <3>2. CASE ~Prefetching(t)
      BY <2>2, <3>2, PendingKept DEF Raise, Goto, Prefetching, Busy
    <3> QED
      BY <3>1, <3>2
  <2>3. CASE Mount(t)
    <3>1. CASE ~Raise(t)
      BY <2>1, <2>3, <3>1 DEF Mount, Lookup, Touch, Fetch, Room, Evict, Save1, Save2, Save3, LoadRows,
                              Install, Goto, locals
    <3>2. CASE Raise(t)
      BY <2>2, <2>3, <3>2 DEF Mount, Lookup, Touch, Fetch, Room, Evict, Save1, Save2, Save3, LoadRows,
                              Install
    <3> QED
      BY <3>1, <3>2
  <2>4. CASE Prefetched(t)
    BY <2>1, <2>4 DEF Prefetched, Goto
  <2>5. CASE PutMounted(t)
    BY <2>5, PendingKept DEF PutMounted, Goto, Prefetching, Busy
  <2>6. ASSUME NEW a \in Adapters, NEW k \in Keys, NEW p \in Payloads, WriteMemory(t, a, k, p)
        PROVE  PendingIsRunning'
    BY <2>6, PendingKept, RequestIsNoMark DEF WriteMemory, Start, Goto, Prefetching, Busy
  <2>7. ASSUME NEW a \in Adapters, Schedule(t, a) PROVE PendingIsRunning'
    <3>1. /\ \A u \in Threads \ {t} : (Prefetching(u)' <=> Prefetching(u)) /\ on'[u] = on[u]
          /\ Prefetching(t)' /\ on'[t] = a /\ ~Prefetching(t)
          /\ a \notin pending /\ pending' = pending \cup {a}
      BY <2>7 DEF Schedule, Start, Goto, Prefetching, Busy
    <3> QED
      BY <3>1 DEF PendingIsRunning
  <2>8. CASE Discard(t)
    <3>1. /\ \A u \in Threads \ {t} : (Prefetching(u)' <=> Prefetching(u)) /\ on'[u] = on[u]
          /\ Prefetching(t) /\ ~Prefetching(t)'
          /\ pending' = pending \ {on[t]}
      BY <2>8 DEF Discard, Goto, Prefetching, Busy
    <3> QED
      BY <3>1 DEF PendingIsRunning
  <2> QED
    BY <1>2, <2>3, <2>4, <2>5, <2>6, <2>7, <2>8 DEF Begins, Work
<1> QED
  BY <1>1, <1>2, StepOfOne

\* coordinator.py:128-160: a name is in _pending exactly while one thread is
\* prefetching it, whatever mount ran into and whoever else mounts.
THEOREM PendingIsTrue == Spec => []PendingIsRunning
<1>1. Init => PendingIsRunning
  BY DEF Init, PendingIsRunning, Prefetching, Busy
<1> QED
  BY <1>1, PendingStep, Soundness, PTL DEF Spec

----------------------------------------------------------------------------
(* Slots: what is in the dict, and what is on its way there.               *)

OnTheWay == {t \in Threads : at[t] \in {"save", "gather", "commit", "load", "install"}}

\* A set of threads has a size, and one that lacks a thread is not all.
LEMMA ThreadSets ==
  ASSUME NEW S \in SUBSET Threads
  PROVE  /\ Cardinality(S) \in Nat /\ Cardinality(Threads) \in Nat
         /\ \A t \in Threads \ S : /\ Cardinality(S \cup {t}) = Cardinality(S) + 1
                                  /\ Cardinality(S) + 1 <= Cardinality(Threads)
         /\ \A t \in S : Cardinality(S \ {t}) = Cardinality(S) - 1
<1>1. IsFiniteSet(S) /\ Cardinality(S) \in Nat /\ Cardinality(Threads) \in Nat
  BY ThreadAssumption, FS_Subset, FS_CardinalityType
<1>2. ASSUME NEW t \in Threads, t \notin S
      PROVE  Cardinality(S \cup {t}) = Cardinality(S) + 1 /\ Cardinality(S) + 1 <= Cardinality(Threads)
  <2>1. Cardinality(S \cup {t}) = Cardinality(S) + 1
    BY <1>1, <1>2, FS_AddElement
  <2>2. S \cup {t} \in SUBSET Threads
    OBVIOUS
  <2>3. Cardinality(S \cup {t}) <= Cardinality(Threads)
    BY <2>2, ThreadAssumption, FS_Subset
  <2> QED
    BY <2>1, <2>3
<1>3. ASSUME NEW t \in S
      PROVE  Cardinality(S \ {t}) = Cardinality(S) - 1
  BY <1>1, <1>3, FS_RemoveElement
<1> QED
  BY <1>1, <1>2, <1>3

\* Room lets a thread load only while there is a slot, an eviction frees one
\* first, and an insertion takes one table from its way into the dict.
LEMMA OverrunStep ==
  ASSUME Sound, Sound', OverrunIsBounded, [Next]_vars
  PROVE  OverrunIsBounded'
<1> DEFINE W == Cardinality(OnTheWay)
           T == Cardinality(Threads)
<1>1. OverrunIsBounded <=> Len(order) + W < MaxLoaded + T
  BY DEF OverrunIsBounded, OnTheWay
<1>2. OverrunIsBounded' <=> Len(order') + W' < MaxLoaded + T
  BY DEF OverrunIsBounded, OnTheWay
<1>3. Len(order) \in Nat /\ Len(order') \in Nat /\ W \in Nat /\ W' \in Nat /\ T \in Nat
      /\ MaxLoaded \in Nat
  <2>1. OnTheWay \in SUBSET Threads /\ OnTheWay' \in SUBSET Threads
    BY DEF OnTheWay
  <2>2. Len(order) \in Nat /\ Len(order') \in Nat
    BY LenProperties DEF Sound, DictOK, Lists
  <2> QED
    BY <2>1, <2>2, ThreadSets, MaxLoadedAssumption
<1>4. ASSUME NEW t \in Threads
      PROVE  /\ OnTheWay' = OnTheWay \cup {t} /\ t \notin OnTheWay => W' = W + 1 /\ W + 1 <= T
             /\ OnTheWay' = OnTheWay \ {t} /\ t \in OnTheWay => W' = W - 1
  <2>1. OnTheWay \in SUBSET Threads
    BY DEF OnTheWay
  <2> HIDE DEF OnTheWay
  <2> QED
    BY <2>1, ThreadSets
<1>5. Len(order) = Cardinality(DOMAIN tables) /\ Len(order') = Cardinality(DOMAIN tables')
  BY ListsCardinality DEF Sound, DictOK
<1>6. OnTheWay' = OnTheWay => W' = W
  OBVIOUS
<1> HIDE DEF W, T
<1>7. ASSUME Len(order') = Len(order), OnTheWay' = OnTheWay PROVE OverrunIsBounded'
  BY <1>1, <1>2, <1>6, <1>7
<1>8. CASE UNCHANGED vars
  BY <1>7, <1>8 DEF vars, dict, OnTheWay
<1>9. ASSUME NEW t \in Threads, Begins(t) \/ Work(t) PROVE OverrunIsBounded'
  <2> USE DEF Goto
  <2>1. at \in [Threads -> Places] /\ at' \in [Threads -> Places]
    BY DEF Sound, ThreadsOK
  <2>2. ASSUME Raise(t), at[t] \in {"touch", "fetch", "evict", "gather"} PROVE OverrunIsBounded'
    <3>1. order' = order
      BY <2>2 DEF Raise, dict
    <3>2. CASE at[t] = "gather"
      <4>1. OnTheWay' = OnTheWay \ {t} /\ t \in OnTheWay
        BY <2>1, <2>2, <3>2 DEF Raise, OnTheWay
      <4> QED
        BY <1>1, <1>2, <1>3, <1>4, <3>1, <4>1
    <3>3. CASE at[t] # "gather"
      BY <1>7, <2>1, <2>2, <3>1, <3>3 DEF Raise, OnTheWay
    <3> QED
      BY <3>2, <3>3
  <2>3. CASE Lookup(t) \/ Save1(t) \/ Save3(t) \/ LoadRows(t) \/ Begins(t)
             \/ PutMounted(t) \/ Prefetched(t) \/ Discard(t)
    <3>1. order' = order
      BY <2>3 DEF Lookup, Save1, Save3, LoadRows, Begins, WriteMemory, Schedule, Start, PutMounted,
                  Prefetched, Discard, dict
    <3>2. OnTheWay' = OnTheWay
      BY <2>1, <2>3 DEF Lookup, Save1, Save3, LoadRows, Begins, WriteMemory, Schedule, Start,
                        PutMounted, Prefetched, Discard, OnTheWay
    <3> QED
      BY <1>7, <3>1, <3>2
  <2>4. CASE Touch(t)
    <3>1. CASE on[t] \in DOMAIN tables
      <4>1. tables' = tables /\ OnTheWay' = OnTheWay
        BY <2>1, <2>4, <3>1 DEF Touch, OnTheWay
      <4> QED
        BY <1>5, <1>7, <4>1
    <3>2. CASE on[t] \notin DOMAIN tables
      BY <2>2, <2>4, <3>2 DEF Touch
    <3> QED
      BY <3>1, <3>2
  <2>5. CASE Fetch(t)
    <3>1. CASE on[t] \in DOMAIN tables
      BY <1>7, <2>1, <2>5, <3>1 DEF Fetch, dict, OnTheWay
    <3>2. CASE on[t] \notin DOMAIN tables
      BY <2>2, <2>5, <3>2 DEF Fetch
    <3> QED
      BY <3>1, <3>2
  <2>6. CASE Room(t)
    <3>1. order' = order /\ t \notin OnTheWay
      BY <2>6 DEF Room, dict, OnTheWay
    <3>2. CASE Len(order) >= MaxLoaded
      <4>1. OnTheWay' = OnTheWay
        BY <2>1, <2>6, <3>2 DEF Room, OnTheWay
      <4> QED
        BY <1>7, <3>1, <4>1
    <3>3. CASE ~(Len(order) >= MaxLoaded)
      <4>1. OnTheWay' = OnTheWay \cup {t}
        BY <2>1, <2>6, <3>3 DEF Room, OnTheWay
      <4> QED
        BY <1>2, <1>3, <1>4, <3>1, <3>3, <4>1
    <3> QED
      BY <3>2, <3>3
  <2>7. CASE Evict(t)
    <3>1. CASE order # <<>>
      <4>1. Len(order') = Len(order) - 1
        BY <2>7, <3>1, ListsPop DEF Evict, Sound, DictOK
      <4>2. OnTheWay' = OnTheWay \cup {t} /\ t \notin OnTheWay
        BY <2>1, <2>7, <3>1 DEF Evict, OnTheWay
      <4> QED
        BY <1>1, <1>2, <1>3, <1>4, <4>1, <4>2
    <3>2. CASE order = <<>>
      BY <2>2, <2>7, <3>2 DEF Evict
    <3> QED
      BY <3>1, <3>2
  <2>8. CASE Save2(t)
    <3>1. CASE DOMAIN rows[t] = DOMAIN objects[held[t]].store
      BY <1>7, <2>1, <2>8, <3>1 DEF Save2, dict, OnTheWay
    <3>2. CASE DOMAIN rows[t] # DOMAIN objects[held[t]].store
      BY <2>2, <2>8, <3>2 DEF Save2
    <3> QED
      BY <3>1, <3>2
  <2>9. CASE Install(t)
    <3>1. OnTheWay' = OnTheWay \ {t} /\ t \in OnTheWay
      BY <2>1, <2>9 DEF Install, OnTheWay
    <3>2. Len(order') <= Len(order) + 1
      <4>1. CASE on[t] \in DOMAIN tables
        BY <1>3, <2>9, <4>1 DEF Install
      <4>2. CASE on[t] \notin DOMAIN tables
        BY <1>3, <2>9, <4>2, ListsAppend DEF Install, Sound, DictOK
      <4> QED
        BY <4>1, <4>2
    <3> QED
      BY <1>1, <1>2, <1>3, <1>4, <3>1, <3>2
  <2> QED
    BY <1>9, <2>3, <2>4, <2>5, <2>6, <2>7, <2>8, <2>9 DEF Work, Mount
<1> QED
  BY <1>8, <1>9, StepOfOne

\* manager.py:58-72 under a race: each thread beyond the first costs one
\* slot at the most, however many threads there are.
THEOREM OverrunBounded == Spec => []OverrunIsBounded
<1>1. Init => OverrunIsBounded
  <2> SUFFICES ASSUME Init PROVE OverrunIsBounded
    OBVIOUS
  <2>1. Len(order) = 0 /\ OnTheWay = {}
    BY EmptySeq DEF Init, OnTheWay
  <2>2. Cardinality({}) = 0 /\ Cardinality(Threads) \in Nat /\ Cardinality(Threads) # 0
    BY ThreadAssumption, FS_EmptySet, FS_CardinalityType
  <2>3. Len(order) + Cardinality(OnTheWay) < MaxLoaded + Cardinality(Threads)
    BY <2>1, <2>2, MaxLoadedAssumption
  <2> QED
    BY <2>3 DEF OverrunIsBounded, OnTheWay
<1>2. Sound /\ Sound' /\ OverrunIsBounded /\ [Next]_vars => OverrunIsBounded'
  BY OverrunStep
<1> QED
  BY <1>1, <1>2, Soundness, PTL DEF Spec

\* References, dict and disk are well-formed in every reachable state.
THEOREM TypeCorrect == Spec => []TypeOK
<1>1. Sound /\ PendingIsRunning => TypeOK
  <2> SUFFICES ASSUME Sound, PendingIsRunning PROVE TypeOK
    OBVIOUS
  <2>1. pending \subseteq Adapters
    BY DEF PendingIsRunning, Prefetching, Busy, Sound, ThreadsOK
  <2>2. DOMAIN tables = ToSet(order) /\ Len(order) = Cardinality(DOMAIN tables)
    BY ListsCardinality DEF Sound, DictOK, Lists
  <2>3. ASSUME NEW i \in Referred \ {None}
        PROVE  i \in Objects /\ objects[i] # Free /\ IsTable(objects[i])
    <3>1. i \in Objects /\ IsTable(objects[i])
      BY <2>3 DEF Referred, Range, Sound, ThreadsOK, DictOK, StoreOK
    <3> QED
      BY <3>1, TableIsNotFree
  <2> QED
    BY <2>1, <2>2, <2>3 DEF TypeOK, Sound, ThreadsOK, StoreOK
<1> QED
  BY <1>1, Soundness, PendingIsTrue, PTL

----------------------------------------------------------------------------
(* Threads in turns.  As long as none has begun while another was at work, *)
(* a table is either reachable from the dict, with all that was written to *)
(* its adapter, or in the hands of the one thread at work.                 *)

\* contents have everything that was last written to a.
Written(contents, a) ==
  \A k \in DOMAIN last[a] : k \in DOMAIN contents /\ contents[k] = last[a][k]

LastOK == DOMAIN last = Adapters /\ \A a \in Adapters : \A k \in DOMAIN last[a] : last[a][k] \in Payloads

\* What a thread alone at work may take for granted at each place of mount.
InTurn(t) ==
  /\ at[t] \in {"touch", "fetch", "mounted"} => on[t] \in DOMAIN tables
  /\ at[t] = "mounted" => held[t] = tables[on[t]]
  /\ at[t] \in {"room", "evict", "save", "gather", "commit", "load", "install"} =>
       on[t] \notin DOMAIN tables
  /\ at[t] = "evict" => Len(order) >= MaxLoaded
  /\ at[t] \in {"save", "gather", "commit", "load", "install"} => Len(order) < MaxLoaded
  /\ at[t] \in Saving => victim[t] \notin DOMAIN tables
  /\ at[t] \in {"save", "gather", "install"} => \A a \in DOMAIN tables : tables[a] # held[t]
  /\ at[t] \in {"save", "gather"} => Written(objects[held[t]].store, victim[t])
  /\ at[t] = "gather" => rows[t] = objects[held[t]].store
  /\ at[t] = "commit" => Written(rows[t], victim[t])
  /\ at[t] = "install" => Written(objects[held[t]].store, on[t])

\* The adapters in RAM have tables of their own, and what was written is
\* where the next mount finds it, or with the thread that saves it.
InTurns ==
  /\ \A t, u \in Busy : t = u
  /\ Len(order) <= MaxLoaded
  /\ \A a, b \in DOMAIN tables : tables[a] = tables[b] => a = b
  /\ \A t \in Busy : InTurn(t)
  /\ \A a \in Adapters : \/ Written(Visible(a), a)
                         \/ \E t \in Busy : at[t] \in Saving /\ victim[t] = a

Turns == LastOK /\ (~raced => InTurns)

\* A payload of a request comes back from the disk as it was written.
LEMMA RowOfRequest == \A p \in Payloads : Row(p) = p
BY RequestAssumption DEF Row, Payload

\* What the next mount finds depends on the dict, the tables in it and the
\* databases.
LEMMA VisibleKept ==
  ASSUME tables' = tables, disk' = disk,
         \A a \in DOMAIN tables : objects'[tables[a]] = objects[tables[a]]
  PROVE  \A a : Visible(a)' = Visible(a)
BY DEF Visible

\* A step of the one thread at work that leaves all written data where it is.
LEMMA TurnGoesOn ==
  ASSUME Sound, Sound', InTurns, NEW t \in Threads, at[t] # "idle",
         \A u \in Threads \ {t} : at'[u] = at[u],
         UNCHANGED <<tables, disk, last>>,
         \A a \in DOMAIN tables : objects'[tables[a]] = objects[tables[a]],
         at'[t] # "idle" => InTurn(t)',
         at[t] \in Saving => at'[t] \in Saving /\ victim'[t] = victim[t]
  PROVE  InTurns'
<1>1. Busy' \subseteq {t} /\ Busy = {t}
  BY DEF Busy, InTurns
<1>2. Len(order') = Len(order)
  BY ListsCardinality DEF Sound, DictOK
<1>3. \A a : Visible(a)' = Visible(a)
  BY VisibleKept
<1>4. \A a \in Adapters : \/ Written(Visible(a), a)'
                         \/ \E u \in Busy' : at'[u] \in Saving /\ victim'[u] = a
  <2> SUFFICES ASSUME NEW a \in Adapters, ~ Written(Visible(a), a)'
               PROVE  \E u \in Busy' : at'[u] \in Saving /\ victim'[u] = a
    OBVIOUS
  <2>1. ~ Written(Visible(a), a)
    BY <1>3 DEF Written
  <2>2. at[t] \in Saving /\ victim[t] = a
    BY <1>1, <2>1 DEF InTurns
  <2> QED
    BY <2>2 DEF Busy, Saving
<1>5. \A u \in Busy' : InTurn(u)'
  BY <1>1 DEF Busy
<1> QED
  BY <1>1, <1>2, <1>4, <1>5 DEF InTurns

\* The steps of mount that only look.
LEMMA LookInTurn ==
  ASSUME Sound, Sound', InTurns, NEW t \in Threads, Lookup(t) \/ Room(t) \/ Save1(t)
  PROVE  InTurns'
<1>1. at[t] # "idle" /\ t \in Busy /\ InTurn(t) /\ at \in [Threads -> Places]
      /\ (at[t] \notin Saving => Len(order) \in Nat /\ MaxLoaded \in Nat)
  BY MaxLoadedAssumption, LenProperties
     DEF Lookup, Room, Save1, Busy, InTurns, Sound, ThreadsOK, DictOK, Lists
<1>2. UNCHANGED <<order, tables, objects, disk, last, on, victim, held>>
  BY DEF Lookup, Room, Save1, dict, store, locals, history
<1>3. at'[t] # "idle" => InTurn(t)'
  BY <1>1, <1>2 DEF Lookup, Room, Save1, Goto, InTurn, Saving, Written, Sound, ThreadsOK, locals
<1> QED
  BY <1>1, <1>2, <1>3, TurnGoesOn DEF Lookup, Room, Save1, Goto, Saving

\* A hit: the name is still in the dict at each of the two accesses.
LEMMA HitInTurn ==
  ASSUME Sound, Sound', InTurns, NEW t \in Threads, Touch(t) \/ Fetch(t)
  PROVE  InTurns'
<1>1. at[t] # "idle" /\ t \in Busy /\ InTurn(t) /\ on[t] \in DOMAIN tables /\ at[t] \notin Saving
  BY DEF Touch, Fetch, Busy, InTurns, InTurn, Saving
<1>2. UNCHANGED <<tables, objects, disk, last, on, victim, rows>>
  BY <1>1 DEF Touch, Fetch, dict, store, locals, history
<1>3. at'[t] # "idle" => InTurn(t)'
  BY <1>1, <1>2 DEF Touch, Fetch, Goto, InTurn, Saving, Sound, ThreadsOK, locals
<1>4. \A u \in Threads \ {t} : at'[u] = at[u]
  BY <1>1 DEF Touch, Fetch, Goto, Sound, ThreadsOK
<1> QED
  BY <1>1, <1>2, <1>3, <1>4, TurnGoesOn

\* The least recently used table is popped: only its thread has it now.
LEMMA EvictInTurn ==
  ASSUME Sound, Sound', InTurns, NEW t \in Threads, Evict(t)
  PROVE  InTurns'
<1> DEFINE v == Head(order)
<1>1. at[t] = "evict" /\ t \in Busy /\ InTurn(t) /\ Len(order) >= MaxLoaded
      /\ at \in [Threads -> Places]
  BY DEF Evict, Busy, InTurns, InTurn, Sound, ThreadsOK
<1>2. order # <<>> /\ Len(order) \in Nat
  BY <1>1, MaxLoadedAssumption, EmptySeq, LenProperties DEF Sound, DictOK, Lists
<1>3. v \in DOMAIN tables /\ Len(Tail(order)) = Len(order) - 1 /\ v \in Adapters
  BY <1>2, ListsPop DEF Sound, DictOK
<1>4. /\ order' = Tail(order)
      /\ tables' = [a \in DOMAIN tables \ {v} |-> tables[a]]
      /\ victim' = [victim EXCEPT ![t] = v]
      /\ held' = [held EXCEPT ![t] = tables[v]]
      /\ at' = [at EXCEPT ![t] = "save"]
      /\ UNCHANGED <<objects, disk, on, rows, last>>
  BY <1>2 DEF Evict, Goto, Restrict, store, history
<1>5. Busy' = {t} /\ Busy = {t} /\ at'[t] = "save" /\ victim'[t] = v /\ held'[t] = tables[v]
      /\ on'[t] = on[t]
  BY <1>1, <1>4 DEF Busy, InTurns, Sound, ThreadsOK
<1>6. \A a \in Adapters : Written(Visible(a), a)
  BY <1>1, <1>5 DEF InTurns, Saving
<1> HIDE DEF v
<1>7. Len(order') <= MaxLoaded /\ Len(order') < MaxLoaded
  BY <1>2, <1>3, <1>4, MaxLoadedAssumption DEF InTurns
<1>8. \A a, b \in DOMAIN tables' : tables'[a] = tables'[b] => a = b
  BY <1>4 DEF InTurns
<1>9. \A a \in DOMAIN tables' : tables'[a] # held'[t]
  BY <1>3, <1>4, <1>5 DEF InTurns
<1>10. Written(objects[tables[v]].store, v)
  BY <1>3, <1>6 DEF Visible
<1>11. InTurn(t)'
  <2>1. on[t] \notin DOMAIN tables
    BY <1>1 DEF InTurn
  <2>2. Written(objects[held[t]].store, victim[t])'
    BY <1>4, <1>5, <1>10 DEF Written
  <2> QED
    BY <1>4, <1>5, <1>7, <1>9, <2>1, <2>2 DEF InTurn
<1>12. \A a \in Adapters : Written(Visible(a), a)' \/ (at'[t] \in Saving /\ victim'[t] = a)
  <2> SUFFICES ASSUME NEW a \in Adapters, a # v PROVE Written(Visible(a), a)'
    BY <1>5 DEF Saving
  <2>1. Visible(a)' = Visible(a)
    BY <1>4 DEF Visible
  <2> QED
    BY <1>4, <1>6, <2>1 DEF Written
<1> QED
  BY <1>5, <1>7, <1>8, <1>11, <1>12 DEF InTurns

\* The rows gathered are all that was in the table.
LEMMA GatherInTurn ==
  ASSUME Sound, Sound', LastOK, InTurns, NEW t \in Threads, Save2(t)
  PROVE  InTurns'
<1>1. at[t] = "gather" /\ t \in Busy /\ InTurn(t) /\ at \in [Threads -> Places]
  BY DEF Save2, Busy, InTurns, Sound, ThreadsOK
<1>2. rows[t] = objects[held[t]].store /\ Written(rows[t], victim[t]) /\ victim[t] \in Adapters
  BY <1>1 DEF InTurn, Sound, ThreadsOK, Saving
<1>3. /\ rows' = [rows EXCEPT ![t] = Rows(rows[t])]
      /\ objects' = Collect(Range(tables) \cup Range(held'))
      /\ at' = [at EXCEPT ![t] = "commit"]
      /\ UNCHANGED <<order, tables, disk, last, on, victim>>
  BY <1>2 DEF Save2, Goto, dict, history
<1>4. \A a \in DOMAIN tables : objects'[tables[a]] = objects[tables[a]]
  BY <1>3, CollectKeeps DEF Range, Sound, DictOK
<1>5. Written(Rows(rows[t]), victim[t])
  BY <1>2, RowOfRequest DEF Written, Rows, LastOK
<1>6. at'[t] = "commit" /\ rows'[t] = Rows(rows[t]) /\ victim'[t] = victim[t] /\ on'[t] = on[t]
  BY <1>1, <1>3 DEF Sound, ThreadsOK
<1>7. InTurn(t)'
  <2>1. Written(rows[t], victim[t])'
    BY <1>3, <1>5, <1>6 DEF Written
  <2> QED
    BY <1>1, <1>3, <1>6, <2>1 DEF InTurn, Saving
<1> QED
  BY <1>1, <1>3, <1>4, <1>6, <1>7, TurnGoesOn DEF Saving

\* Once committed the victim's memories are where its next mount finds them.
LEMMA CommitInTurn ==
  ASSUME Sound, Sound', InTurns, NEW t \in Threads, Save3(t)
  PROVE  InTurns'
<1> DEFINE v == victim[t]
<1>1. at[t] = "commit" /\ t \in Busy /\ InTurn(t) /\ at \in [Threads -> Places] /\ v \in Adapters
  BY DEF Save3, Busy, InTurns, Sound, ThreadsOK, Saving
<1>2. /\ disk' = [disk EXCEPT ![v] = Upserted(disk[v], rows[t])]
      /\ at' = [at EXCEPT ![t] = "load"]
      /\ UNCHANGED <<order, tables, objects, last, on, held>>
  BY DEF Save3, Goto, dict, history
<1>3. Busy' = {t} /\ Busy = {t} /\ at'[t] = "load"
  BY <1>1, <1>2 DEF Busy, InTurns, Sound, ThreadsOK
<1>4. v \notin DOMAIN tables /\ Written(rows[t], v)
  BY <1>1 DEF InTurn, Saving
<1> HIDE DEF v
<1>5. Written(disk'[v], v)
  BY <1>1, <1>2, <1>4 DEF Written, Upserted, Sound, StoreOK
<1>6. InTurn(t)'
  BY <1>1, <1>2, <1>3 DEF InTurn, Saving
<1>7. ASSUME NEW a \in Adapters PROVE Written(Visible(a), a)'
  <2>1. CASE a = v
    BY <1>2, <1>4, <1>5, <2>1 DEF Visible, Written
  <2>2. CASE a # v
    <3>1. Written(Visible(a), a)
      BY <1>3, <2>2 DEF InTurns, v
    <3>2. Visible(a)' = Visible(a)
      BY <1>2, <2>2 DEF Visible, Sound, StoreOK
    <3> QED
      BY <1>2, <3>1, <3>2 DEF Written
  <2> QED
    BY <2>1, <2>2
<1> QED
  BY <1>2, <1>3, <1>6, <1>7 DEF InTurns

\* A load finds the memories where the last save left them.
LEMMA LoadInTurn ==
  ASSUME Sound, Sound', InTurns, NEW t \in Threads, LoadRows(t)
  PROVE  InTurns'
<1> DEFINE new == CHOOSE i \in Objects : i \notin Referred
<1>1. at[t] = "load" /\ t \in Busy /\ InTurn(t) /\ at \in [Threads -> Places]
      /\ on[t] \in Adapters /\ Busy = {t} /\ on[t] \notin DOMAIN tables
  BY DEF LoadRows, Busy, InTurns, InTurn, Sound, ThreadsOK
<1>2. new \in Objects /\ new \notin Referred
  BY <1>1, FreshObject DEF Sound, ThreadsOK, Holding
<1>3. /\ objects' = [Collect(Referred) EXCEPT ![new] = Load(disk[on[t]])]
      /\ held' = [held EXCEPT ![t] = new]
      /\ at' = [at EXCEPT ![t] = "install"]
      /\ UNCHANGED <<order, tables, disk, last, on, victim>>
  BY DEF LoadRows, Goto, dict, history
<1> HIDE DEF new
<1>4. \A a \in DOMAIN tables : tables[a] # new /\ tables[a] \in Objects /\ tables[a] \in Referred
  BY <1>2 DEF Referred, Range, Sound, DictOK
<1>5. \A a \in DOMAIN tables : objects'[tables[a]] = objects[tables[a]]
  BY <1>3, <1>4, CollectKeeps
<1>6. objects'[new].store = disk[on[t]]
  BY <1>2, <1>3, CollectKeeps DEF Load
<1>7. Written(disk[on[t]], on[t])
  <2>1. Written(Visible(on[t]), on[t])
    BY <1>1 DEF InTurns, Saving
  <2> QED
    BY <1>1, <2>1 DEF Visible
<1>8. at'[t] = "install" /\ held'[t] = new /\ \A u \in Threads \ {t} : at'[u] = at[u]
  BY <1>1, <1>3 DEF Sound, ThreadsOK
<1>9. InTurn(t)'
  <2>1. Written(objects[held[t]].store, on[t])'
    BY <1>3, <1>6, <1>7, <1>8 DEF Written
  <2>2. Len(order) < MaxLoaded
    BY <1>1 DEF InTurn
  <2> QED
    BY <1>1, <1>3, <1>4, <1>8, <2>1, <2>2 DEF InTurn, Saving
<1> QED
  BY <1>1, <1>3, <1>5, <1>8, <1>9, TurnGoesOn DEF Saving

\* The table goes into the dict with all that was written to its adapter.
LEMMA InstallInTurn ==
  ASSUME Sound, Sound', InTurns, NEW t \in Threads, Install(t)
  PROVE  InTurns'
<1> DEFINE a == on[t]
<1>1. at[t] = "install" /\ t \in Busy /\ InTurn(t) /\ at \in [Threads -> Places]
      /\ a \in Adapters /\ Busy = {t} /\ a \notin DOMAIN tables
  BY DEF Install, Busy, InTurns, InTurn, Sound, ThreadsOK
<1>2. /\ order' = Append(order, a)
      /\ tables' = [b \in DOMAIN tables \cup {a} |-> IF b = a THEN held[t] ELSE tables[b]]
      /\ at' = [at EXCEPT ![t] = "mounted"]
      /\ UNCHANGED <<objects, disk, last, on, victim, held, rows>>
  BY <1>1 DEF Install, Goto, store, locals, history
<1>3. /\ \A b \in DOMAIN tables : tables[b] # held[t]
      /\ Written(objects[held[t]].store, a) /\ Len(order) < MaxLoaded
      /\ Len(order) \in Nat
  BY <1>1, LenProperties DEF InTurn, Sound, DictOK, Lists
<1>4. Len(order') <= MaxLoaded
  BY <1>1, <1>2, <1>3, ListsAppend, MaxLoadedAssumption DEF Sound, DictOK
<1>5. Busy' = {t} /\ at'[t] = "mounted"
  BY <1>1, <1>2 DEF Busy, Sound, ThreadsOK
<1> HIDE DEF a
<1>6. \A b, c \in DOMAIN tables' : tables'[b] = tables'[c] => b = c
  BY <1>2, <1>3 DEF InTurns
<1>7. InTurn(t)'
  BY <1>2, <1>5 DEF InTurn, Saving, a
<1>8. ASSUME NEW b \in Adapters PROVE Written(Visible(b), b)'
  <2>1. CASE b = a
    BY <1>2, <1>3, <2>1 DEF Visible, Written
  <2>2. CASE b # a
    <3>1. Written(Visible(b), b)
      BY <1>1 DEF InTurns, Saving
    <3>2. Visible(b)' = Visible(b)
      BY <1>2, <2>2 DEF Visible
    <3> QED
      BY <1>2, <3>1, <3>2 DEF Written
  <2> QED
    BY <2>1, <2>2
<1> QED
  BY <1>4, <1>5, <1>6, <1>7, <1>8 DEF InTurns

\* What was last written is what a request brought.
LEMMA LastStep ==
  ASSUME Sound, LastOK, NEW t \in Threads, PutMounted(t)
  PROVE  LastOK'
<1>1. write[t].payload \in Payloads
  BY DEF PutMounted, Prefetching, Busy, Sound, ThreadsOK, Requests
<1>2. last' = [last EXCEPT ![on[t]] = With(last[on[t]], write[t].key, write[t].payload)]
  BY DEF PutMounted
<1> QED
  BY <1>1, <1>2 DEF LastOK, With

\* put writes into the table that the dict has for the adapter.
LEMMA PutInTurn ==
  ASSUME Sound, Sound', LastOK, InTurns, NEW t \in Threads, PutMounted(t)
  PROVE  InTurns'
<1> DEFINE a == on[t]
           k == write[t].key
           p == write[t].payload
           new == Put(objects[held[t]], k, p)
<1>1. at[t] = "mounted" /\ t \in Busy /\ InTurn(t) /\ at \in [Threads -> Places]
      /\ a \in Adapters /\ Busy = {t} /\ a \in DOMAIN tables /\ held[t] = tables[a]
  BY DEF PutMounted, Busy, InTurns, InTurn, Sound, ThreadsOK
<1>2. /\ at' = [at EXCEPT ![t] = "idle"]
      /\ held' = [held EXCEPT ![t] = None]
      /\ objects' = [i \in Objects |->
                       IF i \notin Range(tables) \cup Range(held') THEN Free
                       ELSE IF i = held[t] THEN Put(objects[i], k, p) ELSE objects[i]]
      /\ last' = [last EXCEPT ![a] = With(last[a], k, p)]
      /\ UNCHANGED <<order, tables, disk>>
  BY DEF PutMounted, Goto, dict
<1>3. Busy' = {}
  BY <1>1, <1>2 DEF Busy, Sound, ThreadsOK
<1>4. \A b \in DOMAIN tables : objects'[tables[b]] = IF b = a THEN new ELSE objects[tables[b]]
  <2>1. \A b \in DOMAIN tables : tables[b] \in Objects /\ tables[b] \in Range(tables)
    BY DEF Range, Sound, DictOK
  <2>2. \A b \in DOMAIN tables : tables[b] = held[t] <=> b = a
    BY <1>1 DEF InTurns
  <2> QED
    BY <1>2, <2>1, <2>2
<1>5. new.store = With(objects[tables[a]].store, k, p)
  BY <1>1 DEF Put
<1> HIDE DEF a, k, p, new
<1>6. last'[a] = With(last[a], k, p) /\ \A b \in Adapters \ {a} : last'[b] = last[b]
  BY <1>1, <1>2 DEF LastOK
<1>7. \A b \in Adapters : Written(Visible(b), b)
  BY <1>1 DEF InTurns, Saving
<1>8. ASSUME NEW b \in Adapters PROVE Written(Visible(b), b)'
  <2>1. CASE b = a
    <3>1. Visible(b) = objects[tables[a]].store
      BY <1>1, <2>1 DEF Visible
    <3>2. Visible(b)' = With(objects[tables[a]].store, k, p)
      BY <1>1, <1>2, <1>4, <1>5, <2>1 DEF Visible
    <3> QED
      BY <1>6, <1>7, <2>1, <3>1, <3>2 DEF Written, With
  <2>2. CASE b # a
    <3>1. \A c \in DOMAIN tables : c # a => objects'[tables[c]] = objects[tables[c]]
      BY <1>4
    <3>2. tables' = tables /\ disk' = disk
      BY <1>2
    <3>3. Visible(b)' = Visible(b)
      BY <2>2, <3>1, <3>2 DEF Visible
    <3> QED
      BY <1>6, <1>7, <2>2, <3>3 DEF Written
  <2> QED
    BY <2>1, <2>2
<1> QED
  BY <1>2, <1>3, <1>8 DEF InTurns

\* A prefetch ends: what it mounted is in the dict.
LEMMA PrefetchInTurn ==
  ASSUME Sound, Sound', InTurns, NEW t \in Threads, Prefetched(t) \/ Discard(t)
  PROVE  InTurns'
<1>1. at[t] \in {"mounted", "finally"} /\ at \in [Threads -> Places]
  BY DEF Prefetched, Discard, Sound, ThreadsOK
<1>2. UNCHANGED <<order, tables, disk, last>> /\ at'[t] \in {"finally", "idle"}
      /\ \A u \in Threads \ {t} : at'[u] = at[u]
  BY <1>1 DEF Prefetched, Discard, Goto, dict, store, history
<1>3. \A a \in DOMAIN tables : objects'[tables[a]] = objects[tables[a]]
  BY CollectKeeps DEF Prefetched, Discard, store, Range, Sound, DictOK
<1>4. at'[t] # "idle" => InTurn(t)'
  BY <1>2 DEF InTurn, Saving
<1> QED
  BY <1>1, <1>2, <1>3, <1>4, TurnGoesOn DEF Saving

\* A call that begins alone finds everything written in its place.
LEMMA BeginInTurn ==
  ASSUME Sound, Sound', Turns, NEW t \in Threads, Begins(t), ~raced'
  PROVE  InTurns'
<1>1. UNCHANGED <<order, tables, objects, disk, last>> /\ at' = [at EXCEPT ![t] = "lookup"]
      /\ raced' = (raced \/ Busy # {})
  BY DEF Begins, WriteMemory, Schedule, Start, Goto, dict, store
<1>2. Busy = {} /\ InTurns
  BY <1>1 DEF Turns
<1>3. Busy' = {t} /\ at'[t] = "lookup"
  BY <1>1, <1>2 DEF Busy, Sound, ThreadsOK
<1>4. InTurn(t)'
  BY <1>3 DEF InTurn, Saving
<1>5. \A a \in Adapters : Written(Visible(a), a)'
  BY <1>1, <1>2 DEF InTurns, Visible, Written
<1> QED
  BY <1>1, <1>2, <1>3, <1>4, <1>5 DEF InTurns

\* Every step keeps the threads in their turns, until two of them race.
LEMMA TurnsStep ==
  ASSUME Sound, Sound', Turns, [Next]_vars
  PROVE  Turns'
<1>1. CASE UNCHANGED vars
  BY <1>1 DEF vars, dict, store, locals, history, Turns, LastOK, InTurns, InTurn, Busy, Written, Visible
<1>2. ASSUME NEW t \in Threads, Begins(t) PROVE Turns'
  <2>1. last' = last
    BY <1>2 DEF Begins, WriteMemory, Schedule
  <2> QED
    BY <1>2, <2>1, BeginInTurn DEF Turns, LastOK
<1>3. ASSUME NEW t \in Threads, PutMounted(t) PROVE Turns'
  <2>1. raced' = raced
    BY <1>3 DEF PutMounted
  <2> QED
    BY <1>3, <2>1, LastStep, PutInTurn DEF Turns
<1>4. ASSUME NEW t \in Threads, Mount(t) \/ Prefetched(t) \/ Discard(t) PROVE Turns'
  <2>1. last' = last /\ raced' = raced
    BY <1>4 DEF Mount, Lookup, Touch, Fetch, Room, Evict, Save1, Save2, Save3, LoadRows, Install,
                Prefetched, Discard, Raise, history
  <2>2. InTurns => InTurns'
    BY <1>4, LookInTurn, HitInTurn, EvictInTurn, GatherInTurn, CommitInTurn, LoadInTurn,
       InstallInTurn, PrefetchInTurn DEF Mount, Turns
  <2> QED
    BY <2>1, <2>2 DEF Turns, LastOK
<1> QED
  BY <1>1, <1>2, <1>3, <1>4, StepOfOne DEF Work

\* coordinator.py:24-26 for threads that take turns: as long as none began
\* while another was at work, prefetching loses no write and costs no slot.
THEOREM TurnsAreSafe == Spec => []SafeInTurns
<1>1. Init => Turns
  <2> SUFFICES ASSUME Init PROVE Turns
    OBVIOUS
  <2>1. Busy = {} /\ Len(order) <= MaxLoaded
    BY MaxLoadedAssumption, EmptySeq DEF Init, Busy
  <2>2. LastOK /\ \A a \in Adapters : Written(Visible(a), a)
    BY DEF Init, LastOK, Written, NoRows
  <2>3. \A a, b \in DOMAIN tables : tables[a] = tables[b] => a = b
    BY DEF Init
  <2> QED
    BY <2>1, <2>2, <2>3 DEF Turns, InTurns
<1>2. Sound /\ Sound' /\ Turns /\ [Next]_vars => Turns'
  BY TurnsStep
<1>3. Turns => SafeInTurns
  BY DEF Turns, InTurns, SafeInTurns, AllWritesVisible, Written, ValueAt
<1> QED
  BY <1>1, <1>2, <1>3, Soundness, PTL DEF Spec
=============================================================================
