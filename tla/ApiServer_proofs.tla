-------------------------- MODULE ApiServer_proofs ---------------------------
(***************************************************************************)
(* Proofs about the HTTP server (ApiServer) and about the databases it     *)
(* shares with a bridge of the MCP server (SharedDatabases).               *)
(***************************************************************************)
EXTENDS SharedDatabases, EngRamManager_proofs

----------------------------------------------------------------------------
(* What no method does: take a row out of a database.                      *)

Grows(st, t) == \A a \in Adapters : DOMAIN st.disk[a] \subseteq DOMAIN t.disk[a]

\* An outcome of a method that began in st.
Proper(st, o) == o.ok \in BOOLEAN /\ SoundSt(o.st) /\ Grows(st, o.st)

\* Databases that grow in two steps grow.
LEMMA GrowsOnward ==
  ASSUME NEW r, NEW st, NEW t, Grows(r, st), Grows(st, t)
  PROVE  Grows(r, t)
BY DEF Grows

\* A table that is given up keeps its database as it is, or adds to it.
LEMMA EffectGrows ==
  ASSUME NEW st, NEW t, KeptOrSaved(st, t, Adapters) \/ Failed(st, t)
  PROVE  Grows(st, t)
<1>1. ASSUME NEW a \in Adapters, Kept(st, t, a) \/ Saved(st, t, a) \/ Lost(st, t, a)
      PROVE  DOMAIN st.disk[a] \subseteq DOMAIN t.disk[a]
  BY <1>1 DEF Kept, Saved, Lost, Upserted
<1>2. \A a \in Adapters : Kept(st, t, a) \/ Saved(st, t, a) \/ Lost(st, t, a)
  BY DEF KeptOrSaved, Failed
<1> QED
  BY <1>1, <1>2 DEF Grows

\* mount: if it raises, there is no table of the adapter in RAM.
LEMMA MountProper ==
  ASSUME NEW st, SoundSt(st), NEW a \in Adapters, NEW m \in Mount(st, a)
  PROVE  /\ Proper(st, m)
         /\ m.ok => a \in DOMAIN m.st.tables
         /\ ~m.ok => a \notin DOMAIN m.st.tables
<1>1. /\ m.ok \in BOOLEAN /\ SoundSt(m.st)
      /\ m.ok => a \in DOMAIN m.st.tables /\ Kept(st, m.st, a) /\ KeptOrSaved(st, m.st, Adapters \ {a})
      /\ ~m.ok => Failed(st, m.st)
  BY MountEffect
<1>2. Grows(st, m.st)
  BY <1>1, EffectGrows DEF KeptOrSaved
<1>3. ASSUME NEW s, NEW o \in LoadTable(s, a), ~o.ok PROVE o.st = s
  BY <1>3 DEF LoadTable, Returns, Raises
<1>4. ASSUME ~m.ok PROVE a \notin DOMAIN m.st.tables
  <2>1. a \notin DOMAIN st.tables
    BY <1>4 DEF Mount, Returns
  <2>2. CASE m \in LoadTable(st, a)
    BY <1>3, <1>4, <2>1, <2>2
  <2>3. CASE Len(st.order) >= MaxLoaded /\ m \in AndThen(EvictLru(st), LAMBDA s : LoadTable(s, a))
    <3> DEFINE v == Head(st.order)
    <3>1. v \in DOMAIN st.tables
      BY <2>3, SoundStFacts, MaxLoadedAssumption
    <3>2. \A o \in EvictLru(st) : DOMAIN o.st.tables = DOMAIN st.tables \ {v}
      BY <3>1, DropAndSaveEffect DEF EvictLru
    <3>3. \/ m \in EvictLru(st)
          \/ \E o \in EvictLru(st) : m \in LoadTable(o.st, a)
      BY <2>3 DEF AndThen
    <3> HIDE DEF v
    <3> QED
      BY <1>3, <1>4, <2>1, <3>2, <3>3
  <2> QED
    BY <2>1, <2>2, <2>3 DEF Mount
<1> QED
  BY <1>1, <1>2, <1>4 DEF Proper

\* mount, and then a change to the table.
ChangesOne(st, a, o) ==
  \E m \in Mount(st, a) :
    \/ ~m.ok /\ o = m
    \/ m.ok /\ \E table : IsTable(table) /\ o = Returns([m.st EXCEPT !.tables[a] = table])

\* A call that changes one table is proper, and has its table in RAM iff it
\* returned.
LEMMA ChangesOneProper ==
  ASSUME NEW st, SoundSt(st), NEW a \in Adapters, NEW o, ChangesOne(st, a, o)
  PROVE  /\ Proper(st, o)
         /\ o.ok => a \in DOMAIN o.st.tables
         /\ ~o.ok => a \notin DOMAIN o.st.tables
<1>1. PICK m \in Mount(st, a) :
        \/ ~m.ok /\ o = m
        \/ m.ok /\ \E table : IsTable(table) /\ o = Returns([m.st EXCEPT !.tables[a] = table])
  BY DEF ChangesOne
<1>2. Proper(st, m) /\ (m.ok => a \in DOMAIN m.st.tables) /\ (~m.ok => a \notin DOMAIN m.st.tables)
  BY MountProper
<1>3. CASE ~m.ok /\ o = m
  BY <1>2, <1>3
<1>4. ASSUME NEW table, m.ok, IsTable(table), NEW t, t = [m.st EXCEPT !.tables[a] = table],
             o = Returns(t)
      PROVE  Proper(st, o) /\ o.ok /\ a \in DOMAIN o.st.tables
  <2>1. SoundSt(t) /\ \A b \in Adapters : t.disk[b] = m.st.disk[b]
    BY <1>2, <1>4, ChangeTable DEF Proper
  <2>2. a \in DOMAIN t.tables
    BY <1>2, <1>4 DEF Proper, SoundSt
  <2>3. o.ok = TRUE /\ o.st = t
    BY <1>4 DEF Returns
  <2> QED
    BY <1>2, <2>1, <2>2, <2>3 DEF Proper, Grows
<1> QED
  BY <1>1, <1>3, <1>4

\* A table that is in RAM once mounted, and sound.
LEMMA MountedTable ==
  ASSUME NEW st, SoundSt(st), NEW a \in Adapters, NEW m \in Mount(st, a), m.ok
  PROVE  IsTable(m.st.tables[a])
BY MountProper DEF Proper, SoundSt

----------------------------------------------------------------------------
(* What requests and packets do to a table.                                *)

\* The clamps of an update and the limit of a boost are numbers.
LEMMA MinMaxOfTwo ==
  ASSUME NEW m \in Int, NEW n \in Int
  PROVE  Min({m, n}) \in Int /\ Max({m, n}) \in Int
<1>1. \E x \in {m, n} : \A y \in {m, n} : x <= y
  OBVIOUS
<1>2. \E x \in {m, n} : \A y \in {m, n} : x >= y
  OBVIOUS
<1> QED
  BY <1>1, <1>2 DEF Min, Max

\* A request's edit leaves a payload a payload.
IsEdit(edit) == \A f \in DOMAIN edit : f \in DOMAIN Fields /\ edit[f] \in Fields[f]

\* The payload after an update request is one: of each field it names the
\* request holds a value of the field's type, or one that is clamped.
LEMMA EditedIsPayload ==
  ASSUME NEW payload \in Payload, NEW edit, IsEdit(edit)
  PROVE  Edited(payload, edit) \in Payload
<1> DEFINE new == Edited(payload, edit)
<1>1. DOMAIN payload = {"text", "salience", "affect", "age", "tags", "metadata"}
  BY DEF Payload
<1>2. /\ "salience" \in DOMAIN edit => edit["salience"] \in Int
      /\ "affect" \in DOMAIN edit => edit["affect"] \in Int
      /\ "tags" \in DOMAIN edit => edit["tags"] \in SUBSET Tags
      /\ "text" \in DOMAIN edit => edit["text"] \in Texts
      /\ "age" \notin DOMAIN edit /\ "metadata" \notin DOMAIN edit
  BY DEF IsEdit, Fields
<1>3. One \in Int /\ -One \in Int /\ 0 \in Int
  BY BridgeAssumption
<1>4. \A n \in Int : Clamped(0, One, n) \in Int /\ Clamped(-One, One, n) \in Int
  BY <1>3, MinMaxOfTwo DEF Clamped
<1>5. DOMAIN new = DOMAIN payload /\ new = [f \in DOMAIN payload |-> new[f]]
  BY DEF Edited
<1>6. new["salience"] \in Int /\ new["affect"] \in Int
  BY <1>1, <1>2, <1>4 DEF Edited, Payload
<1>7. /\ new["text"] \in Texts \cup {NoText} /\ new["tags"] \in SUBSET Tags
      /\ new["age"] \in Int /\ new["metadata"] \in Metadata \cup {NoMetadata}
  BY <1>1, <1>2 DEF Edited, Payload
<1> HIDE DEF new
<1>8. new = [text |-> new["text"], salience |-> new["salience"], affect |-> new["affect"],
             age |-> new["age"], tags |-> new["tags"], metadata |-> new["metadata"]]
  BY <1>1, <1>5
<1>9. new \in Payload
  BY <1>6, <1>7, <1>8 DEF Payload
<1> QED
  BY <1>9 DEF new

\* A write is labelled with its adapter.
LEMMA LabelledIsPayload ==
  ASSUME NEW payload \in Payload, NEW a \in Adapters
  PROVE  [payload EXCEPT !.tags = @ \cup {a}] \in Payload
BY TagAssumption DEF Payload

\* An update in place leaves a table.
LEMMA AmendedIsTable ==
  ASSUME NEW table, IsTable(table), NEW S, NEW edit, IsEdit(edit)
  PROVE  IsTable(Amended(table, S, edit))
<1> DEFINE store == [k \in DOMAIN table.store |->
                       IF k \in S THEN Edited(table.store[k], edit) ELSE table.store[k]]
<1>1. IsContents(store)
  BY EditedIsPayload DEF IsTable, IsContents
<1>2. Amended(table, S, edit) = [table EXCEPT !.store = store]
  BY DEF Amended
<1> HIDE DEF store
<1> QED
  BY <1>1, <1>2 DEF IsTable

\* So does the deletion of entries behind the table's back.
LEMMA WithoutIsTable ==
  ASSUME NEW table, IsTable(table), NEW S
  PROVE  IsTable([table EXCEPT !.store = Without(@, S)])
<1>1. IsContents(Without(table.store, S))
  BY DEF IsTable, IsContents, Without, Restrict
<1> HIDE DEF Without
<1> QED
  BY <1>1 DEF IsTable

\* A boost is limited to 1.0 above and not below.
LEMMA BoostedIsTable ==
  ASSUME NEW table, IsTable(table), NEW boost \in Boosts, NEW choice \in BoostChoices(table.store, boost)
  PROVE  IsTable(Boosted(table, boost, choice))
<1>1. boost \in [DOMAIN boost -> Int] /\ One \in Int
  BY BodyAssumption, BridgeAssumption
<1>2. \A k \in DOMAIN choice : choice[k] \in DOMAIN boost
  BY DEF BoostChoices
<1>3. ASSUME NEW k \in DOMAIN table.store, k \in DOMAIN choice
      PROVE  [table.store[k] EXCEPT !.salience = Min({One, @ + boost[choice[k]]})] \in Payload
  <2>1. table.store[k] \in Payload
    BY DEF IsTable, IsContents
  <2>2. boost[choice[k]] \in Int /\ table.store[k].salience \in Int
    BY <1>1, <1>2, <1>3, <2>1 DEF Payload
  <2> DEFINE sum == table.store[k].salience + boost[choice[k]]
             n == Min({One, sum})
  <2>3. n \in Int
    <3>1. sum \in Int
      BY <2>2
    <3> HIDE DEF sum
    <3> QED
      BY <1>1, <3>1, MinMaxOfTwo
  <2> HIDE DEF n
  <2>4. [table.store[k] EXCEPT !.salience = n] \in Payload
    BY <2>1, <2>3 DEF Payload
  <2> QED
    BY <2>4 DEF n
<1> DEFINE store == [k \in DOMAIN table.store |->
                       IF k \in DOMAIN choice
                       THEN [table.store[k] EXCEPT !.salience = Min({One, @ + boost[choice[k]]})]
                       ELSE table.store[k]]
<1>4. \A k \in DOMAIN table.store : store[k] \in Payload
  BY <1>3 DEF IsTable, IsContents
<1>5. Boosted(table, boost, choice) = [store |-> store, needsEviction |-> table.needsEviction \/ DOMAIN choice # {}]
  BY DEF Boosted
<1>6. DOMAIN store \subseteq Keys /\ store = [k \in DOMAIN store |-> store[k]]
  BY DEF IsTable, IsContents
<1> HIDE DEF store
<1>7. IsContents(store)
  BY <1>4, <1>6 DEF IsContents, store
<1>8. (table.needsEviction \/ DOMAIN choice # {}) \in BOOLEAN
  OBVIOUS
<1> QED
  BY <1>5, <1>7, <1>8 DEF IsTable

----------------------------------------------------------------------------
(* Memories as the server writes them: with a text, and without metadata.  *)
(* A row has room for all of such a memory, so it comes back as it was.    *)

IsPlain(payload) == payload.text # NoText /\ payload.metadata = NoMetadata
PlainRows(store) == \A k \in DOMAIN store : IsPlain(store[k])
PlainSt(st) == \A a \in Adapters : PlainRows(View(st, a)) /\ PlainRows(st.disk[a])

\* A row holds the whole of a plain memory.
LEMMA PlainIsItsRow ==
  ASSUME NEW payload \in Payload, IsPlain(payload)
  PROVE  Row(payload) = payload
BY DEF Payload, IsPlain, Row

\* Time leaves memories plain.
LEMMA PlainAged ==
  ASSUME NEW table, IsTable(table), PlainRows(table.store), NEW steps \in Int
  PROVE  PlainRows(Tick(table, steps).store)
<1>1. ASSUME NEW k \in DOMAIN table.store PROVE IsPlain([table.store[k] EXCEPT !.age = @ + steps])
  BY DEF PlainRows, IsPlain, IsTable, IsContents, Payload
<1> QED
  BY <1>1 DEF Tick, PlainRows

\* Without some entries the others are what they were.
LEMMA PlainWithout ==
  ASSUME NEW store, PlainRows(store), NEW S
  PROVE  PlainRows(Without(store, S))
BY DEF PlainRows, Without, Restrict

\* A sweep only drops.
LEMMA PlainSwept ==
  ASSUME NEW table, PlainRows(table.store), NEW threshold
  PROVE  PlainRows(EvictStale(table, threshold).store)
BY PlainWithout DEF EvictStale

\* Updates and boosts leave memories plain too: a request names a text that
\* is one, and no metadata.
LEMMA PlainEdited ==
  ASSUME NEW table, IsTable(table), PlainRows(table.store), NEW S, NEW edit, IsEdit(edit)
  PROVE  PlainRows(Amended(table, S, edit).store)
<1>1. "text" \in DOMAIN edit => edit["text"] \in Texts
  BY DEF IsEdit, Fields
<1>2. "metadata" \notin DOMAIN edit
  BY DEF IsEdit, Fields
<1>3. ASSUME NEW payload \in Payload, IsPlain(payload) PROVE IsPlain(Edited(payload, edit))
  <2>1. DOMAIN payload = {"text", "salience", "affect", "age", "tags", "metadata"}
    BY DEF Payload
  <2>2. Edited(payload, edit)["text"] = IF "text" \in DOMAIN edit THEN edit["text"] ELSE payload["text"]
    BY <2>1 DEF Edited
  <2>3. Edited(payload, edit)["metadata"] = payload["metadata"]
    BY <2>1, <1>2 DEF Edited
  <2> QED
    BY <1>1, <1>3, <2>2, <2>3, SentinelAssumption DEF IsPlain
<1> DEFINE store == [k \in DOMAIN table.store |->
                       IF k \in S THEN Edited(table.store[k], edit) ELSE table.store[k]]
<1>4. PlainRows(store)
  BY <1>3 DEF PlainRows, IsTable, IsContents
<1>5. Amended(table, S, edit) = [table EXCEPT !.store = store]
  BY DEF Amended
<1> HIDE DEF store
<1> QED
  BY <1>4, <1>5 DEF IsTable

\* A boost changes saliences only.
LEMMA PlainBoosted ==
  ASSUME NEW table, IsTable(table), PlainRows(table.store), NEW boost, NEW choice
  PROVE  PlainRows(Boosted(table, boost, choice).store)
<1>1. ASSUME NEW payload \in Payload, IsPlain(payload), NEW n PROVE IsPlain([payload EXCEPT !.salience = n])
  BY <1>1 DEF IsPlain, Payload
<1> DEFINE Higher(k) == [table.store[k] EXCEPT !.salience = Min({One, @ + boost[choice[k]]})]
<1>2. \A k \in DOMAIN table.store : IsPlain(Higher(k)) /\ IsPlain(table.store[k])
  BY <1>1 DEF PlainRows, IsTable, IsContents
<1>3. Boosted(table, boost, choice).store =
        [k \in DOMAIN table.store |-> IF k \in DOMAIN choice THEN Higher(k) ELSE table.store[k]]
  BY DEF Boosted
<1> HIDE DEF Higher
<1> QED
  BY <1>2, <1>3 DEF PlainRows

\* A write adds what it is given.
LEMMA PlainPut ==
  ASSUME NEW table, PlainRows(table.store), NEW k, NEW p, IsPlain(p)
  PROVE  PlainRows(Put(table, k, p).store)
BY DEF PlainRows, Put, With

\* One plain table in the place of another leaves a state plain.
LEMMA PlainChange ==
  ASSUME NEW st, SoundSt(st), PlainSt(st), NEW a \in DOMAIN st.tables,
         NEW table, IsTable(table), PlainRows(table.store),
         NEW t, t = [st EXCEPT !.tables[a] = table]
  PROVE  PlainSt(t)
<1>1. /\ View(t, a) = table.store
      /\ \A b \in Adapters : t.disk[b] = st.disk[b]
      /\ \A b \in Adapters \ {a} : View(t, b) = View(st, b)
  BY ChangeTable DEF Kept
<1> QED
  BY <1>1 DEF PlainSt

----------------------------------------------------------------------------
(* No request fails.  bridge.py raises on a response whose salience or     *)
(* affect is out of range.  What is written is in range, a boost is        *)
(* limited from above only, and what it pushes below zero is gone before a *)
(* response can be built of it: the boost raises the flag, and a sweep     *)
(* with a threshold above zero leaves only saliences above zero.           *)

IsFit(p) == IsPlain(p) /\ p.salience <= One /\ p.affect \in -One..One /\ p.age >= 0
FitRows(store) == \A k \in DOMAIN store : IsFit(store[k])
NotNegative(store) == \A k \in DOMAIN store : store[k].salience >= 0
FitTable(table) == FitRows(table.store) /\ (table.needsEviction \/ NotNegative(table.store))

\* The inductive invariant: a table with a clear flag has no salience below
\* zero, and nothing in RAM or on disk is out of range in another way.
FitSt(st) ==
  /\ \A a \in Adapters : FitRows(st.disk[a])
  /\ \A a \in DOMAIN st.tables : FitTable(st.tables[a])

\* What decays to a threshold above zero at the least is itself above zero,
\* under every policy.
LEMMA WorthIsPositive ==
  ASSUME NEW salience \in Int, NEW age \in Nat, NEW threshold \in Nat \ {0},
         ~IsEvictable(Policy, salience, age, threshold)
  PROVE  salience > 0
<1> DEFINE x == DecayedSalience(Policy, salience, age)
<1>1. x.num \in Int /\ x.den \in Nat \ {0} /\ x.num >= threshold * x.den
  BY PolicyAssumption, DecayedIsFraction DEF IsEvictable, Below
<1>2. \A d \in Nat \ {0} : threshold * d > 0
  OBVIOUS
<1>3. x.num > 0
  BY <1>1, <1>2
<1>4. ASSUME Policy.kind = "exponential" PROVE salience > 0
  <2>1. x = Power(Policy.keep, salience, age) \/ x = Whole(0)
    BY <1>4 DEF DecayedSalience, Exponential, LookupIndex
  <2> HIDE DEF x
  <2>2. x = Power(Policy.keep, salience, age)
    BY <1>3, <2>1 DEF Whole
  <2>3. x.num = salience * Pow(Policy.keep.num, age)
    BY <2>2 DEF Power
  <2>4. Pow(Policy.keep.num, age) \in Nat \ {0}
    BY <1>4, PolicyAssumption, PowPositive DEF IsPolicy
  <2>5. \A p \in Nat \ {0} : salience * p > 0 => salience > 0
    OBVIOUS
  <2> QED
    BY <1>3, <2>3, <2>4, <2>5
<1>5. ASSUME Policy.kind = "linear" PROVE salience > 0
  <2>1. x = IF age * Policy.rate < salience THEN Whole(salience - age * Policy.rate) ELSE Whole(0)
    BY <1>5 DEF DecayedSalience, Linear
  <2>2. Policy.rate \in Nat \ {0}
    BY <1>5, PolicyAssumption DEF IsPolicy
  <2>3. \A r \in Nat \ {0} : age * r \in Nat
    OBVIOUS
  <2> HIDE DEF x
  <2>4. age * Policy.rate < salience
    BY <1>3, <2>1 DEF Whole
  <2> QED
    BY <2>2, <2>3, <2>4
<1>6. ASSUME Policy.kind = "none" PROVE salience > 0
  BY <1>3, <1>6 DEF DecayedSalience, Whole
<1> QED
  BY <1>4, <1>5, <1>6, PolicyAssumption DEF IsPolicy

\* Fit memories are plain ones.
LEMMA FitIsPlain ==
  ASSUME NEW st, SoundSt(st), FitSt(st)
  PROVE  PlainSt(st)
<1>1. \A a \in Adapters : PlainRows(View(st, a)) /\ PlainRows(st.disk[a])
  BY SoundStFacts DEF FitSt, FitTable, FitRows, IsFit, PlainRows, View
<1> QED
  BY <1>1 DEF PlainSt

\* Time leaves memories fit; what it makes stale, the flag tells of.
LEMMA FitAged ==
  ASSUME NEW table, IsTable(table), FitTable(table), NEW steps \in Int
  PROVE  FitTable(Tick(table, steps))
<1>1. ASSUME NEW p \in Payload, IsFit(p), steps > 0 PROVE IsFit([p EXCEPT !.age = @ + steps])
  BY <1>1 DEF IsFit, IsPlain, Payload
<1>2. CASE steps > 0
  <2> DEFINE aged == [k \in DOMAIN table.store |-> [table.store[k] EXCEPT !.age = @ + steps]]
  <2>1. FitRows(aged)
    BY <1>1, <1>2 DEF FitTable, FitRows, IsTable, IsContents
  <2>2. Tick(table, steps) = [store |-> aged, needsEviction |-> TRUE]
    BY <1>2 DEF Tick
  <2> HIDE DEF aged
  <2> QED
    BY <2>1, <2>2 DEF FitTable
<1> QED
  BY <1>2 DEF Tick

\* A sweep with a threshold above zero leaves nothing below zero: it scans
\* the table, or the flag says that it need not.
LEMMA FitSwept ==
  ASSUME NEW table, IsTable(table), FitTable(table), NEW threshold \in Nat \ {0}
  PROVE  FitTable(EvictStale(table, threshold)) /\ NotNegative(EvictStale(table, threshold).store)
<1>1. CASE ~table.needsEviction
  BY <1>1 DEF EvictStale, FitTable
<1>2. CASE table.needsEviction
  <2> DEFINE left == Without(table.store, Stale(table.store, threshold))
  <2>1. EvictStale(table, threshold) = [store |-> left, needsEviction |-> FALSE]
    BY <1>2 DEF EvictStale
  <2>2. /\ DOMAIN left = DOMAIN table.store \ Stale(table.store, threshold)
        /\ \A k \in DOMAIN left : left[k] = table.store[k]
    BY DEF Without, Restrict
  <2> HIDE DEF left
  <2>3. FitRows(left)
    BY <2>2 DEF FitTable, FitRows
  <2>4. ASSUME NEW k \in DOMAIN left PROVE left[k].salience >= 0
    <3> DEFINE p == table.store[k]
    <3>1. p \in Payload /\ p.age >= 0 /\ left[k] = p
      BY <2>2 DEF IsTable, IsContents, FitTable, FitRows, IsFit
    <3>2. ~IsEvictable(Policy, p.salience, p.age, threshold)
      BY <2>2 DEF Stale
    <3> HIDE DEF p
    <3>3. p.salience \in Int /\ p.age \in Nat
      BY <3>1 DEF Payload
    <3> QED
      BY <3>1, <3>2, <3>3, WorthIsPositive
  <2> QED
    BY <2>1, <2>3, <2>4 DEF FitTable, NotNegative
<1> QED
  BY <1>1, <1>2

\* A removal changes nothing else.
LEMMA FitWithout ==
  ASSUME NEW table, IsTable(table), FitTable(table), NEW S
  PROVE  FitTable([table EXCEPT !.store = Without(@, S)])
<1> DEFINE left == Without(table.store, S)
           after == [table EXCEPT !.store = left]
<1>1. after.store = left /\ after.needsEviction = table.needsEviction
  BY DEF IsTable
<1>2. DOMAIN left \subseteq DOMAIN table.store /\ \A k \in DOMAIN left : left[k] = table.store[k]
  BY DEF Without, Restrict
<1> HIDE DEF left, after
<1>3. FitTable(after)
  BY <1>1, <1>2 DEF FitTable, FitRows, NotNegative
<1> QED
  BY <1>3 DEF left, after

\* A write raises the flag.
LEMMA FitPut ==
  ASSUME NEW table, FitTable(table), NEW k, NEW p, IsFit(p)
  PROVE  FitTable(Put(table, k, p))
<1>1. FitRows(With(table.store, k, p))
  BY DEF With, FitTable, FitRows
<1> QED
  BY <1>1 DEF Put, FitTable

\* The clamps.
LEMMA ClampedBetween ==
  ASSUME NEW low \in Int, NEW high \in Int, low <= high, NEW n \in Int
  PROVE  Clamped(low, high, n) \in low..high
<1>1. Min({high, n}) = IF high <= n THEN high ELSE n
  <2>1. \A x \in {high, n} : (\A y \in {high, n} : x <= y) <=> x = IF high <= n THEN high ELSE n
    OBVIOUS
  <2> QED
    BY <2>1 DEF Min
<1> DEFINE m == Min({high, n})
<1>2. m \in Int /\ m <= high
  BY <1>1
<1> HIDE DEF m
<1>3. Max({low, m}) = IF low >= m THEN low ELSE m
  <2>1. \A x \in {low, m} : (\A y \in {low, m} : x >= y) <=> x = IF low >= m THEN low ELSE m
    BY <1>2
  <2> QED
    BY <2>1 DEF Max
<1>4. Clamped(low, high, n) = Max({low, m})
  BY DEF Clamped, m
<1> QED
  BY <1>2, <1>3, <1>4

\* An update leaves memories in range, whatever it asks for: the flag stays
\* as it was, and what it sets is not below zero.
LEMMA FitAmended ==
  ASSUME NEW table, IsTable(table), FitTable(table), NEW S, NEW edit, IsEdit(edit)
  PROVE  FitTable(Amended(table, S, edit))
<1> DEFINE store == [k \in DOMAIN table.store |->
                       IF k \in S THEN Edited(table.store[k], edit) ELSE table.store[k]]
           after == [table EXCEPT !.store = store]
<1>1. PlainRows(Amended(table, S, edit).store)
  BY PlainEdited DEF FitTable, FitRows, IsFit, PlainRows
<1>2. after = Amended(table, S, edit)
  BY DEF Amended
<1>3. after.store = store /\ after.needsEviction = table.needsEviction
  BY DEF IsTable
<1>4. ASSUME NEW p \in Payload, p.salience <= One, p.affect \in -One..One, p.age >= 0
      PROVE  /\ Edited(p, edit).salience <= One /\ Edited(p, edit).age >= 0
             /\ Edited(p, edit).affect \in -One..One
             /\ p.salience >= 0 => Edited(p, edit).salience >= 0
  <2> DEFINE q == Edited(p, edit)
  <2>1. DOMAIN p = {"text", "salience", "affect", "age", "tags", "metadata"}
    BY DEF Payload
  <2>2. "age" \notin DOMAIN edit
    BY DEF IsEdit, Fields
  <2>3. q["age"] = p["age"]
    BY <2>1, <2>2 DEF Edited
  <2>4. One \in Nat
    BY BridgeAssumption
  <2>5. q["affect"] \in -One..One
    <3>1. CASE "affect" \in DOMAIN edit
      <4>1. edit["affect"] \in Int
        BY <3>1 DEF IsEdit, Fields
      <4>2. Clamped(-One, One, edit["affect"]) \in -One..One
        <5>1. -One \in Int /\ One \in Int /\ -One <= One
          BY <2>4
        <5> QED
          BY <4>1, <5>1, ClampedBetween
      <4>3. q["affect"] = Clamped(-One, One, edit["affect"])
        BY <2>1, <3>1 DEF Edited
      <4> HIDE DEF q
      <4> QED
        BY <4>2, <4>3
    <3>2. CASE "affect" \notin DOMAIN edit
      BY <1>4, <2>1, <3>2 DEF Edited
    <3> QED
      BY <3>1, <3>2
  <2>6. q["salience"] <= One /\ (p.salience >= 0 => q["salience"] >= 0)
    <3> HIDE DEF q
    <3>1. CASE "salience" \in DOMAIN edit
      <4>1. q["salience"] \in 0..One
        <5>1. edit["salience"] \in Int
          BY <3>1 DEF IsEdit, Fields
        <5>2. q["salience"] = Clamped(0, One, edit["salience"])
          BY <2>1, <3>1 DEF Edited, q
        <5>3. Clamped(0, One, edit["salience"]) \in 0..One
          BY <2>4, <5>1, ClampedBetween
        <5> QED
          BY <5>2, <5>3
      <4> QED
        BY <2>4, <4>1
    <3>2. CASE "salience" \notin DOMAIN edit
      <4>1. q["salience"] = p["salience"]
        BY <2>1, <3>2 DEF Edited, q
      <4> QED
        BY <1>4, <4>1
    <3> QED
      BY <3>1, <3>2
  <2> HIDE DEF q
  <2> QED
    BY <1>4, <2>3, <2>5, <2>6 DEF q
<1>5. ASSUME NEW k \in DOMAIN store
      PROVE  /\ store[k].salience <= One /\ store[k].affect \in -One..One /\ store[k].age >= 0
             /\ table.store[k].salience >= 0 => store[k].salience >= 0
  <2>1. table.store[k] \in Payload /\ IsFit(table.store[k])
    BY DEF IsTable, IsContents, FitTable, FitRows
  <2> QED
    BY <1>4, <2>1 DEF IsFit
<1>6. DOMAIN store = DOMAIN table.store
  OBVIOUS
<1> HIDE DEF store, after
<1>7. FitRows(after.store)
  BY <1>1, <1>2, <1>3, <1>5 DEF FitRows, IsFit, PlainRows
<1>8. NotNegative(table.store) => NotNegative(after.store)
  BY <1>3, <1>5, <1>6 DEF NotNegative
<1> QED
  BY <1>2, <1>3, <1>7, <1>8 DEF FitTable

\* A boost is limited from above, and raises the flag.
LEMMA FitBoosted ==
  ASSUME NEW table, IsTable(table), FitTable(table), NEW boost \in Boosts,
         NEW choice \in BoostChoices(table.store, boost)
  PROVE  FitTable(Boosted(table, boost, choice))
<1> DEFINE store == Boosted(table, boost, choice).store
<1>1. PlainRows(store)
  BY PlainBoosted DEF FitTable, FitRows, IsFit, PlainRows
<1>2. \A k \in DOMAIN choice : boost[choice[k]] \in Int
  BY BodyAssumption DEF BoostChoices
<1>3. ASSUME NEW p \in Payload, IsFit(p), NEW n \in Int
      PROVE  LET q == [p EXCEPT !.salience = Min({One, @ + n})]
             IN  q.salience <= One /\ q.affect \in -One..One /\ q.age >= 0
  <2>1. One \in Int /\ p.salience + n \in Int
    BY BridgeAssumption DEF Payload
  <2>2. Min({One, p.salience + n}) = IF One <= p.salience + n THEN One ELSE p.salience + n
    <3>1. \A x \in {One, p.salience + n} :
            (\A y \in {One, p.salience + n} : x <= y) <=> x = IF One <= p.salience + n THEN One ELSE p.salience + n
      BY <2>1
    <3> QED
      BY <3>1 DEF Min
  <2>3. Min({One, p.salience + n}) <= One
    BY <2>1, <2>2
  <2> QED
    BY <1>3, <2>3 DEF IsFit, Payload
<1> DEFINE Higher(k) == [table.store[k] EXCEPT !.salience = Min({One, @ + boost[choice[k]]})]
<1>4. store = [k \in DOMAIN table.store |-> IF k \in DOMAIN choice THEN Higher(k) ELSE table.store[k]]
  BY DEF Boosted
<1>5. \A k \in DOMAIN table.store : table.store[k] \in Payload /\ IsFit(table.store[k])
  BY DEF IsTable, IsContents, FitTable, FitRows
<1>6. \A k \in DOMAIN table.store : k \in DOMAIN choice =>
        Higher(k).salience <= One /\ Higher(k).affect \in -One..One /\ Higher(k).age >= 0
  BY <1>2, <1>3, <1>5
<1>7. Boosted(table, boost, choice).needsEviction = (table.needsEviction \/ DOMAIN choice # {})
  BY DEF Boosted
<1>8. DOMAIN choice = {} => \A k \in DOMAIN table.store : store[k] = table.store[k]
  BY <1>4
<1> HIDE DEF store, Higher
<1>9. FitRows(store)
  BY <1>1, <1>4, <1>5, <1>6 DEF FitRows, IsFit, PlainRows
<1>10. DOMAIN choice = {} /\ NotNegative(table.store) => NotNegative(store)
  BY <1>4, <1>8 DEF NotNegative
<1> QED
  BY <1>7, <1>9, <1>10 DEF FitTable, store

\* One fit table in the place of another leaves a state fit.
LEMMA FitChange ==
  ASSUME NEW st, SoundSt(st), FitSt(st), NEW a \in DOMAIN st.tables,
         NEW table, IsTable(table), FitTable(table), NEW t, t = [st EXCEPT !.tables[a] = table]
  PROVE  FitSt(t)
<1>1. /\ DOMAIN t.tables = DOMAIN st.tables /\ t.disk = st.disk
      /\ \A b \in DOMAIN st.tables : t.tables[b] = IF b = a THEN table ELSE st.tables[b]
  BY DEF SoundSt
<1> QED
  BY <1>1 DEF FitSt

----------------------------------------------------------------------------
(* The bridge, and the automatic tick.                                     *)

\* The sweep of a query.
LEMMA SweptChanges ==
  ASSUME NEW st, SoundSt(st), NEW a \in Adapters, NEW o \in Swept(st, a)
  PROVE  ChangesOne(st, a, o)
<1>1. \/ o \in Mount(st, a) /\ ~o.ok
      \/ \E m \in Mount(st, a) :
           m.ok /\ o = Returns([m.st EXCEPT !.tables[a] = EvictStale(m.st.tables[a], EvictionThreshold)])
  BY DEF Swept, Mounted, AndThen, InTable
<1>2. ASSUME NEW m \in Mount(st, a), m.ok PROVE IsTable(EvictStale(m.st.tables[a], EvictionThreshold))
  BY <1>2, MountedTable, EvictIsTable
<1> QED
  BY <1>1, <1>2 DEF ChangesOne

\* A response changes nothing, whether it validates or not.
LEMMA RespondKeepsState ==
  ASSUME NEW st, NEW memories, NEW hit, NEW o \in Respond(st, memories, hit)
  PROVE  o.st = st /\ o.ok \in BOOLEAN
<1>1. (\E value : o = Answers(st, value)) \/ o = Raises(st)
  BY DEF Respond
<1>2. ASSUME NEW value, o = Answers(st, value) PROVE o.st = st /\ o.ok \in BOOLEAN
  BY <1>2 DEF Answers
<1>3. CASE o = Raises(st)
  BY <1>3 DEF Raises
<1> QED
  BY <1>1, <1>2, <1>3

\* handle_trigger changes one table, whether its response validates or not.
LEMMA TriggerProper ==
  ASSUME NEW st, SoundSt(st), NEW a \in Adapters, NEW hash, NEW o \in HandleTrigger(st, a, hash)
  PROVE  Proper(st, o)
<1>1. \/ o \in Swept(st, a)
      \/ \E s \in Swept(st, a) : s.ok /\ \E memories, hit : o \in Respond(s.st, memories, hit)
  BY DEF HandleTrigger, AndThen
<1>2. CASE o \in Swept(st, a)
  BY <1>2, SweptChanges, ChangesOneProper
<1>3. ASSUME NEW s \in Swept(st, a), NEW memories, NEW hit, o \in Respond(s.st, memories, hit)
      PROVE  Proper(st, o)
  <2>1. Proper(st, s)
    BY SweptChanges, ChangesOneProper
  <2>2. o.st = s.st /\ o.ok \in BOOLEAN
    BY <1>3, RespondKeepsState
  <2> QED
    BY <2>1, <2>2 DEF Proper
<1> QED
  BY <1>1, <1>2, <1>3

\* The rounds of a cross query, one hint after the other.
Gathering == INSTANCE FoldTheorems WITH
  op <- LAMBDA hash, outcomes, a :
          {o \in outcomes : ~o.ok} \cup UNION {Collected(o, a, hash) : o \in {b \in outcomes : b.ok}},
  P  <- LAMBDA st, k, outcomes : \A o \in outcomes : Proper(st, o)

\* A round of handle_cross_trigger goes on from a proper outcome to another.
LEMMA CollectedProper ==
  ASSUME NEW st, NEW b, Proper(st, b), NEW a \in Adapters, NEW hash, NEW o \in Collected(b, a, hash)
  PROVE  Proper(st, o)
<1>1. SoundSt(b.st) /\ Grows(st, b.st)
  BY DEF Proper
<1>2. \A s \in Swept(b.st, a) : Proper(st, s)
  <2> SUFFICES ASSUME NEW s \in Swept(b.st, a) PROVE Proper(st, s)
    OBVIOUS
  <2>1. Proper(b.st, s)
    BY <1>1, SweptChanges, ChangesOneProper
  <2> QED
    BY <1>1, <2>1, GrowsOnward DEF Proper
<1>3. \/ o \in Swept(b.st, a)
      \/ \E s \in Swept(b.st, a) : \E value : o = Answers(s.st, value)
  BY DEF Collected, AndThen
<1>4. ASSUME NEW s \in Swept(b.st, a), NEW value, o = Answers(s.st, value) PROVE Proper(st, o)
  <2>1. o.st = s.st /\ o.ok = TRUE
    BY <1>4 DEF Answers
  <2> QED
    BY <1>2, <2>1 DEF Proper
<1> QED
  BY <1>2, <1>3, <1>4

\* handle_cross_trigger is as many rounds as there are hints.
LEMMA CrossTriggerProper ==
  ASSUME NEW st, SoundSt(st), NEW hints \in HintLists, NEW hash, NEW o \in HandleCrossTrigger(st, hints, hash)
  PROVE  Proper(st, o)
<1> DEFINE start == {Answers(st, {})}
           collected == Gathering!Fold(hash, start, hints)
<1>1. /\ DOMAIN hints = 1..Len(hints) /\ Len(hints) \in Nat
      /\ \A i \in 1..Len(hints) : hints[i] \in Adapters
  BY BodyAssumption, LenProperties, ElementOfSeq
<1>2. \A b \in start : Proper(st, b)
  <2>1. Answers(st, {}).st = st /\ Answers(st, {}).ok = TRUE
    BY DEF Answers
  <2> QED
    BY <2>1 DEF Proper, Grows
<1>3. ASSUME NEW i \in 1..Len(hints), NEW outcomes, \A b \in outcomes : Proper(st, b),
             NEW c \in {b \in outcomes : ~b.ok}
                       \cup UNION {Collected(b, hints[i], hash) : b \in {d \in outcomes : d.ok}}
      PROVE  Proper(st, c)
  BY <1>1, <1>3, CollectedProper
<1>4. \A c \in collected : Proper(st, c)
  <2> HIDE DEF start
  <2> QED
    BY <1>1, <1>2, <1>3, Gathering!FoldInduction
<1> DEFINE Answered(c, R) == Respond(c.st, [f \in R |-> f.payload], Absent)
<1>5. HandleCrossTrigger(st, hints, hash) =
        {c \in collected : ~c.ok} \cup
          UNION {UNION {Answered(c, R) : R \in Rankings(c.value)} : c \in {d \in collected : d.ok}}
  BY DEF HandleCrossTrigger, Gathering!Fold, FoldLeft, MapThenFoldSet, Max,
         Gathering!FoldLeft, Gathering!MapThenFoldSet, Gathering!Max
<1> HIDE DEF collected
<1>6. ASSUME NEW c \in collected, NEW R, o \in Answered(c, R) PROVE Proper(st, o)
  BY <1>4, <1>6, RespondKeepsState DEF Proper
<1> HIDE DEF Answered
<1>7. o \in collected \/ \E c \in collected : \E R : o \in Answered(c, R)
  BY <1>5
<1> QED
  BY <1>4, <1>6, <1>7

\* A packet: the tick and the boost of one table.
LEMMA SyncProper ==
  ASSUME NEW st, SoundSt(st), NEW a \in Adapters, NEW tenths \in Deltas, NEW boost \in Boosts,
         NEW o \in HandlePidxSync(st, a, tenths, boost)
  PROVE  Proper(st, o)
<1> DEFINE steps == ConvertPidxDelta(tenths)
           aged == IF steps > 0 THEN Mounted(st, a, LAMBDA t : Tick(t, steps)) ELSE {Returns(st)}
<1>1. steps \in Int
  BY BodyAssumption DEF ConvertPidxDelta, TenthsPerDay
<1> HIDE DEF steps
<1>2. ASSUME NEW b \in aged PROVE Proper(st, b)
  <2>1. CASE steps > 0
    <3>1. \/ b \in Mount(st, a) /\ ~b.ok
          \/ \E m \in Mount(st, a) : m.ok /\ b = Returns([m.st EXCEPT !.tables[a] = Tick(m.st.tables[a], steps)])
      BY <1>2, <2>1 DEF Mounted, AndThen, InTable
    <3>2. ASSUME NEW m \in Mount(st, a), m.ok PROVE IsTable(Tick(m.st.tables[a], steps))
      BY <1>1, <3>2, MountedTable, TickIsTable
    <3>3. ChangesOne(st, a, b)
      BY <3>1, <3>2 DEF ChangesOne
    <3> QED
      BY <3>3, ChangesOneProper
  <2>2. CASE ~(steps > 0)
    <3>1. b.st = st /\ b.ok = TRUE
      BY <1>2, <2>2 DEF Returns
    <3> QED
      BY <3>1 DEF Proper, Grows
  <2> QED
    BY <2>1, <2>2
<1>3. ASSUME NEW b \in aged, NEW c, ChangesOne(b.st, a, c) PROVE Proper(st, c)
  <2>1. SoundSt(b.st) /\ Grows(st, b.st)
    BY <1>2 DEF Proper
  <2>2. Proper(b.st, c)
    BY <1>3, <2>1, ChangesOneProper
  <2> QED
    BY <2>1, <2>2, GrowsOnward DEF Proper
<1> DEFINE mounted == AndThen(aged, LAMBDA s : Mount(s, a))
           After(s, choice) == Returns([s EXCEPT !.tables[a] = Boosted(s.tables[a], boost, choice)])
<1>4. HandlePidxSync(st, a, tenths, boost) =
        IF DOMAIN boost = {} THEN aged
        ELSE {m \in mounted : ~m.ok} \cup
               UNION {{After(m.st, choice) : choice \in BoostChoices(m.st.tables[a].store, boost)} :
                        m \in {l \in mounted : l.ok}}
  BY DEF HandlePidxSync, steps, AndThen, InTable
<1> HIDE DEF aged
<1>5. \A m \in mounted : (m \in aged /\ ~m.ok) \/ \E b \in aged : m \in Mount(b.st, a)
  BY DEF AndThen
<1> HIDE DEF mounted
<1>6. ASSUME NEW b \in aged, NEW m \in Mount(b.st, a), m.ok,
             NEW choice \in BoostChoices(m.st.tables[a].store, boost)
      PROVE  ChangesOne(b.st, a, After(m.st, choice))
  <2>1. SoundSt(b.st)
    BY <1>2 DEF Proper
  <2>2. IsTable(m.st.tables[a])
    BY <1>6, <2>1, MountedTable
  <2>3. IsTable(Boosted(m.st.tables[a], boost, choice))
    BY <1>6, <2>2, BoostedIsTable
  <2> QED
    BY <1>6, <2>3 DEF ChangesOne
<1> HIDE DEF After
<1>7. ASSUME NEW m \in mounted, ~m.ok PROVE Proper(st, m)
  <2>1. ASSUME NEW b \in aged, m \in Mount(b.st, a) PROVE ChangesOne(b.st, a, m)
    BY <1>7, <2>1 DEF ChangesOne
  <2> QED
    BY <1>2, <1>3, <1>5, <1>7, <2>1
<1>8. ASSUME NEW m \in mounted, m.ok, NEW choice \in BoostChoices(m.st.tables[a].store, boost)
      PROVE  Proper(st, After(m.st, choice))
  BY <1>3, <1>5, <1>6, <1>8
<1> QED
  BY <1>2, <1>4, <1>7, <1>8

\* The automatic tick keeps the same tables in RAM and writes none of them.
Alike(st, t) ==
  /\ SoundSt(t) /\ Grows(st, t) /\ DOMAIN t.tables = DOMAIN st.tables
  /\ PlainSt(st) => PlainSt(t)
  /\ FitSt(st) => FitSt(t)

\* Using a table and changing what it holds keep the tables in RAM the same
\* ones, and the databases as they are.
LEMMA TouchedAlike ==
  ASSUME NEW r, NEW st, Alike(r, st), NEW a \in DOMAIN st.tables,
         NEW table, IsTable(table),
         PlainSt(st) => PlainRows(table.store), FitSt(st) => FitTable(table)
  PROVE  Alike(r, [Touch(st, a) EXCEPT !.tables[a] = table])
<1> DEFINE s == Touch(st, a)
           t == [s EXCEPT !.tables[a] = table]
<1>1. SoundSt(s) /\ s.tables = st.tables /\ s.disk = st.disk
  BY TouchEffect DEF Alike
<1> HIDE DEF s
<1>2. SoundSt(t) /\ \A b \in Adapters : t.disk[b] = s.disk[b]
  BY <1>1, ChangeTable
<1>3. DOMAIN t.tables = DOMAIN s.tables
  BY <1>1 DEF SoundSt
<1>4. PlainSt(st) => PlainSt(t)
  <2>1. PlainSt(st) => PlainSt(s)
    BY <1>1 DEF PlainSt, View
  <2> QED
    BY <1>1, <2>1, PlainChange
<1>5. FitSt(st) => FitSt(t)
  <2>1. FitSt(st) => FitSt(s)
    BY <1>1 DEF FitSt
  <2> QED
    BY <1>1, <2>1, FitChange
<1> HIDE DEF t
<1>6. Alike(r, t)
  BY <1>1, <1>2, <1>3, <1>4, <1>5 DEF Alike, Grows
<1> QED
  BY <1>6 DEF s, t

Ageing == INSTANCE FoldTheorems WITH
  op <- LAMBDA steps, st, a : InTable(Touch(st, a), a, LAMBDA t : Tick(t, steps)),
  P  <- LAMBDA st, k, t : Alike(st, t)
Pruning == INSTANCE FoldTheorems WITH
  op <- LAMBDA p, st, a : InTable(Touch(st, a), a, LAMBDA t : EvictStale(t, ThresholdOf(a))),
  P  <- LAMBDA st, k, t : Alike(st, t)

\* So does the automatic tick, through both of its loops.
LEMMA AutoTickAlike ==
  ASSUME NEW st, SoundSt(st), NEW steps \in Int
  PROVE  Alike(st, AutoTicked(st, steps))
<1> DEFINE aged == Ageing!Fold(steps, st, st.order)
           pruned == Pruning!Fold(steps, aged, st.order)
<1>1. /\ DOMAIN st.order = 1..Len(st.order) /\ Len(st.order) \in Nat
      /\ \A i \in 1..Len(st.order) : st.order[i] \in DOMAIN st.tables
  BY SoundStFacts, LenProperties
<1>2. Alike(st, st)
  BY DEF Alike, Grows
<1>3. ASSUME NEW t, Alike(st, t), NEW a \in DOMAIN st.tables
      PROVE  /\ IsTable(t.tables[a]) /\ a \in DOMAIN t.tables
             /\ Touch(t, a).tables = t.tables
             /\ PlainSt(t) => PlainRows(t.tables[a].store)
             /\ FitSt(t) => FitTable(t.tables[a])
  BY <1>3, TouchEffect DEF Alike, SoundSt, PlainSt, View, FitSt
<1>4. ASSUME NEW t, Alike(st, t), NEW a \in DOMAIN st.tables
      PROVE  Alike(st, InTable(Touch(t, a), a, LAMBDA u : Tick(u, steps)))
  <2>1. IsTable(Tick(t.tables[a], steps))
    BY <1>3, <1>4, TickIsTable
  <2>2. InTable(Touch(t, a), a, LAMBDA u : Tick(u, steps))
          = [Touch(t, a) EXCEPT !.tables[a] = Tick(t.tables[a], steps)]
    BY <1>3, <1>4 DEF InTable
  <2> QED
    BY <1>3, <1>4, <2>1, <2>2, PlainAged, FitAged, TouchedAlike
<1>5. ASSUME NEW t, Alike(st, t), NEW a \in DOMAIN st.tables
      PROVE  Alike(st, InTable(Touch(t, a), a, LAMBDA u : EvictStale(u, ThresholdOf(a))))
  <2>1. IsTable(EvictStale(t.tables[a], ThresholdOf(a)))
    BY <1>3, <1>5, EvictIsTable
  <2>2. InTable(Touch(t, a), a, LAMBDA u : EvictStale(u, ThresholdOf(a)))
          = [Touch(t, a) EXCEPT !.tables[a] = EvictStale(t.tables[a], ThresholdOf(a))]
    BY <1>3, <1>5 DEF InTable
  <2>3. ThresholdOf(a) \in Nat \ {0}
    BY BridgeAssumption, OverrideAssumption DEF ThresholdOf
  <2> QED
    BY <1>3, <1>5, <2>1, <2>2, <2>3, PlainSwept, FitSwept, TouchedAlike
<1>6. Alike(st, aged)
  BY <1>1, <1>2, <1>4, Ageing!FoldInduction
<1>7. AutoTicked(st, steps) = pruned
  BY DEF AutoTicked, Ageing!Fold, Pruning!Fold, FoldLeft, MapThenFoldSet, Max,
         Ageing!FoldLeft, Ageing!MapThenFoldSet, Ageing!Max,
         Pruning!FoldLeft, Pruning!MapThenFoldSet, Pruning!Max
<1> HIDE DEF aged
<1>8. Alike(st, pruned)
  BY <1>1, <1>5, <1>6, Pruning!FoldInduction
<1> QED
  BY <1>7, <1>8

----------------------------------------------------------------------------
(* The steps of the HTTP server.                                           *)

ApiSound == SoundSt(St) /\ idle \in 0..MaxIdle

\* What every step of the server does: keep its tables and its order in
\* step, and every row.
ApiKeeps == SoundSt(St') /\ Grows(St, St')

\* A request that ends in a sound state with databases that grew.
LEMMA CommitKeeps ==
  ASSUME NEW t, SoundSt(t), Grows(St, t), Commit(t)
  PROVE  ApiKeeps
<1>1. St' = t
  BY CommitAsStore
<1> QED
  BY <1>1 DEF ApiKeeps

\* A step that leaves the manager alone.
LEMMA SameKeeps ==
  ASSUME SoundSt(St), UNCHANGED <<order, tables, disk>>
  PROVE  ApiKeeps
<1>1. St' = St
  BY DEF St
<1> QED
  BY <1>1 DEF ApiKeeps, Grows

\* A request that mounts an adapter and changes its table.
LEMMA ChangeKeeps ==
  ASSUME SoundSt(St), NEW a \in Adapters, NEW o, ChangesOne(St, a, o), Commit(o.st)
  PROVE  ApiKeeps
BY ChangesOneProper, CommitKeeps DEF Proper

\* The outcomes of such a request, the change being known.
LEMMA OutcomeKeeps ==
  ASSUME SoundSt(St), NEW a \in Adapters, NEW m \in Mount(St, a),
         NEW table, m.ok => IsTable(table),
         \/ m.ok /\ Commit([m.st EXCEPT !.tables[a] = table])
         \/ ~m.ok /\ Commit(m.st)
  PROVE  ApiKeeps
<1>1. CASE m.ok /\ Commit([m.st EXCEPT !.tables[a] = table])
  <2> DEFINE t == [m.st EXCEPT !.tables[a] = table]
  <2>1. ChangesOne(St, a, Returns(t)) /\ Returns(t).st = t
    BY <1>1 DEF ChangesOne, Returns
  <2> QED
    BY <1>1, <2>1, ChangeKeeps
<1>2. CASE ~m.ok /\ Commit(m.st)
  BY <1>2, ChangeKeeps DEF ChangesOne
<1> QED
  BY <1>1, <1>2

\* The requests one by one: each mounts a table and changes it at the most.
LEMMA FetchKeeps ==
  ASSUME SoundSt(St), NEW a \in Adapters, NEW k \in Keys, FetchMemory(a, k)
  PROVE  ApiKeeps
<1>1. PICK m \in Mount(St, a) :
        \/ m.ok /\ Commit([m.st EXCEPT !.tables[a] = m.st.tables[a]])
        \/ ~m.ok /\ Commit(m.st)
  BY DEF FetchMemory, GetMemory, OnTable
<1> QED
  BY <1>1, MountedTable, OutcomeKeeps

\* Deletion takes an entry out of RAM, and leaves its row.
LEMMA DeleteKeeps ==
  ASSUME SoundSt(St), NEW a \in Adapters, NEW k \in Keys, DeleteMemory(a, k)
  PROVE  ApiKeeps
<1>1. PICK m \in Mount(St, a) :
        \/ m.ok /\ Commit([m.st EXCEPT !.tables[a] = [m.st.tables[a] EXCEPT !.store = Without(@, {k})]])
        \/ ~m.ok /\ Commit(m.st)
  BY DEF DeleteMemory, OnTable
<1>2. m.ok => IsTable([m.st.tables[a] EXCEPT !.store = Without(@, {k})])
  BY MountedTable, WithoutIsTable
<1> QED
  BY <1>1, <1>2, OutcomeKeeps

\* A write puts its payload, labelled with the adapter's tag.
LEMMA PostKeeps ==
  ASSUME SoundSt(St), NEW a \in Adapters, NEW k \in Keys, NEW p \in Payloads, PostMemory(a, k, p)
  PROVE  ApiKeeps
<1> DEFINE q == [p EXCEPT !.tags = @ \cup {a}]
<1>1. q \in Payload
  BY InputAssumption, LabelledIsPayload
<1>2. WriteMemory(a, k, q)
  BY DEF PostMemory
<1> HIDE DEF q
<1>3. PICK m \in Mount(St, a) :
        \/ m.ok /\ Commit([m.st EXCEPT !.tables[a] = Put(m.st.tables[a], k, q)])
        \/ ~m.ok /\ Commit(m.st)
  BY <1>2 DEF WriteMemory, OnTable
<1>4. m.ok => IsTable(Put(m.st.tables[a], k, q))
  BY <1>1, MountedTable, PutIsTable
<1> QED
  BY <1>3, <1>4, OutcomeKeeps

\* An update of one entry.
LEMMA UpdateKeeps ==
  ASSUME SoundSt(St), NEW a \in Adapters, NEW k \in Keys, NEW edit \in Edits, UpdateMemory(a, k, edit)
  PROVE  ApiKeeps
<1>1. PICK m \in Mount(St, a) :
        \/ m.ok /\ Commit([m.st EXCEPT !.tables[a] = Amended(m.st.tables[a], {k}, edit)])
        \/ ~m.ok /\ Commit(m.st)
  BY DEF UpdateMemory, OnTable
<1>2. IsEdit(edit)
  BY BodyAssumption DEF IsEdit
<1>3. m.ok => IsTable(Amended(m.st.tables[a], {k}, edit))
  BY <1>2, MountedTable, AmendedIsTable
<1> QED
  BY <1>1, <1>3, OutcomeKeeps

\* An update of all entries with a tag.
LEMMA UpdateByTagKeeps ==
  ASSUME SoundSt(St), NEW a \in Adapters, NEW tag \in Tags, NEW level \in Levels, UpdateByTag(a, tag, level)
  PROVE  ApiKeeps
<1> DEFINE edit == [f \in {"salience"} |-> level]
           Tagged(t) == {k \in DOMAIN t.store : tag \in t.store[k].tags}
<1>1. PICK m \in Mount(St, a) :
        \/ m.ok /\ Commit([m.st EXCEPT !.tables[a] = Amended(m.st.tables[a], Tagged(m.st.tables[a]), edit)])
        \/ ~m.ok /\ Commit(m.st)
  BY DEF UpdateByTag, OnTable
<1>2. IsEdit(edit)
  BY BodyAssumption DEF IsEdit, Fields
<1> HIDE DEF edit, Tagged
<1>3. m.ok => IsTable(Amended(m.st.tables[a], Tagged(m.st.tables[a]), edit))
  BY <1>2, MountedTable, AmendedIsTable
<1> QED
  BY <1>1, <1>3, OutcomeKeeps

\* An explicit tick and its sweep.
LEMMA TickKeeps ==
  ASSUME SoundSt(St), NEW a \in Adapters, NEW steps \in Steps, NEW threshold, TickMemory(a, steps, threshold)
  PROVE  ApiKeeps
<1>1. PICK m \in Mount(St, a) :
        \/ m.ok /\ Commit([m.st EXCEPT !.tables[a] = EvictStale(Tick(m.st.tables[a], steps), threshold)])
        \/ ~m.ok /\ Commit(m.st)
  BY DEF TickMemory, OnTable
<1>2. m.ok => IsTable(Tick(m.st.tables[a], steps))
  BY InputAssumption, MountedTable, TickIsTable
<1>3. m.ok => IsTable(EvictStale(Tick(m.st.tables[a], steps), threshold))
  BY <1>2, EvictIsTable
<1> QED
  BY <1>1, <1>3, OutcomeKeeps

\* A packet: a tick, perhaps, and a boost.
LEMMA SyncKeeps ==
  ASSUME SoundSt(St), NEW a \in Adapters, NEW tenths \in Deltas, NEW boost \in Boosts, Sync(a, tenths, boost)
  PROVE  ApiKeeps
<1>1. PICK o \in HandlePidxSync(St, a, tenths, boost) : Commit(o.st)
  BY DEF Sync, Finish
<1> QED
  BY <1>1, SyncProper, CommitKeeps DEF Proper

\* All requests about one adapter.
LEMMA RequestKeeps ==
  ASSUME SoundSt(St), NEW a \in Adapters, Request(a)
  PROVE  ApiKeeps /\ UNCHANGED idle
<1>1. UNCHANGED idle
  BY DEF Request, FetchMemory, DeleteMemory, PostMemory, UpdateMemory, UpdateByTag, TickMemory, Sync
<1> QED
  BY <1>1, FetchKeeps, DeleteKeeps, PostKeeps, UpdateKeeps, UpdateByTagKeeps, TickKeeps, SyncKeeps
     DEF Request

\* A query begins in the state the automatic tick leaves.
LEMMA TickedStart ==
  ASSUME ApiSound
  PROVE  LET start == IF idle >= Interval THEN AutoTicked(St, idle \div Interval) ELSE St
         IN  SoundSt(start) /\ Grows(St, start)
<1>1. idle \div Interval \in Int
  BY IntervalAssumption, MaxIdleAssumption DEF ApiSound
<1>2. Alike(St, AutoTicked(St, idle \div Interval))
  BY <1>1, AutoTickAlike DEF ApiSound
<1> QED
  BY <1>2 DEF ApiSound, Alike, Grows

\* A query, after the automatic tick it may start with.
LEMMA LookupKeeps ==
  ASSUME ApiSound, Lookup
  PROVE  ApiKeeps /\ idle' = Remaining(idle)
<1> DEFINE start == IF idle >= Interval THEN AutoTicked(St, idle \div Interval) ELSE St
<1>1. SoundSt(start) /\ Grows(St, start)
  BY TickedStart
<1> HIDE DEF start
<1>2. ASSUME NEW o, Proper(start, o), Commit(o.st) PROVE ApiKeeps
  BY <1>1, <1>2, CommitKeeps, GrowsOnward DEF Proper
<1>3. ASSUME NEW a \in Adapters, NEW k, Query(a, k) PROVE ApiKeeps /\ idle' = Remaining(idle)
  <2>1. PICK o \in HandleTrigger(start, a, k) : Commit(o.st)
    BY <1>3 DEF Query, AfterAutoTick, start
  <2> QED
    BY <1>1, <1>2, <1>3, <2>1, TriggerProper DEF Query, AfterAutoTick
<1>4. ASSUME NEW hints \in HintLists, NEW k, QueryCross(hints, k) PROVE ApiKeeps /\ idle' = Remaining(idle)
  <2>1. PICK o \in HandleCrossTrigger(start, hints, k) : Commit(o.st)
    BY <1>4 DEF QueryCross, AfterAutoTick, start
  <2> QED
    BY <1>1, <1>2, <1>4, <2>1, CrossTriggerProper DEF QueryCross, AfterAutoTick
<1>5. CASE QueryUnhashable
  <2>1. Commit(start) /\ idle' = Remaining(idle)
    BY <1>5 DEF QueryUnhashable, AfterAutoTick, start
  <2> QED
    BY <1>1, <2>1, CommitKeeps
<1> QED
  BY <1>3, <1>4, <1>5 DEF Lookup

\* The end of a process leaves the databases.
LEMMA EndedProper ==
  ASSUME NEW st, SoundSt(st)
  PROVE  /\ SoundSt(Ended(st)) /\ Ended(st).disk = st.disk
         /\ Ended(st).order = <<>> /\ Ended(st).tables = [a \in {} |-> Absent]
<1> DEFINE t == Ended(st)
<1>1. /\ t.order = <<>> /\ t.tables = [a \in {} |-> Absent] /\ t.disk = st.disk
      /\ t \in [order : {t.order}, tables : {t.tables}, disk : {t.disk}]
  BY DEF Ended, SoundSt
<1> HIDE DEF t
<1>2. Lists(t.order, DOMAIN t.tables) /\ Len(t.order) = 0
  BY <1>1, ListsEmpty
<1>3. SoundSt(t)
  BY <1>1, <1>2, MaxLoadedAssumption DEF SoundSt
<1> QED
  BY <1>1, <1>3 DEF t

\* The end of the process, flushed or not.
LEMMA EndKeeps ==
  ASSUME SoundSt(St), Shutdown \/ Restart
  PROVE  ApiKeeps /\ idle' = 0
<1>1. ASSUME NEW t, SoundSt(t), Grows(St, t), Commit(Ended(t)) PROVE ApiKeeps
  <2>1. SoundSt(Ended(t)) /\ Grows(St, Ended(t))
    BY <1>1, EndedProper DEF Grows
  <2> QED
    BY <1>1, <2>1, CommitKeeps
<1>2. CASE Shutdown
  <2>1. PICK o \in FlushAll(St) : Commit(Ended(o.st))
    BY <1>2 DEF Shutdown
  <2>2. SoundSt(o.st) /\ Grows(St, o.st)
    BY FlushAllEffect, EffectGrows
  <2> QED
    BY <1>1, <1>2, <2>1, <2>2 DEF Shutdown
<1>3. CASE Restart
  <2>1. Commit(Ended(St))
    BY <1>3, EndedProper DEF Restart, Crash, Commit, St
  <2> QED
    BY <1>1, <1>3, <2>1 DEF Restart, Grows
<1> QED
  BY <1>2, <1>3

\* Every step of the server.
LEMMA ApiStep ==
  ASSUME ApiSound, [ApiNext]_apiVars
  PROVE  ApiKeeps /\ ApiSound'
<1>1. ASSUME ApiKeeps, idle' \in 0..MaxIdle PROVE ApiKeeps /\ ApiSound'
  BY <1>1 DEF ApiKeeps, ApiSound
<1>2. CASE UNCHANGED apiVars
  BY <1>1, <1>2, SameKeeps DEF apiVars, ApiSound
<1>3. CASE Pass
  <2>1. idle' \in 0..MaxIdle
    BY <1>3, MaxIdleAssumption DEF Pass, ApiSound
  <2> QED
    BY <1>1, <1>3, <2>1, SameKeeps DEF Pass, vars, ApiSound
<1>4. CASE Lookup
  <2>1. Remaining(idle) \in 0..MaxIdle
    BY MaxIdleAssumption DEF Remaining, ApiSound
  <2> QED
    BY <1>1, <1>4, <2>1, LookupKeeps
<1>5. ASSUME NEW a \in Adapters, Request(a) PROVE ApiKeeps /\ ApiSound'
  BY <1>1, <1>5, RequestKeeps DEF ApiSound
<1>6. CASE Shutdown \/ Restart
  <2>1. 0 \in 0..MaxIdle
    BY MaxIdleAssumption
  <2> QED
    BY <1>1, <1>6, <2>1, EndKeeps DEF ApiSound
<1> QED
  BY <1>2, <1>3, <1>4, <1>5, <1>6 DEF ApiNext

\* The endpoints, which reach past the manager into its tables and tick them
\* behind its back, leave its invariants alone.
THEOREM ApiTypeCorrect == ApiSpec => []ApiTypeOK
<1>1. ApiInit => ApiSound
  BY InitSound, MaxIdleAssumption DEF ApiInit, ApiSound
<1>2. ApiSound /\ [ApiNext]_apiVars => ApiSound'
  BY ApiStep
<1>3. ApiSound => ApiTypeOK
  BY DEF ApiSound, ApiTypeOK, SoundSt, St, TypeOK, Lists
<1> QED
  BY <1>1, <1>2, <1>3, PTL DEF ApiSpec

----------------------------------------------------------------------------
(* What a request may do to the memories of other adapters, while saves do *)
(* not fail and the payloads of writes are plain.                          *)

\* The memories that are not stale are in t what they were in st, but for
\* those of the adapters in S.
Spares(st, t, S) ==
  \A b \in Adapters \ S : \A k \in DOMAIN View(st, b) \ Stale(View(st, b), EvictionThreshold) :
    k \in DOMAIN View(t, b) /\ View(t, b)[k] = View(st, b)[k]

LastUsed(st, a) == Len(st.order) # 0 /\ st.order[Len(st.order)] = a

\* What a request leaves: plain memories, and of every adapter but the one
\* it is about the live ones.
Leaves(st, t) ==
  /\ SoundSt(t) /\ PlainSt(t)
  /\ Spares(st, t, {}) \/ \E a \in Adapters : Spares(st, t, {a}) /\ LastUsed(t, a)

\* What is spared twice is spared: a memory that did not change is no more
\* stale than it was.
LEMMA SparesOnward ==
  ASSUME NEW r, NEW st, NEW t, NEW S, Spares(r, st, S), Spares(st, t, S)
  PROVE  Spares(r, t, S)
<1> SUFFICES ASSUME NEW b \in Adapters \ S,
                    NEW k \in DOMAIN View(r, b) \ Stale(View(r, b), EvictionThreshold)
             PROVE  k \in DOMAIN View(t, b) /\ View(t, b)[k] = View(r, b)[k]
  BY DEF Spares
<1>1. k \in DOMAIN View(st, b) /\ View(st, b)[k] = View(r, b)[k]
  BY DEF Spares
<1>2. k \notin Stale(View(st, b), EvictionThreshold)
  BY <1>1 DEF Stale
<1> QED
  BY <1>1, <1>2 DEF Spares

\* What spares all adapters spares all but some.
LEMMA SparesFewer ==
  ASSUME NEW st, NEW t, NEW S, Spares(st, t, {})
  PROVE  Spares(st, t, S)
BY DEF Spares

\* A save and a load bring every plain memory back.
LEMMA SavedSpares ==
  ASSUME NEW st, SoundSt(st), PlainSt(st), NEW t, KeptOrSaved(st, t, Adapters)
  PROVE  PlainSt(t) /\ Spares(st, t, {})
<1>1. ASSUME NEW b \in Adapters, Kept(st, t, b)
      PROVE  View(t, b) = View(st, b) /\ PlainRows(View(t, b)) /\ PlainRows(t.disk[b])
  BY <1>1 DEF Kept, PlainSt
<1>2. ASSUME NEW b \in Adapters, Saved(st, t, b)
      PROVE  /\ PlainRows(View(t, b)) /\ PlainRows(t.disk[b])
             /\ \A k \in DOMAIN View(st, b) : k \in DOMAIN View(t, b) /\ View(t, b)[k] = View(st, b)[k]
  <2> DEFINE store == View(st, b)
             rows == Upserted(st.disk[b], Rows(store))
  <2>1. IsContents(store) /\ PlainRows(store) /\ PlainRows(st.disk[b])
    BY DEF SoundSt, PlainSt, View, IsTable
  <2>2. t.disk[b] = rows /\ View(t, b) = rows
    BY <1>2 DEF Saved
  <2> HIDE DEF store
  <2>3. \A k \in DOMAIN store : Row(store[k]) = store[k] /\ IsPlain(store[k])
    BY <2>1, PlainIsItsRow DEF IsContents, PlainRows
  <2>4. /\ DOMAIN rows = DOMAIN st.disk[b] \cup DOMAIN store
        /\ \A k \in DOMAIN rows : rows[k] = IF k \in DOMAIN store THEN store[k] ELSE st.disk[b][k]
    BY <2>3 DEF Upserted, Rows
  <2>5. PlainRows(rows)
    BY <2>1, <2>3, <2>4 DEF PlainRows
  <2> QED
    BY <2>2, <2>4, <2>5 DEF store
<1>3. \A b \in Adapters : Kept(st, t, b) \/ Saved(st, t, b)
  BY DEF KeptOrSaved
<1>4. PlainSt(t)
  BY <1>1, <1>2, <1>3 DEF PlainSt
<1>5. \A b \in Adapters : \A k \in DOMAIN View(st, b) :
        k \in DOMAIN View(t, b) /\ View(t, b)[k] = View(st, b)[k]
  BY <1>1, <1>2, <1>3
<1> QED
  BY <1>4, <1>5 DEF Spares

\* A plain table can be saved, if the disk works.
LEMMA PlainIsSaved ==
  ASSUME "save" \notin Faults, NEW st, SoundSt(st), PlainSt(st), NEW a \in DOMAIN st.tables
  PROVE  Saveable(st.tables[a]) /\ ~MayFail(st.tables[a])
<1>1. a \in Adapters /\ View(st, a) = st.tables[a].store
  BY SoundStFacts DEF View
<1> QED
  BY <1>1 DEF PlainSt, PlainRows, IsPlain, Saveable, MayFail

\* mount, returned or not, checkpoints what it does not keep, and a table
\* it returns was used last.
LEMMA MountSpares ==
  ASSUME "save" \notin Faults, NEW st, SoundSt(st), PlainSt(st), NEW a \in Adapters, NEW m \in Mount(st, a)
  PROVE  /\ PlainSt(m.st) /\ Spares(st, m.st, {})
         /\ m.ok => LastUsed(m.st, a)
<1>1. ASSUME NEW s, SoundSt(s), NEW o \in LoadTable(s, a), o.ok
      PROVE  LastUsed(o.st, a)
  <2>1. o.st.order = Append(s.order, a)
    <3> DEFINE t == [s EXCEPT !.order = Append(@, a),
                              !.tables = [b \in DOMAIN @ \cup {a} |->
                                            IF b = a THEN Load(s.disk[a]) ELSE @[b]]]
    <3>1. o = [st |-> t, ok |-> TRUE] \/ o = [st |-> s, ok |-> FALSE]
      BY <1>1 DEF LoadTable, Returns, Raises
    <3>2. t.order = Append(s.order, a)
      BY <1>1 DEF SoundSt
    <3> HIDE DEF t
    <3> QED
      BY <1>1, <3>1, <3>2
  <2> QED
    BY <1>1, <2>1, SoundStFacts, AppendProperties DEF LastUsed
<1>2. CASE a \in DOMAIN st.tables
  <2>1. m.st = Touch(st, a) /\ m.ok = TRUE
    BY <1>2 DEF Mount, Returns
  <2>2. \A b \in Adapters : Kept(st, m.st, b)
    BY <1>2, <2>1, TouchEffect DEF Kept, View
  <2>3. m.st.order = Append(RemoveFirst(st.order, a), a)
    BY <2>1 DEF Touch, SoundSt
  <2>4. RemoveFirst(st.order, a) \in Seq(Adapters)
    <3>1. Lists(RemoveFirst(st.order, a), DOMAIN st.tables \ {a})
      BY <1>2, ListsRemove DEF SoundSt
    <3>2. DOMAIN st.tables \ {a} \subseteq Adapters
      BY SoundStFacts
    <3> QED
      BY <3>1, <3>2 DEF Lists
  <2>5. LastUsed(m.st, a)
    BY <2>3, <2>4, AppendProperties DEF LastUsed
  <2> QED
    BY <2>1, <2>2, <2>5, SavedSpares DEF KeptOrSaved
<1>3. CASE a \notin DOMAIN st.tables /\ Len(st.order) < MaxLoaded
  <2>1. m \in LoadTable(st, a)
    BY <1>3, SoundStFacts, MaxLoadedAssumption DEF Mount
  <2>2. KeptOrSaved(st, m.st, Adapters)
    BY <1>3, <2>1, LoadTableEffect DEF KeptOrSaved
  <2> QED
    BY <1>1, <2>1, <2>2, SavedSpares
<1>4. CASE a \notin DOMAIN st.tables /\ Len(st.order) >= MaxLoaded
  <2> DEFINE v == Head(st.order)
  <2>1. v \in DOMAIN st.tables
    BY <1>4, SoundStFacts, MaxLoadedAssumption
  <2>2. \A o \in EvictLru(st) : o.ok
    BY <2>1, PlainIsSaved DEF EvictLru, DropAndSave, Returns, Raises
  <2>3. m \in AndThen(EvictLru(st), LAMBDA s : LoadTable(s, a))
    BY <1>4 DEF Mount
  <2>4. \E o \in EvictLru(st) : m \in LoadTable(o.st, a)
    BY <2>2, <2>3 DEF AndThen
  <2>5. PICK o \in EvictLru(st) : m \in LoadTable(o.st, a)
    BY <2>4
  <2>6. /\ SoundSt(o.st) /\ Len(o.st.order) = Len(st.order) - 1
        /\ DOMAIN o.st.tables = DOMAIN st.tables \ {v}
        /\ KeptOrSaved(st, o.st, Adapters)
    BY <2>1, <2>2, DropAndSaveEffect DEF EvictLru
  <2>7. a \in Adapters \ DOMAIN o.st.tables /\ Len(o.st.order) < MaxLoaded
    BY <1>4, <2>6, SoundStFacts, MaxLoadedAssumption DEF SoundSt
  <2>8. \A b \in Adapters : Kept(o.st, m.st, b)
    BY <2>5, <2>6, <2>7, LoadTableEffect
  <2>9. KeptOrSaved(st, m.st, Adapters)
    BY <2>6, <2>8, EffectThenKept
  <2> QED
    BY <1>1, <2>5, <2>6, <2>9, SavedSpares
<1> QED
  BY <1>2, <1>3, <1>4, SoundStFacts, MaxLoadedAssumption

\* mount, and then a change to the table that leaves it plain.
ChangesPlainly(st, a, o) ==
  \E m \in Mount(st, a) :
    \/ ~m.ok /\ o = m
    \/ m.ok /\ \E table : IsTable(table) /\ PlainRows(table.store) /\ o = Returns([m.st EXCEPT !.tables[a] = table])

\* What mount returns is plain.
LEMMA MountedPlain ==
  ASSUME "save" \notin Faults, NEW st, SoundSt(st), PlainSt(st), NEW a \in Adapters,
         NEW m \in Mount(st, a), m.ok
  PROVE  IsTable(m.st.tables[a]) /\ PlainRows(m.st.tables[a].store)
<1>1. PlainSt(m.st) /\ SoundSt(m.st) /\ a \in DOMAIN m.st.tables
  BY MountSpares, MountProper DEF Proper
<1> QED
  BY <1>1, MountedTable DEF PlainSt, View

\* Such a call concerns its own adapter.
LEMMA ChangeLeaves ==
  ASSUME "save" \notin Faults, NEW st, SoundSt(st), PlainSt(st), NEW a \in Adapters,
         NEW o, ChangesPlainly(st, a, o)
  PROVE  /\ SoundSt(o.st) /\ PlainSt(o.st) /\ Leaves(st, o.st)
         /\ ~o.ok => Spares(st, o.st, {})
         /\ o.ok => a \in DOMAIN o.st.tables /\ Spares(st, o.st, {a}) /\ LastUsed(o.st, a)
<1>1. PICK m \in Mount(st, a) :
        \/ ~m.ok /\ o = m
        \/ m.ok /\ \E table : IsTable(table) /\ PlainRows(table.store) /\ o = Returns([m.st EXCEPT !.tables[a] = table])
  BY DEF ChangesPlainly
<1>2. /\ SoundSt(m.st) /\ PlainSt(m.st) /\ Spares(st, m.st, {})
      /\ m.ok => a \in DOMAIN m.st.tables /\ LastUsed(m.st, a)
  BY MountSpares, MountProper DEF Proper
<1>3. CASE ~m.ok /\ o = m
  BY <1>2, <1>3 DEF Leaves
<1>4. ASSUME NEW table, m.ok, IsTable(table), PlainRows(table.store),
             NEW t, t = [m.st EXCEPT !.tables[a] = table], o = Returns(t)
      PROVE  /\ SoundSt(t) /\ PlainSt(t) /\ a \in DOMAIN t.tables
             /\ Spares(st, t, {a}) /\ LastUsed(t, a)
  <2>1. SoundSt(t) /\ \A b \in Adapters \ {a} : Kept(m.st, t, b)
    BY <1>2, <1>4, ChangeTable
  <2>2. PlainSt(t)
    BY <1>2, <1>4, PlainChange
  <2>3. Spares(m.st, t, {a})
    BY <2>1 DEF Spares, Kept
  <2>4. Spares(st, t, {a})
    BY <1>2, <2>3, SparesOnward, SparesFewer
  <2>5. t.order = m.st.order /\ DOMAIN t.tables = DOMAIN m.st.tables
    BY <1>2, <1>4 DEF SoundSt
  <2> QED
    BY <1>2, <1>4, <2>1, <2>2, <2>4, <2>5 DEF LastUsed
<1>5. \A t : Returns(t).st = t /\ Returns(t).ok = TRUE
  BY DEF Returns
<1>6. CASE m.ok /\ \E table : IsTable(table) /\ PlainRows(table.store) /\ o = Returns([m.st EXCEPT !.tables[a] = table])
  <2>1. PICK table : IsTable(table) /\ PlainRows(table.store) /\ o = Returns([m.st EXCEPT !.tables[a] = table])
    BY <1>6
  <2> DEFINE t == [m.st EXCEPT !.tables[a] = table]
  <2>2. o.st = t /\ o.ok = TRUE
    BY <2>1, <1>5
  <2>3. /\ SoundSt(t) /\ PlainSt(t) /\ a \in DOMAIN t.tables
        /\ Spares(st, t, {a}) /\ LastUsed(t, a)
    BY <1>4, <1>6, <2>1
  <2> HIDE DEF t
  <2> QED
    BY <2>2, <2>3 DEF Leaves
<1> QED
  BY <1>1, <1>3, <1>6

\* What every outcome of a query keeps: a sweep takes only what is stale.
SparesAll(st, o) == SoundSt(o.st) /\ PlainSt(o.st) /\ Spares(st, o.st, {}) /\ o.ok \in BOOLEAN

\* The sweep a query begins with takes what the default threshold lets go.
LEMMA SweptSpares ==
  ASSUME "save" \notin Faults, NEW st, SoundSt(st), PlainSt(st), NEW a \in Adapters, NEW o \in Swept(st, a)
  PROVE  SparesAll(st, o)
<1>1. \/ o \in Mount(st, a) /\ ~o.ok
      \/ \E m \in Mount(st, a) :
           m.ok /\ o = Returns([m.st EXCEPT !.tables[a] = EvictStale(m.st.tables[a], EvictionThreshold)])
  BY DEF Swept, Mounted, AndThen, InTable
<1>2. CASE o \in Mount(st, a) /\ ~o.ok
  BY <1>2, MountSpares, MountProper DEF SparesAll, Proper
<1>3. ASSUME NEW m \in Mount(st, a), m.ok, NEW table, table = EvictStale(m.st.tables[a], EvictionThreshold),
             o = Returns([m.st EXCEPT !.tables[a] = table])
      PROVE  SparesAll(st, o)
  <2> DEFINE t == [m.st EXCEPT !.tables[a] = table]
  <2>1. /\ SoundSt(m.st) /\ PlainSt(m.st) /\ Spares(st, m.st, {})
        /\ a \in DOMAIN m.st.tables
    BY <1>3, MountSpares, MountProper DEF Proper
  <2>2. IsTable(table) /\ PlainRows(table.store)
    BY <1>3, MountedPlain, EvictIsTable, PlainSwept
  <2>3. /\ SoundSt(t) /\ View(t, a) = table.store /\ PlainSt(t)
        /\ \A b \in Adapters \ {a} : Kept(m.st, t, b)
    BY <2>1, <2>2, ChangeTable, PlainChange
  <2>4. o.st = t /\ o.ok = TRUE
    BY <1>3 DEF Returns
  <2> HIDE DEF t
  <2>5. \A k \in DOMAIN View(m.st, a) \ Stale(View(m.st, a), EvictionThreshold) :
          k \in DOMAIN table.store /\ table.store[k] = View(m.st, a)[k]
    BY <1>3, <2>1 DEF View, EvictStale, Without, Restrict
  <2>6. Spares(m.st, t, {})
    BY <2>3, <2>5 DEF Spares, Kept
  <2> QED
    BY <2>1, <2>3, <2>4, <2>6, SparesOnward DEF SparesAll
<1> QED
  BY <1>1, <1>2, <1>3

\* handle_trigger spares all that is live.
LEMMA TriggerSpares ==
  ASSUME "save" \notin Faults, NEW st, SoundSt(st), PlainSt(st), NEW a \in Adapters, NEW hash,
         NEW o \in HandleTrigger(st, a, hash)
  PROVE  SparesAll(st, o)
<1>1. \/ o \in Swept(st, a)
      \/ \E s \in Swept(st, a) : s.ok /\ \E memories, hit : o \in Respond(s.st, memories, hit)
  BY DEF HandleTrigger, AndThen
<1>2. \A s \in Swept(st, a) : SparesAll(st, s)
  BY SweptSpares
<1>3. ASSUME NEW s \in Swept(st, a), NEW memories, NEW hit, o \in Respond(s.st, memories, hit)
      PROVE  SparesAll(st, o)
  BY <1>2, <1>3, RespondKeepsState DEF SparesAll
<1> QED
  BY <1>1, <1>2, <1>3

Sparing == INSTANCE FoldTheorems WITH
  op <- LAMBDA hash, outcomes, a :
          {o \in outcomes : ~o.ok} \cup UNION {Collected(o, a, hash) : o \in {b \in outcomes : b.ok}},
  P  <- LAMBDA st, k, outcomes : \A o \in outcomes : SparesAll(st, o)

\* A round of handle_cross_trigger sweeps one more table.
LEMMA CollectedSpares ==
  ASSUME "save" \notin Faults, NEW st, NEW b, SparesAll(st, b), NEW a \in Adapters, NEW hash,
         NEW o \in Collected(b, a, hash)
  PROVE  SparesAll(st, o)
<1>1. \A s \in Swept(b.st, a) : SparesAll(st, s)
  <2> SUFFICES ASSUME NEW s \in Swept(b.st, a) PROVE SparesAll(st, s)
    OBVIOUS
  <2>1. SparesAll(b.st, s)
    BY SweptSpares DEF SparesAll
  <2> QED
    BY <2>1, SparesOnward DEF SparesAll
<1>2. \/ o \in Swept(b.st, a)
      \/ \E s \in Swept(b.st, a) : \E value : o = Answers(s.st, value)
  BY DEF Collected, AndThen
<1>3. ASSUME NEW s \in Swept(b.st, a), NEW value, o = Answers(s.st, value) PROVE SparesAll(st, o)
  <2>1. o.st = s.st /\ o.ok = TRUE
    BY <1>3 DEF Answers
  <2> QED
    BY <1>1, <2>1 DEF SparesAll
<1> QED
  BY <1>1, <1>2, <1>3

\* So do all its rounds, though one may push the table of another out.
LEMMA CrossTriggerSpares ==
  ASSUME "save" \notin Faults, NEW st, SoundSt(st), PlainSt(st), NEW hints \in HintLists, NEW hash,
         NEW o \in HandleCrossTrigger(st, hints, hash)
  PROVE  SparesAll(st, o)
<1> DEFINE start == {Answers(st, {})}
           collected == Sparing!Fold(hash, start, hints)
<1>1. /\ DOMAIN hints = 1..Len(hints) /\ Len(hints) \in Nat
      /\ \A i \in 1..Len(hints) : hints[i] \in Adapters
  BY BodyAssumption, LenProperties, ElementOfSeq
<1>2. \A b \in start : SparesAll(st, b)
  <2>1. Answers(st, {}).st = st /\ Answers(st, {}).ok = TRUE
    BY DEF Answers
  <2> QED
    BY <2>1 DEF SparesAll, Spares
<1>3. ASSUME NEW i \in 1..Len(hints), NEW outcomes, \A b \in outcomes : SparesAll(st, b),
             NEW c \in {b \in outcomes : ~b.ok}
                       \cup UNION {Collected(b, hints[i], hash) : b \in {d \in outcomes : d.ok}}
      PROVE  SparesAll(st, c)
  BY <1>1, <1>3, CollectedSpares
<1>4. \A c \in collected : SparesAll(st, c)
  <2> HIDE DEF start
  <2> QED
    BY <1>1, <1>2, <1>3, Sparing!FoldInduction
<1> DEFINE Answered(c, R) == Respond(c.st, [f \in R |-> f.payload], Absent)
<1>5. HandleCrossTrigger(st, hints, hash) =
        {c \in collected : ~c.ok} \cup
          UNION {UNION {Answered(c, R) : R \in Rankings(c.value)} : c \in {d \in collected : d.ok}}
  BY DEF HandleCrossTrigger, Sparing!Fold, FoldLeft, MapThenFoldSet, Max,
         Sparing!FoldLeft, Sparing!MapThenFoldSet, Sparing!Max
<1> HIDE DEF collected
<1>6. ASSUME NEW c \in collected, NEW R, o \in Answered(c, R) PROVE SparesAll(st, o)
  BY <1>4, <1>6, RespondKeepsState DEF SparesAll
<1> HIDE DEF Answered
<1>7. o \in collected \/ \E c \in collected : \E R : o \in Answered(c, R)
  BY <1>5
<1> QED
  BY <1>4, <1>6, <1>7

\* A packet concerns its own adapter: the tick, if it takes a step, and the
\* boost after it.
LEMMA SyncLeaves ==
  ASSUME "save" \notin Faults, NEW st, SoundSt(st), PlainSt(st), NEW a \in Adapters,
         NEW tenths \in Deltas, NEW boost \in Boosts, NEW o \in HandlePidxSync(st, a, tenths, boost)
  PROVE  Leaves(st, o.st)
<1> DEFINE steps == ConvertPidxDelta(tenths)
           aged == IF steps > 0 THEN Mounted(st, a, LAMBDA t : Tick(t, steps)) ELSE {Returns(st)}
<1>1. steps \in Int
  BY BodyAssumption DEF ConvertPidxDelta, TenthsPerDay
<1> HIDE DEF steps
<1>2. ASSUME NEW b \in aged
      PROVE  /\ SoundSt(b.st) /\ PlainSt(b.st) /\ Leaves(st, b.st)
             /\ b.ok => Spares(st, b.st, {a}) /\ (a \in DOMAIN b.st.tables \/ b.st = st)
  <2>1. CASE steps > 0
    <3>1. \/ b \in Mount(st, a) /\ ~b.ok
          \/ \E m \in Mount(st, a) : m.ok /\ b = Returns([m.st EXCEPT !.tables[a] = Tick(m.st.tables[a], steps)])
      BY <1>2, <2>1 DEF Mounted, AndThen, InTable
    <3>2. ASSUME NEW m \in Mount(st, a), m.ok
          PROVE  IsTable(Tick(m.st.tables[a], steps)) /\ PlainRows(Tick(m.st.tables[a], steps).store)
      BY <1>1, <3>2, MountedPlain, TickIsTable, PlainAged
    <3>3. ChangesPlainly(st, a, b)
      BY <3>1, <3>2 DEF ChangesPlainly
    <3> QED
      BY <3>3, ChangeLeaves
  <2>2. CASE ~(steps > 0)
    <3>1. b.st = st
      BY <1>2, <2>2 DEF Returns
    <3> QED
      BY <3>1 DEF Leaves, Spares
  <2> QED
    BY <2>1, <2>2
<1>3. ASSUME NEW b \in aged, b.ok, NEW c, ChangesPlainly(b.st, a, c), c.ok PROVE Leaves(st, c.st)
  <2>1. SoundSt(c.st) /\ PlainSt(c.st) /\ Spares(b.st, c.st, {a}) /\ LastUsed(c.st, a)
    BY <1>2, <1>3, ChangeLeaves
  <2>2. Spares(st, c.st, {a})
    BY <1>2, <1>3, <2>1, SparesOnward
  <2> QED
    BY <2>1, <2>2 DEF Leaves
<1> DEFINE mounted == AndThen(aged, LAMBDA s : Mount(s, a))
           After(s, choice) == Returns([s EXCEPT !.tables[a] = Boosted(s.tables[a], boost, choice)])
<1>4. HandlePidxSync(st, a, tenths, boost) =
        IF DOMAIN boost = {} THEN aged
        ELSE {m \in mounted : ~m.ok} \cup
               UNION {{After(m.st, choice) : choice \in BoostChoices(m.st.tables[a].store, boost)} :
                        m \in {l \in mounted : l.ok}}
  BY DEF HandlePidxSync, steps, AndThen, InTable
<1> HIDE DEF aged
<1>5. \A m \in mounted : (m \in aged /\ ~m.ok) \/ \E b \in aged : b.ok /\ m \in Mount(b.st, a)
  BY DEF AndThen
<1> HIDE DEF mounted
<1>6. ASSUME NEW b \in aged, b.ok, NEW m \in Mount(b.st, a), ~m.ok PROVE Leaves(st, m.st)
  <2>1. a \notin DOMAIN b.st.tables
    BY <1>6 DEF Mount, Returns
  <2>2. b.st = st
    BY <1>2, <1>6, <2>1
  <2> QED
    BY <1>6, <2>2, MountSpares, MountProper DEF Leaves, Proper
<1>7. ASSUME NEW b \in aged, b.ok, NEW m \in Mount(b.st, a), m.ok,
             NEW choice \in BoostChoices(m.st.tables[a].store, boost)
      PROVE  Leaves(st, After(m.st, choice).st)
  <2>1. SoundSt(b.st) /\ PlainSt(b.st)
    BY <1>2
  <2>2. IsTable(m.st.tables[a]) /\ PlainRows(m.st.tables[a].store)
    BY <1>7, <2>1, MountedPlain
  <2>3. /\ IsTable(Boosted(m.st.tables[a], boost, choice))
        /\ PlainRows(Boosted(m.st.tables[a], boost, choice).store)
    BY <1>7, <2>2, BoostedIsTable, PlainBoosted
  <2>4. ChangesPlainly(b.st, a, After(m.st, choice))
    BY <1>7, <2>3 DEF ChangesPlainly
  <2>5. After(m.st, choice).ok
    BY DEF Returns
  <2> HIDE DEF After
  <2> QED
    BY <1>3, <1>7, <2>4, <2>5
<1> HIDE DEF After
<1>8. ASSUME NEW m \in mounted, ~m.ok PROVE Leaves(st, m.st)
  BY <1>2, <1>5, <1>6, <1>8
<1>9. ASSUME NEW m \in mounted, m.ok, NEW choice \in BoostChoices(m.st.tables[a].store, boost)
      PROVE  Leaves(st, After(m.st, choice).st)
  BY <1>5, <1>7, <1>9
<1> QED
  BY <1>2, <1>4, <1>8, <1>9

\* What a committed outcome does, the manager's state being the state.
LEMMA CommitLeaves ==
  ASSUME NEW t, Leaves(St, t), Commit(t)
  PROVE  Leaves(St, St')
<1>1. St' = t
  BY CommitAsStore DEF Leaves
<1> QED
  BY <1>1

\* A request that mounts an adapter and changes its table.
LEMMA OutcomeLeaves ==
  ASSUME "save" \notin Faults, SoundSt(St), PlainSt(St), NEW a \in Adapters, NEW m \in Mount(St, a),
         NEW table, m.ok => IsTable(table) /\ PlainRows(table.store),
         \/ m.ok /\ Commit([m.st EXCEPT !.tables[a] = table])
         \/ ~m.ok /\ Commit(m.st)
  PROVE  Leaves(St, St')
<1>1. CASE m.ok /\ Commit([m.st EXCEPT !.tables[a] = table])
  <2> DEFINE t == [m.st EXCEPT !.tables[a] = table]
  <2>1. ChangesPlainly(St, a, Returns(t)) /\ Returns(t).st = t
    BY <1>1 DEF ChangesPlainly, Returns
  <2>2. ASSUME NEW o, o = Returns(t) PROVE Leaves(St, o.st)
    BY <2>1, <2>2, ChangeLeaves
  <2>3. Leaves(St, t)
    BY <2>1, <2>2
  <2> HIDE DEF t
  <2>4. Commit(t)
    BY <1>1 DEF t
  <2> QED
    BY <2>3, <2>4, CommitLeaves
<1>2. CASE ~m.ok /\ Commit(m.st)
  BY <1>2, ChangeLeaves, CommitLeaves DEF ChangesPlainly
<1> QED
  BY <1>1, <1>2

\* All requests about one adapter.
LEMMA RequestLeaves ==
  ASSUME "save" \notin Faults, \A p \in Payloads : IsPlain(p),
         SoundSt(St), PlainSt(St), NEW a \in Adapters, Request(a)
  PROVE  Leaves(St, St')
<1>1. ASSUME NEW k \in Keys, FetchMemory(a, k) PROVE Leaves(St, St')
  <2>1. PICK m \in Mount(St, a) :
          \/ m.ok /\ Commit([m.st EXCEPT !.tables[a] = m.st.tables[a]])
          \/ ~m.ok /\ Commit(m.st)
    BY <1>1 DEF FetchMemory, GetMemory, OnTable
  <2> QED
    BY <2>1, MountedPlain, OutcomeLeaves
<1>2. ASSUME NEW k \in Keys, DeleteMemory(a, k) PROVE Leaves(St, St')
  <2>1. PICK m \in Mount(St, a) :
          \/ m.ok /\ Commit([m.st EXCEPT !.tables[a] = [m.st.tables[a] EXCEPT !.store = Without(@, {k})]])
          \/ ~m.ok /\ Commit(m.st)
    BY <1>2 DEF DeleteMemory, OnTable
  <2> DEFINE left == [m.st.tables[a] EXCEPT !.store = Without(@, {k})]
  <2>2. m.ok => IsTable(left) /\ left.store = Without(m.st.tables[a].store, {k})
    BY MountedPlain, WithoutIsTable DEF IsTable
  <2>3. m.ok => PlainRows(left.store)
    <3> HIDE DEF left
    <3> QED
      BY <2>2, MountedPlain, PlainWithout
  <2> QED
    BY <2>1, <2>2, <2>3, OutcomeLeaves
<1>3. ASSUME NEW k \in Keys, NEW p \in Payloads, PostMemory(a, k, p) PROVE Leaves(St, St')
  <2> DEFINE q == [p EXCEPT !.tags = @ \cup {a}]
  <2>1. q \in Payload /\ IsPlain(q)
    BY InputAssumption, LabelledIsPayload DEF IsPlain, Payload
  <2>2. WriteMemory(a, k, q)
    BY <1>3 DEF PostMemory
  <2> HIDE DEF q
  <2>3. PICK m \in Mount(St, a) :
          \/ m.ok /\ Commit([m.st EXCEPT !.tables[a] = Put(m.st.tables[a], k, q)])
          \/ ~m.ok /\ Commit(m.st)
    BY <2>2 DEF WriteMemory, OnTable
  <2>4. m.ok => IsTable(Put(m.st.tables[a], k, q)) /\ PlainRows(Put(m.st.tables[a], k, q).store)
    BY <2>1, <1>3, MountedPlain, PutIsTable, PlainPut
  <2> QED
    BY <2>3, <2>4, OutcomeLeaves
<1>4. ASSUME NEW k \in Keys, NEW edit \in Edits, UpdateMemory(a, k, edit) PROVE Leaves(St, St')
  <2>1. PICK m \in Mount(St, a) :
          \/ m.ok /\ Commit([m.st EXCEPT !.tables[a] = Amended(m.st.tables[a], {k}, edit)])
          \/ ~m.ok /\ Commit(m.st)
    BY <1>4 DEF UpdateMemory, OnTable
  <2>2. IsEdit(edit)
    BY BodyAssumption DEF IsEdit
  <2>3. m.ok => /\ IsTable(Amended(m.st.tables[a], {k}, edit))
                /\ PlainRows(Amended(m.st.tables[a], {k}, edit).store)
    BY <2>2, MountedPlain, AmendedIsTable, PlainEdited
  <2> QED
    BY <2>1, <2>3, OutcomeLeaves
<1>5. ASSUME NEW tag \in Tags, NEW level \in Levels, UpdateByTag(a, tag, level) PROVE Leaves(St, St')
  <2> DEFINE edit == [f \in {"salience"} |-> level]
             Tagged(t) == {k \in DOMAIN t.store : tag \in t.store[k].tags}
  <2>1. PICK m \in Mount(St, a) :
          \/ m.ok /\ Commit([m.st EXCEPT !.tables[a] = Amended(m.st.tables[a], Tagged(m.st.tables[a]), edit)])
          \/ ~m.ok /\ Commit(m.st)
    BY <1>5 DEF UpdateByTag, OnTable
  <2>2. IsEdit(edit)
    BY BodyAssumption DEF IsEdit, Fields
  <2> HIDE DEF edit, Tagged
  <2>3. m.ok => /\ IsTable(Amended(m.st.tables[a], Tagged(m.st.tables[a]), edit))
                /\ PlainRows(Amended(m.st.tables[a], Tagged(m.st.tables[a]), edit).store)
    BY <2>2, MountedPlain, AmendedIsTable, PlainEdited
  <2> QED
    BY <2>1, <2>3, OutcomeLeaves
<1>6. ASSUME NEW steps \in Steps, NEW threshold, TickMemory(a, steps, threshold) PROVE Leaves(St, St')
  <2> DEFINE Later(t) == EvictStale(Tick(t, steps), threshold)
  <2>1. PICK m \in Mount(St, a) :
          \/ m.ok /\ Commit([m.st EXCEPT !.tables[a] = Later(m.st.tables[a])])
          \/ ~m.ok /\ Commit(m.st)
    BY <1>6 DEF TickMemory, OnTable
  <2>2. m.ok => IsTable(Tick(m.st.tables[a], steps)) /\ PlainRows(Tick(m.st.tables[a], steps).store)
    BY InputAssumption, MountedPlain, TickIsTable, PlainAged
  <2>3. m.ok => IsTable(Later(m.st.tables[a])) /\ PlainRows(Later(m.st.tables[a]).store)
    BY <2>2, EvictIsTable, PlainSwept
  <2> HIDE DEF Later
  <2> QED
    BY <2>1, <2>3, OutcomeLeaves
<1>7. ASSUME NEW tenths \in Deltas, NEW boost \in Boosts, Sync(a, tenths, boost) PROVE Leaves(St, St')
  <2>1. PICK o \in HandlePidxSync(St, a, tenths, boost) : Commit(o.st)
    BY <1>7 DEF Sync, Finish
  <2> QED
    BY <2>1, SyncLeaves, CommitLeaves
<1> QED
  BY <1>1, <1>2, <1>3, <1>4, <1>5, <1>6, <1>7 DEF Request

\* Queries leave all memories plain, and if no tick is due they spare them.
LEMMA LookupLeaves ==
  ASSUME "save" \notin Faults, ApiSound, PlainSt(St), Lookup
  PROVE  PlainSt(St') /\ (idle' >= idle => Leaves(St, St'))
<1> DEFINE start == IF idle >= Interval THEN AutoTicked(St, idle \div Interval) ELSE St
<1>1. SoundSt(start) /\ PlainSt(start)
  <2>1. idle \div Interval \in Int
    BY IntervalAssumption, MaxIdleAssumption DEF ApiSound
  <2>2. Alike(St, AutoTicked(St, idle \div Interval))
    BY <2>1, AutoTickAlike DEF ApiSound
  <2> QED
    BY <2>2 DEF ApiSound, Alike
<1>2. idle' = Remaining(idle)
  BY LookupKeeps
<1>3. idle' >= idle => start = St
  BY <1>2, IntervalAssumption, MaxIdleAssumption DEF ApiSound, Remaining
<1> HIDE DEF start
<1>4. ASSUME NEW t, SoundSt(t), PlainSt(t), Spares(start, t, {}), Commit(t)
      PROVE  PlainSt(St') /\ (idle' >= idle => Leaves(St, St'))
  <2>1. St' = t
    BY <1>4, CommitAsStore
  <2> QED
    BY <1>3, <1>4, <2>1 DEF Leaves
<1>5. ASSUME NEW a \in Adapters, NEW k, Query(a, k)
      PROVE  PlainSt(St') /\ (idle' >= idle => Leaves(St, St'))
  <2>1. PICK o \in HandleTrigger(start, a, k) : Commit(o.st)
    BY <1>5 DEF Query, AfterAutoTick, start
  <2>2. SparesAll(start, o)
    BY <1>1, TriggerSpares
  <2> QED
    BY <1>4, <2>1, <2>2 DEF SparesAll
<1>6. ASSUME NEW hints \in HintLists, NEW k, QueryCross(hints, k)
      PROVE  PlainSt(St') /\ (idle' >= idle => Leaves(St, St'))
  <2>1. PICK o \in HandleCrossTrigger(start, hints, k) : Commit(o.st)
    BY <1>6 DEF QueryCross, AfterAutoTick, start
  <2>2. SparesAll(start, o)
    BY <1>1, CrossTriggerSpares
  <2> QED
    BY <1>4, <2>1, <2>2 DEF SparesAll
<1>7. CASE QueryUnhashable
  <2>1. Commit(start)
    BY <1>7 DEF QueryUnhashable, AfterAutoTick, start
  <2>2. Spares(start, start, {})
    BY DEF Spares
  <2> QED
    BY <1>1, <1>4, <2>1, <2>2
<1> QED
  BY <1>5, <1>6, <1>7 DEF Lookup

\* A clean end saves every table, and leaves none in RAM.
LEMMA EndLeaves ==
  ASSUME "save" \notin Faults, SoundSt(St), PlainSt(St), Shutdown
  PROVE  Leaves(St, St')
<1> DEFINE n == Len(order)
           flushed == Flushed(St, n)
<1>1. PICK o \in FlushAll(St) : Commit(Ended(o.st))
  BY DEF Shutdown
<1>2. n \in Nat /\ \A i \in 1..n : order[i] \in DOMAIN tables
  BY SoundStFacts DEF St
<1>3. \A i \in 1..n : Saveable(tables[order[i]]) /\ ~MayFail(tables[order[i]])
  BY <1>2, PlainIsSaved DEF St
<1>4. o.st = flushed
  BY <1>3 DEF FlushAll, St, Returns, Raises
<1>5. SoundSt(flushed) /\ KeptOrSaved(St, flushed, Adapters)
  BY <1>2, <1>3, FlushedEffect DEF St
<1>6. PlainSt(flushed) /\ Spares(St, flushed, {})
  BY <1>5, SavedSpares
<1>7. DOMAIN flushed.tables = {}
  <2>1. DOMAIN flushed.tables = DOMAIN tables \ {order[i] : i \in 1..n}
    BY DEF Flushed, Restrict, St
  <2>2. DOMAIN tables = {order[i] : i \in 1..n}
    <3>1. Lists(order, DOMAIN tables)
      BY DEF SoundSt, St
    <3> QED
      BY <3>1, LenProperties DEF Lists, ToSet
  <2> QED
    BY <2>1, <2>2
<1> HIDE DEF flushed
<1>8. /\ Ended(flushed).disk = flushed.disk
      /\ Ended(flushed).tables = [a \in {} |-> Absent]
  BY <1>5, EndedProper
<1>9. \A b \in Adapters : /\ View(Ended(flushed), b) = View(flushed, b)
                          /\ Ended(flushed).disk[b] = flushed.disk[b]
  BY <1>7, <1>8 DEF View
<1>10. Leaves(St, Ended(flushed))
  BY <1>5, <1>6, <1>9, EndedProper DEF Leaves, PlainSt, Spares
<1> QED
  BY <1>1, <1>4, <1>10, CommitLeaves

\* Every step that is not a crash and not a tick.
LEMMA ApiLeaves ==
  ASSUME "save" \notin Faults, \A p \in Payloads : IsPlain(p),
         ApiSound, PlainSt(St), [ApiNext]_apiVars
  PROVE  PlainSt(St') /\ (ret' # Crashed /\ idle' >= idle => Leaves(St, St'))
<1>1. ASSUME UNCHANGED vars PROVE PlainSt(St') /\ Leaves(St, St')
  <2>1. St' = St
    BY <1>1 DEF St, vars
  <2> QED
    BY <2>1 DEF Leaves, Spares, ApiSound
<1>2. CASE UNCHANGED apiVars \/ Pass
  BY <1>1, <1>2 DEF apiVars, Pass, vars
<1>3. CASE Lookup
  BY <1>3, LookupLeaves
<1>4. ASSUME NEW a \in Adapters, Request(a) PROVE PlainSt(St') /\ Leaves(St, St')
  BY <1>4, RequestLeaves DEF ApiSound, Leaves
<1>5. CASE Shutdown
  BY <1>5, EndLeaves DEF ApiSound, Leaves
<1>6. CASE Restart
  <2>1. ret' = Crashed /\ St' = Ended(St)
    <3>1. SoundSt(Ended(St)) /\ Commit(Ended(St))
      BY <1>6, EndedProper DEF Restart, Crash, Commit, St, ApiSound
    <3> QED
      BY <1>6, <3>1, CommitAsStore DEF Restart, Crash
  <2>2. /\ Ended(St).disk = disk /\ Ended(St).tables = [a \in {} |-> Absent]
    BY EndedProper DEF ApiSound, St
  <2>3. PlainSt(Ended(St))
    BY <2>2 DEF PlainSt, View, St
  <2> QED
    BY <2>1, <2>3
<1> QED
  BY <1>2, <1>3, <1>4, <1>5, <1>6 DEF ApiNext

\* api.py: while saves do not fail and what is written has a text and no
\* metadata (as its requests build it), a request that applies no time
\* neither drops nor alters a live memory of an adapter it is not about,
\* whichever tables it pushes out of RAM on its way.
THEOREM OthersAreUntouched ==
  ASSUME "save" \notin Faults, \A p \in Payloads : IsPlain(p)
  PROVE  ApiSpec => OthersUntouched
<1> DEFINE Inv == ApiSound /\ PlainSt(St)
           Kind == ret' # Crashed /\ idle' >= idle =>
                     \A b \in Adapters \ {order'[i] : i \in {Len(order')} \ {0}} :
                       \A k \in DOMAIN Memories(b) \ Stale(Memories(b), EvictionThreshold) :
                         ValueAt(Memories(b)', k) = Row(Memories(b)[k])
<1>1. ApiInit => Inv
  <2>1. ApiInit => ApiSound
    BY InitSound, MaxIdleAssumption DEF ApiInit, ApiSound
  <2>2. ApiInit => PlainSt(St)
    BY DEF ApiInit, Init, St, PlainSt, PlainRows, View, NoRows
  <2> QED
    BY <2>1, <2>2
<1>2. Inv /\ [ApiNext]_apiVars => Inv'
  <2> SUFFICES ASSUME Inv, [ApiNext]_apiVars PROVE ApiSound' /\ PlainSt(St)'
    OBVIOUS
  <2>1. PlainSt(St')
    BY ApiLeaves
  <2>2. PlainSt(St)'
    BY <2>1 DEF PlainSt, PlainRows, View, IsPlain
  <2> QED
    BY <2>2, ApiStep
<1>3. Inv /\ [ApiNext]_apiVars => [Kind]_apiVars
  <2> SUFFICES ASSUME Inv, [ApiNext]_apiVars, ret' # Crashed, idle' >= idle,
                      NEW b \in Adapters \ {order'[i] : i \in {Len(order')} \ {0}},
                      NEW k \in DOMAIN Memories(b) \ Stale(Memories(b), EvictionThreshold)
               PROVE  ValueAt(Memories(b)', k) = Row(Memories(b)[k])
    OBVIOUS
  <2>1. Leaves(St, St')
    BY ApiLeaves
  <2>2. View(St, b) = Memories(b) /\ View(St', b) = Memories(b)'
    BY DEF View, St, Memories
  <2>3. ~LastUsed(St', b)
    BY DEF LastUsed, St
  <2>4. k \in DOMAIN Memories(b)' /\ Memories(b)'[k] = Memories(b)[k]
    BY <2>1, <2>2, <2>3 DEF Leaves, Spares
  <2>5. Row(Memories(b)[k]) = Memories(b)[k]
    <3>1. IsContents(Memories(b)) /\ PlainRows(Memories(b))
      BY <2>2 DEF ApiSound, SoundSt, PlainSt, View, IsTable
    <3> QED
      BY <3>1, PlainIsItsRow DEF IsContents, PlainRows
  <2> QED
    BY <2>4, <2>5 DEF ValueAt
<1> HIDE DEF Inv
<1> QED
  BY <1>1, <1>2, <1>3, PTL DEF ApiSpec, OthersUntouched

----------------------------------------------------------------------------
(* No request fails: what the bridge needs to answer.                      *)

\* What the default policy leaves of a salience in range is in range.
LEMMA OwnWorthInRange ==
  ASSUME NEW p \in Payload, p.salience \in 0..One, p.age >= 0
  PROVE  NotBelow(OwnWorth(p), Whole(0)) /\ NotBelow(Whole(One), OwnWorth(p))
<1> DEFINE num == Pow(DefaultKeep.num, p.age)
           den == Pow(DefaultKeep.den, p.age)
<1>1. p.age \in Nat
  BY DEF Payload
<1>2. num \in Nat \ {0} /\ den \in Nat \ {0} /\ num <= den
  BY <1>1, DefaultKeepAssumption, PowPositive, PowMonotone
<1>3. OwnWorth(p) = [num |-> p.salience * num, den |-> den] \/ OwnWorth(p) = Whole(0)
  <2>1. OwnWorth(p) = Power(DefaultKeep, p.salience, p.age) \/ OwnWorth(p) = Whole(0)
    BY <1>1 DEF OwnWorth, DecayedSalience, DefaultPolicy, ExponentialDecay, Exponential, LookupIndex
  <2> QED
    BY <1>1, <2>1 DEF Power
<1> HIDE DEF num, den
<1>4. One \in Nat
  BY BridgeAssumption
<1>5. p.salience * num >= 0 /\ p.salience * num <= One * den
  <2>1. \A s \in 0..One : s * num >= 0 /\ s * num <= One * num
    BY <1>2, <1>4
  <2>2. One * num <= One * den
    BY <1>2, <1>4
  <2>3. p.salience * num \in Int /\ One * num \in Int /\ One * den \in Int
    BY <1>2, <1>4
  <2> QED
    BY <2>1, <2>2, <2>3
<1>6. CASE OwnWorth(p) = Whole(0)
  BY <1>4, <1>6 DEF NotBelow, Whole
<1>7. CASE OwnWorth(p) = [num |-> p.salience * num, den |-> den]
  <2>1. p.salience * num \in Int /\ One * den \in Int
    BY <1>2, <1>4
  <2> QED
    BY <1>5, <1>7, <2>1, <1>2 DEF NotBelow, Whole
<1> QED
  BY <1>3, <1>6, <1>7

\* The sum over some of a finite set, computed as the library does: one
\* element taken out after the other.
Summed(memories, g, s) ==
  IF s = {} THEN 0 ELSE LET x == CHOOSE y \in s : TRUE IN memories[x].affect + g[s \ {x}]

\* What the sum rests on exists: a value for each set of memories.
LEMMA SumExists ==
  ASSUME NEW memories, IsFiniteSet(DOMAIN memories)
  PROVE  \E g : g = [s \in SUBSET DOMAIN memories |-> Summed(memories, g, s)]
<1> DEFINE D == DOMAIN memories
           Small(k) == {s \in SUBSET D : Cardinality(s) <= k}
           Exists(k) == \E g : g = [s \in Small(k) |-> Summed(memories, g, s)]
           K == {k \in Nat : Exists(k)}
<1>1. \A s \in SUBSET D : /\ IsFiniteSet(s) /\ Cardinality(s) \in Nat
                          /\ Cardinality(s) = 0 <=> s = {}
                          /\ Cardinality(s) <= Cardinality(D)
  BY FS_Subset, FS_CardinalityType, FS_EmptySet
<1>2. ASSUME NEW s \in SUBSET D, s # {}, NEW x, x = CHOOSE y \in s : TRUE
      PROVE  x \in s /\ s \ {x} \in SUBSET D /\ Cardinality(s \ {x}) = Cardinality(s) - 1
  BY <1>1, <1>2, FS_RemoveElement
<1>3. Exists(0)
  <2> DEFINE g == [s \in Small(0) |-> 0]
  <2>1. \A s \in Small(0) : s = {}
    BY <1>1
  <2>2. \A s \in Small(0) : 0 = Summed(memories, g, s)
    BY <2>1 DEF Summed
  <2>3. g = [s \in Small(0) |-> Summed(memories, g, s)]
    BY <2>2
  <2> QED
    BY <2>3
<1>4. ASSUME NEW k \in Nat, Exists(k) PROVE Exists(k + 1)
  <2>1. PICK g : g = [s \in Small(k) |-> Summed(memories, g, s)]
    BY <1>4
  <2> DEFINE h == [s \in Small(k + 1) |-> Summed(memories, g, s)]
  <2>2. \A s \in Small(k) : s \in Small(k + 1)
    BY <1>1
  <2>3. \A s \in Small(k) : h[s] = g[s]
    <3> SUFFICES ASSUME NEW s \in Small(k) PROVE h[s] = g[s]
      OBVIOUS
    <3>1. h[s] = Summed(memories, g, s)
      BY <2>2
    <3>2. g[s] = Summed(memories, g, s)
      BY <2>1
    <3> QED
      BY <3>1, <3>2
  <2>4. \A s \in Small(k + 1) : h[s] = Summed(memories, g, s)
    OBVIOUS
  <2>5. h = [s \in Small(k + 1) |-> h[s]]
    OBVIOUS
  <2> HIDE DEF h
  <2>6. ASSUME NEW s \in Small(k + 1) PROVE Summed(memories, g, s) = Summed(memories, h, s)
    <3>1. CASE s = {}
      BY <3>1 DEF Summed
    <3>2. CASE s # {}
      <4> DEFINE x == CHOOSE y \in s : TRUE
      <4>1. s \ {x} \in Small(k)
        BY <1>1, <1>2, <3>2
      <4>2. h[s \ {x}] = g[s \ {x}]
        BY <2>3, <4>1
      <4> QED
        BY <3>2, <4>2 DEF Summed
    <3> QED
      BY <3>1, <3>2
  <2>7. h = [s \in Small(k + 1) |-> Summed(memories, h, s)]
    BY <2>4, <2>5, <2>6
  <2> QED
    BY <2>7
<1> HIDE DEF Exists
<1>5. 0 \in K /\ \A k \in Nat : k \in K => k + 1 \in K
  BY <1>3, <1>4
<1> HIDE DEF K
<1>6. Cardinality(D) \in K
  <2>1. Nat \subseteq K
    BY <1>5, Numbers!NatSetInduction
  <2> QED
    BY <1>1, <2>1
<1>7. Exists(Cardinality(D))
  BY <1>6 DEF K
<1>8. Small(Cardinality(D)) = SUBSET D
  BY <1>1
<1> QED
  BY <1>7, <1>8 DEF Exists

\* The sum of affects in range is in range, and so the mean is.
LEMMA SumInRange ==
  ASSUME NEW memories, IsFiniteSet(DOMAIN memories),
         \A k \in DOMAIN memories : memories[k].affect \in -One..One
  PROVE  SumOfAffect(memories) \in -One * Cardinality(DOMAIN memories) .. One * Cardinality(DOMAIN memories)
<1> DEFINE D == DOMAIN memories
           iter == CHOOSE g : g = [s \in SUBSET D |-> Summed(memories, g, s)]
           Bounded(s) == iter[s] \in -One * Cardinality(s) .. One * Cardinality(s)
           K == {k \in Nat : \A s \in SUBSET D : Cardinality(s) = k => Bounded(s)}
<1>1. SumOfAffect(memories) = iter[D]
  BY DEF SumOfAffect, MapThenSumSet, MapThenFoldSet, Summed
<1>2. iter = [s \in SUBSET D |-> Summed(memories, iter, s)]
  BY SumExists
<1> HIDE DEF iter
<1>3. \A s \in SUBSET D : /\ IsFiniteSet(s) /\ Cardinality(s) \in Nat
                          /\ Cardinality(s) = 0 <=> s = {}
  BY FS_Subset, FS_CardinalityType, FS_EmptySet
<1>4. One \in Nat
  BY BridgeAssumption
<1>5. iter[{}] = 0
  BY <1>2 DEF Summed
<1>6. 0 \in K
  <2>1. 0 \in -One * 0 .. One * 0
    BY <1>4
  <2> QED
    BY <1>3, <1>5, <2>1
<1>7. ASSUME NEW k \in Nat, k \in K PROVE k + 1 \in K
  <2> SUFFICES ASSUME NEW s \in SUBSET D, Cardinality(s) = k + 1 PROVE Bounded(s)
    OBVIOUS
  <2>1. s # {}
    BY <1>3
  <2> DEFINE x == CHOOSE y \in s : TRUE
  <2>2. x \in s /\ s \ {x} \in SUBSET D /\ Cardinality(s \ {x}) = k
    <3>1. x \in s
      BY <2>1
    <3>2. Cardinality(s \ {x}) = Cardinality(s) - 1
      BY <1>3, <3>1, FS_RemoveElement
    <3> QED
      BY <3>1, <3>2
  <2>3. iter[s] = memories[x].affect + iter[s \ {x}]
    <3>1. iter[s] = Summed(memories, iter, s)
      BY <1>2
    <3> QED
      BY <2>1, <3>1 DEF Summed
  <2> HIDE DEF x
  <2>4. iter[s \ {x}] \in -One * k .. One * k
    BY <1>7, <2>2
  <2>5. memories[x].affect \in -One..One
    BY <2>2
  <2>6. -One * (k + 1) = -One * k - One /\ One * (k + 1) = One * k + One
    BY <1>4
  <2>7. \A n, m, l, h \in Int : n \in -One..One /\ m \in l..h => n + m \in l - One .. h + One
    BY <1>4
  <2>8. -One * k \in Int /\ One * k \in Int
    BY <1>4
  <2>9. memories[x].affect + iter[s \ {x}] \in -One * k - One .. One * k + One
    <3>1. memories[x].affect \in Int /\ iter[s \ {x}] \in Int
      BY <1>4, <2>4, <2>5, <2>8
    <3> QED
      BY <2>4, <2>5, <2>7, <2>8, <3>1
  <2> QED
    BY <2>3, <2>6, <2>9
<1> HIDE DEF K
<1>8. Nat \subseteq K
  BY <1>6, <1>7, Numbers!NatSetInduction
<1>9. D \in SUBSET D /\ Cardinality(D) \in Nat /\ Cardinality(D) \in K
  BY <1>3, <1>8
<1>10. Bounded(D)
  BY <1>9 DEF K
<1> QED
  BY <1>1, <1>10

\* Every mean affect has a band, the ends of the range included.
LEMMA MeanHasBand ==
  ASSUME NEW num \in Int, NEW den \in Nat \ {0}, -den <= num, num <= den
  PROVE  BandsFor([num |-> num, den |-> den]) # {}
<1> DEFINE affect == [num |-> num, den |-> den]
           matches == {i \in DOMAIN AffectBands : InBand(AffectBands[i], ClampedAffect(affect))}
<1>1. ClampedAffect(affect) = affect
  BY DEF ClampedAffect
<1>2. DOMAIN AffectBands = 1..5
  BY DEF AffectBands
<1>3. \E i \in 1..5 : InBand(AffectBands[i], affect)
  <2>1. CASE 100 * num >= 60 * den
    BY <2>1 DEF InBand, AffectBands
  <2>2. CASE 20 * den <= 100 * num /\ 100 * num < 60 * den
    BY <2>2 DEF InBand, AffectBands
  <2>3. CASE -20 * den <= 100 * num /\ 100 * num < 20 * den
    BY <2>3 DEF InBand, AffectBands
  <2>4. CASE -60 * den <= 100 * num /\ 100 * num < -20 * den
    BY <2>4 DEF InBand, AffectBands
  <2>5. CASE 100 * num < -60 * den
    BY <2>5 DEF InBand, AffectBands
  <2> QED
    BY <2>1, <2>2, <2>3, <2>4, <2>5
<1>4. matches \subseteq 1..5 /\ matches # {}
  BY <1>1, <1>2, <1>3
<1>5. BandsFor(affect) = {AffectBands[i].name : i \in {j \in matches : \A m \in matches : j <= m}}
  BY DEF BandsFor
<1> HIDE DEF matches
<1>6. \E j \in matches : \A m \in matches : j <= m
  <2>1. \/ 1 \in matches \/ 2 \in matches \/ 3 \in matches
        \/ 4 \in matches \/ 5 \in matches
    <3>1. PICK i \in matches : TRUE
      BY <1>4
    <3>2. i \in 1..5
      BY <1>4
    <3>3. i = 1 \/ i = 2 \/ i = 3 \/ i = 4 \/ i = 5
      BY <3>2
    <3> QED
      BY <3>3
  <2>2. \A m \in matches : m \in {1, 2, 3, 4, 5}
    BY <1>4
  <2> QED
    BY <2>1, <2>2
<1> QED
  BY <1>5, <1>6

\* Saves and loads leave a state fit: a row holds all of a fit memory, and
\* what is loaded is flagged.
LEMMA FitCarried ==
  ASSUME NEW st, SoundSt(st), FitSt(st), NEW a \in Adapters,
         NEW t, SoundSt(t), Carried(st, t, a), KeptOrSaved(st, t, Adapters)
  PROVE  FitSt(t)
<1>1. ASSUME NEW b \in Adapters PROVE FitRows(t.disk[b])
  <2>1. CASE t.disk[b] = st.disk[b]
    BY <2>1 DEF FitSt
  <2>2. CASE t.disk[b] = Upserted(st.disk[b], Rows(View(st, b)))
    <3> DEFINE store == View(st, b)
    <3>1. IsContents(store) /\ FitRows(store) /\ FitRows(st.disk[b])
      BY DEF SoundSt, FitSt, FitTable, View, IsTable
    <3> HIDE DEF store
    <3>2. \A k \in DOMAIN store : IsFit(Row(store[k]))
      BY <3>1, PlainIsItsRow DEF IsContents, FitRows, IsFit
    <3>3. FitRows(Upserted(st.disk[b], Rows(store)))
      BY <3>1, <3>2 DEF Upserted, Rows, FitRows
    <3> QED
      BY <2>2, <3>3 DEF store
  <2> QED
    BY <2>1, <2>2 DEF KeptOrSaved, Kept, Saved
<1>2. ASSUME NEW b \in DOMAIN t.tables PROVE FitTable(t.tables[b])
  <2>1. FitTable(Load(st.disk[a]))
    BY DEF FitSt, Load, FitTable
  <2> QED
    BY <2>1 DEF Carried, FitSt
<1> QED
  BY <1>1, <1>2 DEF FitSt

\* While the disk works, mount does: every table is one that can be saved.
LEMMA MountWorks ==
  ASSUME Faults = {}, NEW st, SoundSt(st), FitSt(st), NEW a \in Adapters, NEW m \in Mount(st, a)
  PROVE  /\ m.ok = TRUE /\ SoundSt(m.st) /\ FitSt(m.st) /\ a \in DOMAIN m.st.tables
         /\ IsTable(m.st.tables[a]) /\ FitTable(m.st.tables[a])
<1>1. \A s : \A o \in LoadTable(s, a) : o.ok
  BY DEF LoadTable, Returns, Raises
<1>2. ASSUME Len(st.order) >= MaxLoaded, NEW o \in EvictLru(st) PROVE o.ok
  <2> DEFINE v == Head(st.order)
  <2>1. v \in DOMAIN st.tables
    BY <1>2, SoundStFacts, MaxLoadedAssumption
  <2>2. ~MayFail(st.tables[v])
    BY <2>1, FitIsPlain, PlainIsSaved
  <2> QED
    BY <1>2, <2>2 DEF EvictLru, DropAndSave, Returns, Raises
<1>3. m.ok
  BY <1>1, <1>2 DEF Mount, AndThen, Returns
<1>4. /\ m.ok \in BOOLEAN /\ SoundSt(m.st) /\ Carried(st, m.st, a)
      /\ a \in DOMAIN m.st.tables /\ KeptOrSaved(st, m.st, Adapters)
  BY <1>3, MountEffect DEF KeptOrSaved
<1>5. FitSt(m.st) /\ IsTable(m.st.tables[a])
  BY <1>4, FitCarried DEF SoundSt
<1> QED
  BY <1>3, <1>4, <1>5 DEF FitSt

\* mount, and then a change to the table that leaves it fit.
ChangesFitly(st, a, table, o) ==
  \E m \in Mount(st, a) :
    /\ m.ok /\ o = Returns([m.st EXCEPT !.tables[a] = table])
    /\ IsTable(table) /\ FitTable(table)

\* Such a call returns, and leaves the state fit.
LEMMA ChangeWorks ==
  ASSUME Faults = {}, NEW st, SoundSt(st), FitSt(st), NEW a \in Adapters,
         NEW table, NEW o, ChangesFitly(st, a, table, o)
  PROVE  /\ o.ok = TRUE /\ SoundSt(o.st) /\ FitSt(o.st)
         /\ a \in DOMAIN o.st.tables
<1>1. PICK m \in Mount(st, a) :
        /\ m.ok /\ o = Returns([m.st EXCEPT !.tables[a] = table])
        /\ IsTable(table) /\ FitTable(table)
  BY DEF ChangesFitly
<1>2. SoundSt(m.st) /\ FitSt(m.st) /\ a \in DOMAIN m.st.tables
  BY MountWorks
<1> DEFINE t == [m.st EXCEPT !.tables[a] = table]
<1>3. SoundSt(t) /\ FitSt(t)
  BY <1>1, <1>2, ChangeTable, FitChange
<1>4. DOMAIN t.tables = DOMAIN m.st.tables
  BY <1>2 DEF SoundSt
<1>5. o.st = t /\ o.ok = TRUE
  BY <1>1 DEF Returns
<1> HIDE DEF t
<1> QED
  BY <1>2, <1>3, <1>4, <1>5

----------------------------------------------------------------------------
(* What the bridge answers, the disk working and the keys being finite.    *)

Hits == [hit : Payload \cup {Absent}, band : BandNames]

\* An outcome that returns an answer to a query.
IsAnswer(o) == o.ok = TRUE /\ SoundSt(o.st) /\ FitSt(o.st) /\ o.value \in Hits

\* A response of memories in range validates and has a band.
LEMMA RespondWorks ==
  ASSUME NEW st, NEW memories, IsFiniteSet(DOMAIN memories),
         \A k \in DOMAIN memories : memories[k] \in Payload /\ IsFit(memories[k]) /\ memories[k].salience >= 0,
         NEW hit \in Payload \cup {Absent}, NEW o \in Respond(st, memories, hit)
  PROVE  o.ok = TRUE /\ o.st = st /\ o.value \in Hits
<1> DEFINE D == DOMAIN memories
           bands == IF InRange(memories) THEN Routed(memories) ELSE {}
<1>1. Cardinality(D) \in Nat /\ (D # {} => Cardinality(D) # 0) /\ One \in Nat \ {0}
  BY FS_CardinalityType, FS_EmptySet, BridgeAssumption
<1>2. \A k \in D : NotBelow(OwnWorth(memories[k]), Whole(0)) /\ NotBelow(Whole(One), OwnWorth(memories[k]))
  <2> SUFFICES ASSUME NEW k \in D
               PROVE  NotBelow(OwnWorth(memories[k]), Whole(0)) /\ NotBelow(Whole(One), OwnWorth(memories[k]))
    OBVIOUS
  <2>1. memories[k] \in Payload /\ memories[k].salience \in 0..One /\ memories[k].age >= 0
    BY <1>1 DEF IsFit, Payload
  <2> QED
    BY <2>1, OwnWorthInRange
<1>3. SumOfAffect(memories) \in -One * Cardinality(D) .. One * Cardinality(D)
  BY SumInRange DEF IsFit
<1>4. InRange(memories)
  BY <1>2, <1>3 DEF InRange
<1>5. bands # {} /\ bands \subseteq BandNames
  <2>1. CASE D = {}
    <3>1. "neutral" \in BandNames
      <4>1. 3 \in DOMAIN AffectBands /\ AffectBands[3].name = "neutral"
        BY DEF AffectBands
      <4> QED
        BY <4>1 DEF BandNames
    <3> QED
      BY <1>4, <2>1, <3>1 DEF Routed
  <2>2. CASE D # {}
    <3> DEFINE num == SumOfAffect(memories)
               den == One * Cardinality(D)
    <3>1. den \in Nat \ {0} /\ num \in Int /\ -den <= num /\ num <= den
      <4>1. \A n \in Nat \ {0} : One * n \in Nat \ {0} /\ -One * n = -(One * n)
        BY <1>1
      <4> QED
        BY <1>1, <1>3, <2>2, <4>1
    <3> HIDE DEF num, den
    <3>2. BandsFor([num |-> num, den |-> den]) # {}
      BY <3>1, MeanHasBand
    <3>3. BandsFor([num |-> num, den |-> den]) \subseteq BandNames
      BY DEF BandsFor, BandNames
    <3>4. bands = BandsFor([num |-> num, den |-> den])
      BY <1>4, <2>2 DEF Routed, num, den
    <3> QED
      BY <3>2, <3>3, <3>4
  <2> QED
    BY <2>1, <2>2
<1>6. Respond(st, memories, hit) =
        {Answers(st, [hit |-> hit, band |-> band]) : band \in bands} \cup {r \in {Raises(st)} : bands = {}}
  BY DEF Respond
<1> HIDE DEF bands
<1>7. PICK band \in bands : o = Answers(st, [hit |-> hit, band |-> band])
  BY <1>5, <1>6
<1> QED
  BY <1>5, <1>7 DEF Answers, Hits

\* Memories a response can be built of.
IsGood(p) == p \in Payload /\ IsFit(p) /\ p.salience >= 0

\* A query sweeps first, and what is left is good.
LEMMA SweptWorks ==
  ASSUME Faults = {}, NEW st, SoundSt(st), FitSt(st), NEW a \in Adapters, NEW o \in Swept(st, a)
  PROVE  /\ o.ok = TRUE /\ SoundSt(o.st) /\ FitSt(o.st)
         /\ DOMAIN o.st.tables[a].store \subseteq Keys
         /\ \A k \in DOMAIN o.st.tables[a].store : IsGood(o.st.tables[a].store[k])
<1>1. \/ o \in Mount(st, a) /\ ~o.ok
      \/ \E m \in Mount(st, a) :
           m.ok /\ o = Returns([m.st EXCEPT !.tables[a] = EvictStale(m.st.tables[a], EvictionThreshold)])
  BY DEF Swept, Mounted, AndThen, InTable
<1>2. PICK m \in Mount(st, a) :
        m.ok /\ o = Returns([m.st EXCEPT !.tables[a] = EvictStale(m.st.tables[a], EvictionThreshold)])
  BY <1>1, MountWorks
<1> DEFINE table == EvictStale(m.st.tables[a], EvictionThreshold)
<1>3. IsTable(table) /\ FitTable(table) /\ NotNegative(table.store)
  <2>1. EvictionThreshold \in Nat \ {0}
    BY BridgeAssumption
  <2> QED
    BY <2>1, MountWorks, EvictIsTable, FitSwept
<1>4. ChangesFitly(st, a, table, o)
  BY <1>2, <1>3 DEF ChangesFitly
<1>5. o.ok = TRUE /\ SoundSt(o.st) /\ FitSt(o.st)
  BY <1>4, ChangeWorks
<1> HIDE DEF table
<1>6. o.st.tables[a] = table
  <2> DEFINE t == [m.st EXCEPT !.tables[a] = table]
  <2>1. SoundSt(m.st) /\ a \in DOMAIN m.st.tables
    BY <1>2, MountWorks
  <2>2. t.tables[a] = table
    BY <2>1 DEF SoundSt
  <2> HIDE DEF t
  <2>3. o.st = t
    BY <1>2 DEF Returns, t, table
  <2> QED
    BY <2>2, <2>3
<1>7. DOMAIN table.store \subseteq Keys /\ \A k \in DOMAIN table.store : IsGood(table.store[k])
  BY <1>3 DEF IsTable, IsContents, FitTable, FitRows, NotNegative, IsGood
<1> QED
  BY <1>5, <1>6, <1>7

\* handle_trigger answers.
LEMMA TriggerWorks ==
  ASSUME Faults = {}, IsFiniteSet(Keys), NEW st, SoundSt(st), FitSt(st), NEW a \in Adapters, NEW hash,
         NEW o \in HandleTrigger(st, a, hash)
  PROVE  IsAnswer(o)
<1> DEFINE Found(s) == s.tables[a].store
<1>1. \A s \in Swept(st, a) : s.ok
  BY SweptWorks
<1>2. \E s \in Swept(st, a) : \E top \in Tops(Found(s.st), TopN) :
        o \in Respond(s.st, Restrict(Found(s.st), top), ValueAt(Found(s.st), hash))
  BY <1>1 DEF HandleTrigger, AndThen
<1>3. PICK s \in Swept(st, a) : \E top \in Tops(Found(s.st), TopN) :
        o \in Respond(s.st, Restrict(Found(s.st), top), ValueAt(Found(s.st), hash))
  BY <1>2
<1>4. PICK top \in Tops(Found(s.st), TopN) :
        o \in Respond(s.st, Restrict(Found(s.st), top), ValueAt(Found(s.st), hash))
  BY <1>3
<1>5. /\ SoundSt(s.st) /\ FitSt(s.st) /\ DOMAIN Found(s.st) \subseteq Keys
      /\ \A k \in DOMAIN Found(s.st) : IsGood(Found(s.st)[k])
  BY SweptWorks
<1> DEFINE store == Found(s.st)
           memories == Restrict(store, top)
           hit == ValueAt(store, hash)
<1>6. top \subseteq DOMAIN store
  BY <1>4 DEF Tops
<1> HIDE DEF Found
<1>7. hit \in Payload \cup {Absent}
  BY <1>5 DEF ValueAt, IsGood
<1>8. DOMAIN memories = top /\ \A k \in top : memories[k] = store[k]
  BY <1>6 DEF Restrict
<1>9. IsFiniteSet(DOMAIN memories)
  BY <1>5, <1>6, <1>8, FS_Subset
<1>10. \A k \in DOMAIN memories : memories[k] \in Payload /\ IsFit(memories[k]) /\ memories[k].salience >= 0
  BY <1>5, <1>6, <1>8 DEF IsGood
<1>11. o \in Respond(s.st, memories, hit)
  BY <1>4
<1> HIDE DEF memories, hit
<1>12. o.ok = TRUE /\ o.st = s.st /\ o.value \in Hits
  BY <1>7, <1>9, <1>10, <1>11, RespondWorks
<1> QED
  BY <1>5, <1>12 DEF IsAnswer

\* A cross query on its way: what it has collected are good memories.
IsRound(o) ==
  /\ o.ok = TRUE /\ SoundSt(o.st) /\ FitSt(o.st)
  /\ IsFiniteSet(o.value) /\ \A f \in o.value : IsGood(f.payload)

Collecting == INSTANCE FoldTheorems WITH
  op <- LAMBDA hash, outcomes, a :
          {o \in outcomes : ~o.ok} \cup UNION {Collected(o, a, hash) : o \in {b \in outcomes : b.ok}},
  P  <- LAMBDA q, k, outcomes : \A o \in outcomes : IsRound(o)

\* A round of handle_cross_trigger adds memories of one more table.
LEMMA CollectedWorks ==
  ASSUME Faults = {}, IsFiniteSet(Keys), NEW b, IsRound(b), NEW a \in Adapters, NEW hash,
         NEW o \in Collected(b, a, hash)
  PROVE  IsRound(o)
<1> DEFINE Found(s) == s.tables[a].store
           PerTable == Max({3, TopN})
           Picked(store, top) ==
             IF hash \notin DOMAIN store \/ hash \in top THEN {top}
             ELSE {S \cup {hash} : S \in Tops(Restrict(store, top), PerTable - 1)}
           Added(s, picked) == {[from |-> a, payload |-> Found(s)[k]] : k \in picked}
<1>1. SoundSt(b.st) /\ FitSt(b.st)
  BY DEF IsRound
<1>2. \A s \in Swept(b.st, a) : s.ok
  BY <1>1, SweptWorks
<1> DEFINE Round(s) == {Answers(s, b.value \cup Added(s, picked)) :
                          picked \in UNION {Picked(Found(s), top) : top \in Tops(Found(s), PerTable)}}
<1>3. Collected(b, a, hash) = {s \in Swept(b.st, a) : ~s.ok} \cup UNION {Round(s.st) : s \in {r \in Swept(b.st, a) : r.ok}}
  BY DEF Collected, AndThen
<1> HIDE DEF Round
<1>4. PICK s \in Swept(b.st, a) : o \in Round(s.st)
  BY <1>2, <1>3
<1>5. \E top \in Tops(Found(s.st), PerTable) : \E picked \in Picked(Found(s.st), top) :
        o = Answers(s.st, b.value \cup Added(s.st, picked))
  BY <1>4 DEF Round
<1>6. /\ SoundSt(s.st) /\ FitSt(s.st) /\ DOMAIN Found(s.st) \subseteq Keys
      /\ \A k \in DOMAIN Found(s.st) : IsGood(Found(s.st)[k])
  BY <1>1, SweptWorks
<1>7. ASSUME NEW top \in Tops(Found(s.st), PerTable), NEW picked \in Picked(Found(s.st), top)
      PROVE  picked \subseteq DOMAIN Found(s.st)
  <2>1. top \subseteq DOMAIN Found(s.st)
    BY <1>7 DEF Tops
  <2>2. \A S \in Tops(Restrict(Found(s.st), top), PerTable - 1) : S \subseteq top
    BY DEF Tops, Restrict
  <2>3. CASE hash \notin DOMAIN Found(s.st) \/ hash \in top
    BY <1>7, <2>1, <2>3
  <2>4. CASE ~(hash \notin DOMAIN Found(s.st) \/ hash \in top)
    <3>1. PICK S \in Tops(Restrict(Found(s.st), top), PerTable - 1) : picked = S \cup {hash}
      BY <1>7, <2>4
    <3> QED
      BY <2>1, <2>2, <2>4, <3>1
  <2> QED
    BY <2>3, <2>4
<1>8. PICK picked \in SUBSET DOMAIN Found(s.st) : o = Answers(s.st, b.value \cup Added(s.st, picked))
  BY <1>5, <1>7
<1>9. IsFiniteSet(Added(s.st, picked))
  <2>1. IsFiniteSet(picked)
    BY <1>6, <1>8, FS_Subset
  <2> DEFINE f == [k \in picked |-> [from |-> a, payload |-> Found(s.st)[k]]]
  <2>2. f \in Surjection(picked, Added(s.st, picked))
    BY DEF Surjection, Range
  <2> QED
    BY <2>1, <2>2, FS_Surjection
<1>10. \A f \in Added(s.st, picked) : IsGood(f.payload)
  BY <1>6, <1>8
<1>11. o.ok = TRUE /\ o.st = s.st /\ o.value = b.value \cup Added(s.st, picked)
  BY <1>8 DEF Answers
<1> HIDE DEF Added
<1>12. IsFiniteSet(b.value) /\ \A f \in b.value : IsGood(f.payload)
  BY DEF IsRound
<1>13. IsFiniteSet(b.value \cup Added(s.st, picked))
  BY <1>9, <1>12, FS_Union
<1>14. \A f \in b.value \cup Added(s.st, picked) : IsGood(f.payload)
  BY <1>10, <1>12
<1> QED
  BY <1>6, <1>11, <1>13, <1>14 DEF IsRound

\* handle_cross_trigger answers.
LEMMA CrossTriggerWorks ==
  ASSUME Faults = {}, IsFiniteSet(Keys), NEW st, SoundSt(st), FitSt(st), NEW hints \in HintLists, NEW hash,
         NEW o \in HandleCrossTrigger(st, hints, hash)
  PROVE  IsAnswer(o)
<1> DEFINE start == {Answers(st, {})}
           collected == Collecting!Fold(hash, start, hints)
<1>1. /\ DOMAIN hints = 1..Len(hints) /\ Len(hints) \in Nat
      /\ \A i \in 1..Len(hints) : hints[i] \in Adapters
  BY BodyAssumption, LenProperties, ElementOfSeq
<1>2. \A b \in start : IsRound(b)
  <2>1. Answers(st, {}).st = st /\ Answers(st, {}).ok = TRUE /\ Answers(st, {}).value = {}
    BY DEF Answers
  <2> QED
    BY <2>1, FS_EmptySet DEF IsRound
<1>3. ASSUME NEW i \in 1..Len(hints), NEW outcomes, \A b \in outcomes : IsRound(b),
             NEW c \in {b \in outcomes : ~b.ok}
                       \cup UNION {Collected(b, hints[i], hash) : b \in {d \in outcomes : d.ok}}
      PROVE  IsRound(c)
  <2>1. \A b \in outcomes : b.ok
    BY <1>3 DEF IsRound
  <2> QED
    BY <1>1, <1>3, <2>1, CollectedWorks
<1>4. \A c \in collected : IsRound(c)
  <2> HIDE DEF start
  <2> QED
    BY <1>1, <1>2, <1>3, Collecting!FoldInduction
<1> DEFINE Answered(c, R) == Respond(c.st, [f \in R |-> f.payload], Absent)
<1>5. HandleCrossTrigger(st, hints, hash) =
        {c \in collected : ~c.ok} \cup
          UNION {UNION {Answered(c, R) : R \in Rankings(c.value)} : c \in {d \in collected : d.ok}}
  BY DEF HandleCrossTrigger, Collecting!Fold, FoldLeft, MapThenFoldSet, Max,
         Collecting!FoldLeft, Collecting!MapThenFoldSet, Collecting!Max
<1> HIDE DEF collected
<1>6. ASSUME NEW c \in collected, NEW R \in Rankings(c.value), o \in Answered(c, R) PROVE IsAnswer(o)
  <2> DEFINE memories == [f \in R |-> f.payload]
  <2>1. IsFiniteSet(c.value) /\ (\A f \in c.value : IsGood(f.payload)) /\ SoundSt(c.st) /\ FitSt(c.st)
    BY <1>4 DEF IsRound
  <2>2. R \subseteq c.value
    BY DEF Rankings
  <2>3. IsFiniteSet(DOMAIN memories)
    BY <2>1, <2>2, FS_Subset
  <2>4. \A k \in DOMAIN memories : memories[k] \in Payload /\ IsFit(memories[k]) /\ memories[k].salience >= 0
    BY <2>1, <2>2 DEF IsGood
  <2>5. o \in Respond(c.st, memories, Absent)
    BY <1>6
  <2> HIDE DEF memories
  <2>6. o.ok = TRUE /\ o.st = c.st /\ o.value \in Hits
    BY <2>3, <2>4, <2>5, RespondWorks
  <2> QED
    BY <2>1, <2>6 DEF IsAnswer
<1> HIDE DEF Answered
<1>7. \A c \in collected : c.ok
  BY <1>4 DEF IsRound
<1>8. \E c \in collected : \E R \in Rankings(c.value) : o \in Answered(c, R)
  BY <1>5, <1>7
<1> QED
  BY <1>6, <1>8

\* A packet is done: the tick, if it takes a step, and the boost after it.
LEMMA SyncWorks ==
  ASSUME Faults = {}, NEW st, SoundSt(st), FitSt(st), NEW a \in Adapters,
         NEW tenths \in Deltas, NEW boost \in Boosts, NEW o \in HandlePidxSync(st, a, tenths, boost)
  PROVE  o.ok = TRUE /\ SoundSt(o.st) /\ FitSt(o.st)
<1> DEFINE steps == ConvertPidxDelta(tenths)
           aged == IF steps > 0 THEN Mounted(st, a, LAMBDA t : Tick(t, steps)) ELSE {Returns(st)}
<1>1. steps \in Int
  BY BodyAssumption DEF ConvertPidxDelta, TenthsPerDay
<1> HIDE DEF steps
<1>2. ASSUME NEW b \in aged PROVE b.ok = TRUE /\ SoundSt(b.st) /\ FitSt(b.st)
  <2>1. CASE steps > 0
    <3>1. \/ b \in Mount(st, a) /\ ~b.ok
          \/ \E m \in Mount(st, a) : m.ok /\ b = Returns([m.st EXCEPT !.tables[a] = Tick(m.st.tables[a], steps)])
      BY <1>2, <2>1 DEF Mounted, AndThen, InTable
    <3>2. PICK m \in Mount(st, a) : m.ok /\ b = Returns([m.st EXCEPT !.tables[a] = Tick(m.st.tables[a], steps)])
      BY <3>1, MountWorks
    <3>3. IsTable(Tick(m.st.tables[a], steps)) /\ FitTable(Tick(m.st.tables[a], steps))
      BY <1>1, MountWorks, TickIsTable, FitAged
    <3>4. ChangesFitly(st, a, Tick(m.st.tables[a], steps), b)
      BY <3>2, <3>3 DEF ChangesFitly
    <3> QED
      BY <3>4, ChangeWorks
  <2>2. CASE ~(steps > 0)
    BY <1>2, <2>2 DEF Returns
  <2> QED
    BY <2>1, <2>2
<1> DEFINE mounted == AndThen(aged, LAMBDA s : Mount(s, a))
           After(s, choice) == Returns([s EXCEPT !.tables[a] = Boosted(s.tables[a], boost, choice)])
<1>3. HandlePidxSync(st, a, tenths, boost) =
        IF DOMAIN boost = {} THEN aged
        ELSE {m \in mounted : ~m.ok} \cup
               UNION {{After(m.st, choice) : choice \in BoostChoices(m.st.tables[a].store, boost)} :
                        m \in {l \in mounted : l.ok}}
  BY DEF HandlePidxSync, steps, AndThen, InTable
<1> HIDE DEF aged
<1>4. \A m \in mounted : (m \in aged /\ ~m.ok) \/ \E b \in aged : m \in Mount(b.st, a)
  BY DEF AndThen
<1> HIDE DEF mounted
<1>5. ASSUME NEW m \in mounted PROVE m.ok /\ \E b \in aged : m \in Mount(b.st, a)
  BY <1>2, <1>4, MountWorks
<1>6. ASSUME NEW b \in aged, NEW m \in Mount(b.st, a), NEW choice \in BoostChoices(m.st.tables[a].store, boost),
             NEW c, c = After(m.st, choice)
      PROVE  c.ok = TRUE /\ SoundSt(c.st) /\ FitSt(c.st)
  <2>1. /\ SoundSt(b.st) /\ FitSt(b.st) /\ m.ok
        /\ IsTable(m.st.tables[a]) /\ FitTable(m.st.tables[a])
    BY <1>2, MountWorks
  <2>2. IsTable(Boosted(m.st.tables[a], boost, choice)) /\ FitTable(Boosted(m.st.tables[a], boost, choice))
    BY <1>6, <2>1, BoostedIsTable, FitBoosted
  <2>3. ChangesFitly(b.st, a, Boosted(m.st.tables[a], boost, choice), c)
    BY <1>6, <2>1, <2>2 DEF ChangesFitly
  <2> QED
    BY <2>1, <2>3, ChangeWorks
<1> HIDE DEF After
<1>7. CASE DOMAIN boost = {}
  BY <1>2, <1>3, <1>7
<1>8. CASE DOMAIN boost # {}
  <2> DEFINE Outcomes(m) == {After(m.st, choice) : choice \in BoostChoices(m.st.tables[a].store, boost)}
  <2>1. HandlePidxSync(st, a, tenths, boost) =
          {m \in mounted : ~m.ok} \cup UNION {Outcomes(m) : m \in {l \in mounted : l.ok}}
    BY <1>3, <1>8
  <2>2. \A m : \A c \in Outcomes(m) :
          \E choice \in BoostChoices(m.st.tables[a].store, boost) : c = After(m.st, choice)
    OBVIOUS
  <2> HIDE DEF Outcomes
  <2>3. PICK m \in mounted : o \in Outcomes(m)
    BY <1>5, <2>1
  <2>4. \E choice \in BoostChoices(m.st.tables[a].store, boost) : o = After(m.st, choice)
    BY <2>2, <2>3
  <2> QED
    BY <1>5, <1>6, <2>4
<1> QED
  BY <1>7, <1>8

----------------------------------------------------------------------------
(* What every step of the server returns, the disk working.                *)

Replies ==
  {Done, Crashed, Absent, NoKey} \cup Hits \cup [evicted : Nat]
    \cup [adapter : Adapters, key : Keys, value : Payload \cup {Absent}]

Works == FitSt(St') /\ ret' \in Replies

\* A request that mounts an adapter and changes its table.
LEMMA OutcomeWorks ==
  ASSUME Faults = {}, SoundSt(St), FitSt(St), NEW a \in Adapters, NEW m \in Mount(St, a),
         NEW table, IsTable(table) /\ FitTable(table),
         \/ m.ok /\ Commit([m.st EXCEPT !.tables[a] = table])
         \/ ~m.ok /\ Commit(m.st)
  PROVE  FitSt(St')
<1> DEFINE t == [m.st EXCEPT !.tables[a] = table]
<1>1. m.ok /\ SoundSt(m.st) /\ FitSt(m.st) /\ a \in DOMAIN m.st.tables
  BY MountWorks
<1>2. SoundSt(t) /\ FitSt(t)
  BY <1>1, ChangeTable, FitChange
<1>3. Commit(t)
  BY <1>1
<1> HIDE DEF t
<1>4. St' = t
  BY <1>2, <1>3, CommitAsStore
<1> QED
  BY <1>2, <1>4

\* What is swept at once is counted.
LEMMA CountIsNat ==
  ASSUME IsFiniteSet(Keys), NEW table, IsTable(table), NEW threshold
  PROVE  EvictedCount(table, threshold) \in Nat
<1>1. IsFiniteSet(Stale(table.store, threshold))
  BY FS_Subset DEF IsTable, IsContents, Stale
<1> QED
  BY <1>1, FS_CardinalityType DEF EvictedCount

\* All requests about one adapter.
LEMMA RequestWorks ==
  ASSUME Faults = {}, IsFiniteSet(Keys), \A p \in Payloads : IsFit(p), Thresholds \subseteq Nat \ {0},
         SoundSt(St), FitSt(St), NEW a \in Adapters, Request(a)
  PROVE  Works
<1>0. \A m \in Mount(St, a) : m.ok /\ IsTable(m.st.tables[a]) /\ FitTable(m.st.tables[a])
  BY MountWorks
<1>1. ASSUME NEW k \in Keys, FetchMemory(a, k) PROVE Works
  <2> DEFINE Answer(t) == [adapter |-> a, key |-> k, value |-> Get(t, k)]
  <2>1. PICK m \in Mount(St, a) :
          \/ m.ok /\ Commit([m.st EXCEPT !.tables[a] = m.st.tables[a]]) /\ ret' = Answer(m.st.tables[a])
          \/ ~m.ok /\ Commit(m.st)
    BY <1>1 DEF FetchMemory, GetMemory, OnTable
  <2>2. Get(m.st.tables[a], k) \in Payload \cup {Absent}
    BY <1>0 DEF Get, ValueAt, IsTable, IsContents
  <2>3. Answer(m.st.tables[a]) \in Replies
    BY <2>2 DEF Replies
  <2> HIDE DEF Answer
  <2> QED
    BY <1>0, <2>1, <2>3, OutcomeWorks DEF Works
<1>2. ASSUME NEW k \in Keys, DeleteMemory(a, k) PROVE Works
  <2>1. PICK m \in Mount(St, a) :
          \/ /\ m.ok /\ Commit([m.st EXCEPT !.tables[a] = [m.st.tables[a] EXCEPT !.store = Without(@, {k})]])
             /\ ret' = Done
          \/ ~m.ok /\ Commit(m.st)
    BY <1>2 DEF DeleteMemory, OnTable
  <2> DEFINE left == [m.st.tables[a] EXCEPT !.store = Without(@, {k})]
  <2>2. IsTable(left) /\ FitTable(left)
    BY <1>0, WithoutIsTable, FitWithout
  <2> QED
    BY <1>0, <2>1, <2>2, OutcomeWorks DEF Works, Replies
<1>3. ASSUME NEW k \in Keys, NEW p \in Payloads, PostMemory(a, k, p) PROVE Works
  <2> DEFINE q == [p EXCEPT !.tags = @ \cup {a}]
  <2>1. q \in Payload /\ IsFit(q)
    BY InputAssumption, LabelledIsPayload DEF IsFit, IsPlain, Payload
  <2>2. WriteMemory(a, k, q)
    BY <1>3 DEF PostMemory
  <2> HIDE DEF q
  <2>3. PICK m \in Mount(St, a) :
          \/ m.ok /\ Commit([m.st EXCEPT !.tables[a] = Put(m.st.tables[a], k, q)]) /\ ret' = Done
          \/ ~m.ok /\ Commit(m.st)
    BY <2>2 DEF WriteMemory, OnTable
  <2>4. IsTable(Put(m.st.tables[a], k, q)) /\ FitTable(Put(m.st.tables[a], k, q))
    BY <2>1, <1>0, PutIsTable, FitPut
  <2> QED
    BY <1>0, <2>3, <2>4, OutcomeWorks DEF Works, Replies
<1>4. ASSUME NEW k \in Keys, NEW edit \in Edits, UpdateMemory(a, k, edit) PROVE Works
  <2>1. PICK m \in Mount(St, a) :
          \/ m.ok /\ Commit([m.st EXCEPT !.tables[a] = Amended(m.st.tables[a], {k}, edit)]) /\ ret' \in {Done, Absent}
          \/ ~m.ok /\ Commit(m.st)
    BY <1>4 DEF UpdateMemory, OnTable
  <2>2. IsEdit(edit)
    BY BodyAssumption DEF IsEdit
  <2>3. IsTable(Amended(m.st.tables[a], {k}, edit)) /\ FitTable(Amended(m.st.tables[a], {k}, edit))
    BY <1>0, <2>2, AmendedIsTable, FitAmended
  <2> QED
    BY <1>0, <2>1, <2>3, OutcomeWorks DEF Works, Replies
<1>5. ASSUME NEW tag \in Tags, NEW level \in Levels, UpdateByTag(a, tag, level) PROVE Works
  <2> DEFINE edit == [f \in {"salience"} |-> level]
             Tagged(t) == {k \in DOMAIN t.store : tag \in t.store[k].tags}
  <2>1. PICK m \in Mount(St, a) :
          \/ m.ok /\ Commit([m.st EXCEPT !.tables[a] = Amended(m.st.tables[a], Tagged(m.st.tables[a]), edit)]) /\ ret' = Done
          \/ ~m.ok /\ Commit(m.st)
    BY <1>5 DEF UpdateByTag, OnTable
  <2>2. IsEdit(edit)
    BY BodyAssumption DEF IsEdit, Fields
  <2> HIDE DEF edit, Tagged
  <2>3. /\ IsTable(Amended(m.st.tables[a], Tagged(m.st.tables[a]), edit))
        /\ FitTable(Amended(m.st.tables[a], Tagged(m.st.tables[a]), edit))
    BY <1>0, <2>2, AmendedIsTable, FitAmended
  <2> QED
    BY <1>0, <2>1, <2>3, OutcomeWorks DEF Works, Replies
<1>6. ASSUME NEW steps \in Steps, NEW threshold \in Thresholds \cup {ThresholdOf(a)}, TickMemory(a, steps, threshold)
      PROVE  Works
  <2> DEFINE Later(t) == EvictStale(Tick(t, steps), threshold)
             Count(t) == EvictedCount(Tick(t, steps), threshold)
  <2>1. PICK m \in Mount(St, a) :
          \/ m.ok /\ Commit([m.st EXCEPT !.tables[a] = Later(m.st.tables[a])]) /\ ret' = [evicted |-> Count(m.st.tables[a])]
          \/ ~m.ok /\ Commit(m.st)
    BY <1>6 DEF TickMemory, OnTable
  <2>2. threshold \in Nat \ {0}
    <3>1. ThresholdOf(a) \in Nat \ {0}
      BY BridgeAssumption, OverrideAssumption DEF ThresholdOf
    <3> QED
      BY <3>1
  <2>3. IsTable(Tick(m.st.tables[a], steps)) /\ FitTable(Tick(m.st.tables[a], steps))
    BY InputAssumption, <1>0, TickIsTable, FitAged
  <2>4. IsTable(Later(m.st.tables[a])) /\ FitTable(Later(m.st.tables[a]))
    BY <2>2, <2>3, EvictIsTable, FitSwept
  <2>5. [evicted |-> Count(m.st.tables[a])] \in Replies
    BY <2>3, CountIsNat DEF Replies
  <2> HIDE DEF Later, Count
  <2> QED
    BY <1>0, <2>1, <2>4, <2>5, OutcomeWorks DEF Works
<1>7. ASSUME NEW tenths \in Deltas, NEW boost \in Boosts, Sync(a, tenths, boost) PROVE Works
  <2>1. PICK o \in HandlePidxSync(St, a, tenths, boost) : Commit(o.st) /\ ret' = IF o.ok THEN Done ELSE Raised
    BY <1>7 DEF Sync, Finish
  <2>2. o.ok /\ SoundSt(o.st) /\ FitSt(o.st)
    BY SyncWorks
  <2>3. St' = o.st
    BY <2>1, <2>2, CommitAsStore
  <2> QED
    BY <2>1, <2>2, <2>3 DEF Works, Replies
<1> QED
  BY <1>1, <1>2, <1>3, <1>4, <1>5, <1>6, <1>7 DEF Request

\* Queries, on what the automatic tick leaves.
LEMMA LookupWorks ==
  ASSUME Faults = {}, IsFiniteSet(Keys), ApiSound, FitSt(St), Lookup
  PROVE  Works
<1> DEFINE start == IF idle >= Interval THEN AutoTicked(St, idle \div Interval) ELSE St
<1>1. SoundSt(start) /\ FitSt(start)
  <2>1. idle \div Interval \in Int
    BY IntervalAssumption, MaxIdleAssumption DEF ApiSound
  <2>2. Alike(St, AutoTicked(St, idle \div Interval))
    BY <2>1, AutoTickAlike DEF ApiSound
  <2> QED
    BY <2>2 DEF ApiSound, Alike
<1> HIDE DEF start
<1>2. ASSUME NEW o, IsAnswer(o), Commit(o.st), ret' = IF o.ok THEN o.value ELSE Raised PROVE Works
  <2>1. o.ok /\ SoundSt(o.st) /\ FitSt(o.st) /\ o.value \in Hits
    BY <1>2 DEF IsAnswer
  <2>2. St' = o.st
    BY <1>2, <2>1, CommitAsStore
  <2> QED
    BY <1>2, <2>1, <2>2 DEF Works, Replies
<1>3. ASSUME NEW a \in Adapters, NEW k, Query(a, k) PROVE Works
  <2>1. PICK o \in HandleTrigger(start, a, k) : Commit(o.st) /\ ret' = IF o.ok THEN o.value ELSE Raised
    BY <1>3 DEF Query, AfterAutoTick, start
  <2> QED
    BY <1>1, <1>2, <2>1, TriggerWorks
<1>4. ASSUME NEW hints \in HintLists, NEW k, QueryCross(hints, k) PROVE Works
  <2>1. PICK o \in HandleCrossTrigger(start, hints, k) : Commit(o.st) /\ ret' = IF o.ok THEN o.value ELSE Raised
    BY <1>4 DEF QueryCross, AfterAutoTick, start
  <2> QED
    BY <1>1, <1>2, <2>1, CrossTriggerWorks
<1>5. CASE QueryUnhashable
  <2>1. Commit(start) /\ ret' = NoKey
    BY <1>5 DEF QueryUnhashable, AfterAutoTick, start
  <2>2. St' = start
    BY <1>1, <2>1, CommitAsStore
  <2> QED
    BY <1>1, <2>1, <2>2 DEF Works, Replies
<1> QED
  BY <1>3, <1>4, <1>5 DEF Lookup

\* The end of the process leaves nothing in RAM, and the databases fit.
LEMMA EndWorks ==
  ASSUME Faults = {}, SoundSt(St), FitSt(St), Shutdown \/ Restart
  PROVE  Works
<1>1. ASSUME NEW t, SoundSt(t), FitSt(t), SoundSt(Ended(t)), Commit(Ended(t)) PROVE FitSt(St')
  <2>1. Ended(t).disk = t.disk /\ Ended(t).tables = [b \in {} |-> Absent]
    BY <1>1, EndedProper
  <2>2. FitSt(Ended(t))
    BY <1>1, <2>1 DEF FitSt
  <2>3. St' = Ended(t)
    BY <1>1, CommitAsStore
  <2> QED
    BY <2>2, <2>3
<1>2. CASE Shutdown
  <2>1. PICK o \in FlushAll(St) : Commit(Ended(o.st)) /\ ret' \in {Done, Crashed}
    BY <1>2 DEF Shutdown
  <2>2. \A i \in 1..Len(order) : order[i] \in DOMAIN tables /\ Saveable(tables[order[i]]) /\ ~MayFail(tables[order[i]])
    BY SoundStFacts, FitIsPlain, PlainIsSaved DEF St
  <2>3. o.ok
    BY <2>2 DEF FlushAll, St, Returns, Raises
  <2>4. /\ SoundSt(o.st) /\ KeptOrSaved(St, o.st, Adapters)
        /\ \A b \in DOMAIN o.st.tables : b \in DOMAIN St.tables /\ o.st.tables[b] = St.tables[b]
    BY <2>3, FlushAllEffect
  <2>5. FitSt(o.st)
    <3>1. CASE Adapters = {}
      BY <2>4, <3>1, SoundStFacts DEF FitSt
    <3>2. ASSUME NEW b \in Adapters PROVE FitSt(o.st)
      BY <2>4, FitCarried DEF Carried
    <3> QED
      BY <3>1, <3>2
  <2>6. SoundSt(Ended(o.st))
    BY <2>4, EndedProper
  <2> QED
    BY <1>1, <2>1, <2>4, <2>5, <2>6 DEF Works, Replies
<1>3. CASE Restart
  <2>1. SoundSt(Ended(St)) /\ Commit(Ended(St)) /\ ret' = Crashed
    BY <1>3, EndedProper DEF Restart, Crash, Commit, St
  <2> QED
    BY <1>1, <2>1 DEF Works, Replies
<1> QED
  BY <1>2, <1>3

\* bridge.py refuses a response out of range, and nothing else may raise
\* while the disk works.  If what is written has a text, no metadata, a
\* salience and an affect that are not too high and no negative age, and
\* sweeps ask for a threshold above zero, then no request fails, whatever
\* packets boost and updates ask for, and whichever policy decays memories.
THEOREM RequestsDoNotFail ==
  ASSUME Faults = {}, IsFiniteSet(Keys), \A p \in Payloads : IsFit(p), Thresholds \subseteq Nat \ {0},
         Raised \notin Replies
  PROVE  ApiSpec => []NoRequestFails
<1> DEFINE Inv == ApiSound /\ FitSt(St) /\ ret \in Replies
<1>1. ApiInit => Inv
  <2>1. ApiInit => ApiSound
    BY InitSound, MaxIdleAssumption DEF ApiInit, ApiSound
  <2>2. ApiInit => FitSt(St) /\ ret \in Replies
    BY DEF ApiInit, Init, St, FitSt, FitRows, NoRows, Replies
  <2> QED
    BY <2>1, <2>2
<1>2. Inv /\ [ApiNext]_apiVars => Inv'
  <2> SUFFICES ASSUME ApiSound, FitSt(St), ret \in Replies, [ApiNext]_apiVars
               PROVE  ApiSound' /\ FitSt(St)' /\ ret' \in Replies
    BY DEF Replies
  <2>1. ASSUME UNCHANGED vars PROVE Works
    <3>1. St' = St /\ ret' = ret
      BY <2>1 DEF St, vars
    <3> QED
      BY <3>1 DEF Works
  <2>2. ASSUME UNCHANGED apiVars \/ Pass PROVE Works
    <3>1. UNCHANGED vars
      BY <2>2 DEF apiVars, Pass, vars
    <3> QED
      BY <2>1, <3>1
  <2>3. ASSUME Lookup PROVE Works
    BY <2>3, LookupWorks
  <2>4. ASSUME NEW a \in Adapters, Request(a) PROVE Works
    <3>1. SoundSt(St)
      BY DEF ApiSound
    <3> QED
      BY <2>4, <3>1, RequestWorks
  <2>5. ASSUME Shutdown \/ Restart PROVE Works
    <3>1. SoundSt(St)
      BY DEF ApiSound
    <3> QED
      BY <2>5, <3>1, EndWorks
  <2>6. Works
    BY <2>2, <2>3, <2>4, <2>5 DEF ApiNext
  <2>7. FitSt(St') /\ ret' \in Replies
    BY <2>6 DEF Works
  <2>8. FitSt(St') <=> FitSt(St)'
    BY DEF FitSt, FitRows, FitTable, NotNegative, IsFit, IsPlain
  <2> QED
    BY <2>7, <2>8, ApiStep
<1>3. Inv => NoRequestFails
  BY DEF NoRequestFails
<1> HIDE DEF Inv
<1> QED
  BY <1>1, <1>2, <1>3, PTL DEF ApiSpec

----------------------------------------------------------------------------
(* The two processes.  What one of them writes the other finds.            *)

\* A process on the databases another one leaves.
LEMMA SoundOnDisk ==
  ASSUME NEW st, SoundSt(st), NEW t, SoundSt(t)
  PROVE  SoundSt([order |-> st.order, tables |-> st.tables, disk |-> t.disk])
BY DEF SoundSt

SharedInv ==
  /\ ApiSound /\ SoundSt(LocalSt)
  /\ asked \subseteq Calls
  /\ useHttp \in BOOLEAN /\ (useHttp => DOMAIN local.tables = {})

\* What every step does.
SharedKeeps == ApiSound' /\ SoundSt(LocalSt') /\ Grows(St, St')

\* A step of the server, seen from the other process.
LEMMA ServerSide ==
  ASSUME SharedInv, [ApiNext]_apiVars, UNCHANGED local
  PROVE  SharedKeeps
<1>1. ApiKeeps /\ ApiSound'
  BY ApiStep DEF SharedInv
<1>2. LocalSt' = [order |-> LocalSt.order, tables |-> LocalSt.tables, disk |-> St'.disk]
  BY DEF LocalSt, St
<1>3. SoundSt(LocalSt')
  BY <1>1, <1>2, SoundOnDisk DEF ApiKeeps, SharedInv
<1> QED
  BY <1>1, <1>3 DEF ApiKeeps, SharedKeeps

\* A step of the tool, seen from the server.
LEMMA ToolSide ==
  ASSUME SharedInv, NEW t, SoundSt(t), Grows(LocalSt, t), CommitLocal(t)
  PROVE  SharedKeeps /\ LocalSt' = t /\ local'.tables = t.tables
<1>1. LocalSt' = t /\ local'.tables = t.tables
  BY DEF CommitLocal, LocalSt, SoundSt
<1>2. St' = [order |-> St.order, tables |-> St.tables, disk |-> t.disk]
  BY DEF CommitLocal, St
<1>3. SoundSt(St') /\ St'.disk = t.disk
  BY <1>2, SoundOnDisk DEF SharedInv, ApiSound
<1>4. Grows(St, St')
  BY <1>3 DEF Grows, LocalSt, St
<1>5. ApiSound'
  BY <1>3 DEF CommitLocal, ApiSound, SharedInv
<1> QED
  BY <1>1, <1>4, <1>5 DEF SharedKeeps

\* The calls and their arguments.
LEMMA CallFields ==
  ASSUME NEW call \in Calls
  PROVE  /\ call.op \in {"query", "get", "delete", "write", "update", "cross"}
         /\ call.op # "cross" => call.adapter \in Adapters
         /\ call.op = "cross" => call.hints \in HintLists
         /\ call.op = "write" => call.payload \in Payloads
         /\ call.op = "update" => call.edit \in Edits
BY DEF Calls

\* What a tool call does to the tool's own tables: of the three that write,
\* delete or update, a raise leaves no table of the adapter, or has happened
\* before the bridge was called.
LEMMA LocallyProper ==
  ASSUME SoundSt(LocalSt), NEW call \in Calls, NEW o \in Locally(call)
  PROVE  /\ Proper(LocalSt, o)
         /\ call.op \in {"write", "delete", "update"} /\ ~o.ok /\ call.adapter \in DOMAIN o.st.tables
              => o.st = LocalSt
<1> DEFINE a == call.adapter
<1>0. CASE ~HasKey(call)
  <2>1. o = Raises(LocalSt)
    BY <1>0 DEF Locally
  <2>2. o.st = LocalSt /\ Proper(LocalSt, o)
    BY <2>1 DEF Raises, Proper, Grows
  <2> QED
    BY <2>2
<1>1. CASE HasKey(call) /\ call.op = "query"
  <2>1. o \in HandleTrigger(LocalSt, a, call.key) /\ a \in Adapters
    BY <1>1, CallFields DEF HasKey, Locally, OnBridge, LocalQuery
  <2> QED
    BY <1>1, <2>1, TriggerProper
<1>2. CASE HasKey(call) /\ call.op = "cross"
  <2>1. o \in HandleCrossTrigger(LocalSt, call.hints, call.key) /\ call.hints \in HintLists
    BY <1>2, CallFields DEF HasKey, Locally, OnBridge, LocalQuery
  <2> QED
    BY <1>2, <2>1, CrossTriggerProper
<1>3. CASE HasKey(call) /\ call.op = "get"
  <2>1. o \in Mount(LocalSt, a) /\ a \in Adapters
    BY <1>3, CallFields DEF HasKey, Locally, OnBridge, LocalGet
  <2> QED
    BY <1>3, <2>1, MountProper
<1>4. ASSUME a \in Adapters, ChangesOne(LocalSt, a, o)
      PROVE  Proper(LocalSt, o) /\ (~o.ok => a \notin DOMAIN o.st.tables)
  BY <1>4, ChangesOneProper
<1>5. CASE HasKey(call) /\ call.op = "write"
  <2> DEFINE payload == [call.payload EXCEPT !.tags = @ \cup {a}]
  <2>1. a \in Adapters /\ payload \in Payload /\ call.key \in Keys
    BY <1>5, CallFields, InputAssumption, LabelledIsPayload DEF HasKey
  <2>2. o \in LocalWrite(call)
    BY <1>5 DEF Locally, OnBridge
  <2>3. \/ o \in Mount(LocalSt, a) /\ ~o.ok
        \/ \E m \in Mount(LocalSt, a) :
             m.ok /\ o = Returns([m.st EXCEPT !.tables[a] = Put(m.st.tables[a], call.key, payload)])
    BY <2>2 DEF LocalWrite, LocalTable, Mounted, AndThen, InTable
  <2> HIDE DEF payload
  <2>4. ASSUME NEW m \in Mount(LocalSt, a), m.ok PROVE IsTable(Put(m.st.tables[a], call.key, payload))
    BY <2>1, <2>4, MountedTable, PutIsTable
  <2>5. ChangesOne(LocalSt, a, o)
    BY <2>3, <2>4 DEF ChangesOne
  <2> QED
    BY <1>4, <2>1, <2>5
<1>6. CASE HasKey(call) /\ call.op = "delete"
  <2>1. a \in Adapters
    BY <1>6, CallFields
  <2>2. o \in LocalDelete(call)
    BY <1>6 DEF Locally, OnBridge
  <2>3. \/ o \in Mount(LocalSt, a) /\ ~o.ok
        \/ \E m \in Mount(LocalSt, a) :
             /\ m.ok
             /\ o = Returns([m.st EXCEPT !.tables[a] = [m.st.tables[a] EXCEPT !.store = Without(@, {call.key})]])
    BY <2>2 DEF LocalDelete, LocalTable, Mounted, AndThen, InTable
  <2>4. ASSUME NEW m \in Mount(LocalSt, a), m.ok
        PROVE  IsTable([m.st.tables[a] EXCEPT !.store = Without(@, {call.key})])
    BY <2>1, <2>4, MountedTable, WithoutIsTable
  <2>5. ChangesOne(LocalSt, a, o)
    BY <2>3, <2>4 DEF ChangesOne
  <2> QED
    BY <1>4, <2>1, <2>5
<1>7. CASE HasKey(call) /\ call.op = "update"
  <2>1. a \in Adapters /\ IsEdit(call.edit)
    BY <1>7, CallFields, BodyAssumption DEF IsEdit
  <2>2. o \in LocalUpdate(call)
    BY <1>7 DEF Locally, OnBridge
  <2>3. \/ o \in Mount(LocalSt, a) /\ ~o.ok
        \/ \E m \in Mount(LocalSt, a) :
             m.ok /\ o = Returns([m.st EXCEPT !.tables[a] = Amended(m.st.tables[a], {call.key}, call.edit)])
    BY <2>2 DEF LocalUpdate, LocalTable, Mounted, AndThen, InTable
  <2>4. ASSUME NEW m \in Mount(LocalSt, a), m.ok
        PROVE  IsTable(Amended(m.st.tables[a], {call.key}, call.edit))
    BY <2>1, <2>4, MountedTable, AmendedIsTable
  <2>5. ChangesOne(LocalSt, a, o)
    BY <2>3, <2>4 DEF ChangesOne
  <2> QED
    BY <1>4, <2>1, <2>5
<1> QED
  BY <1>0, <1>1, <1>2, <1>3, <1>5, <1>6, <1>7, CallFields

\* The endpoint a call is sent to is one of the server's steps.
LEMMA ServeIsRequest ==
  ASSUME NEW call \in Calls, HasKey(call), AtServer(call)
  PROVE  ApiNext
<1>1. ASSUME NEW k \in Keys, NEW a \in Adapters, Query(a, k) PROVE ApiNext
  BY <1>1 DEF ApiNext, Lookup
<1>2. ASSUME NEW k \in Keys, NEW hints \in HintLists, QueryCross(hints, k) PROVE ApiNext
  BY <1>2 DEF ApiNext, Lookup
<1>3. ASSUME NEW k \in Keys, NEW a \in Adapters,
             \/ FetchMemory(a, k) \/ DeleteMemory(a, k)
             \/ \E p \in Payloads : PostMemory(a, k, p)
             \/ \E edit \in Edits : UpdateMemory(a, k, edit)
      PROVE  ApiNext
  BY <1>3 DEF ApiNext, Request
<1>4. /\ call.op = "query" => Query(call.adapter, call.key)
      /\ call.op = "cross" => QueryCross(call.hints, call.key)
      /\ call.op = "get" => FetchMemory(call.adapter, call.key)
      /\ call.op = "delete" => DeleteMemory(call.adapter, call.key)
      /\ call.op = "update" => UpdateMemory(call.adapter, call.key, call.edit)
      /\ call.op = "write" => PostMemory(call.adapter, call.key, call.payload)
  BY DEF AtServer, Handled
<1> QED
  BY <1>1, <1>2, <1>3, <1>4, CallFields DEF HasKey

\* A text without a key changes nothing at the server, beyond the time that
\* a query applies first.
LEMMA UnhashableKeeps ==
  ASSUME SharedInv, NEW call, Unhashable(call), UNCHANGED local
  PROVE  SharedKeeps
<1>1. CASE QueryUnhashable
  BY <1>1, ServerSide DEF ApiNext, Lookup
<1>2. CASE UNCHANGED <<order, tables, disk, idle>>
  <2>1. St' = St /\ LocalSt' = LocalSt /\ idle' = idle
    BY <1>2 DEF St, LocalSt
  <2> QED
    BY <2>1 DEF SharedKeeps, SharedInv, ApiSound, Grows
<1> QED
  BY <1>1, <1>2 DEF Unhashable

\* What RepeatedOnlyIfUndone says of a step.
OnlyUndone ==
  \A call \in asked' \ asked :
    /\ call.op \in {"write", "delete", "update"}
    /\ call.adapter \in DOMAIN local'.tables
    => LocalSt' = LocalSt

\* A tool call, served over HTTP or done on the tool's own bridge.
LEMMA ToolStep ==
  ASSUME SharedInv, NEW call \in Calls, Tool(call)
  PROVE  SharedInv' /\ Grows(St, St') /\ OnlyUndone
<1>1. useHttp' = useHttp
  BY DEF Tool
<1>2. CASE useHttp /\ Post(call) /\ CommitLocal(LocalSt)
  <2>1. SharedKeeps /\ local'.tables = local.tables
    BY <1>2, ToolSide DEF SharedInv, Grows, LocalSt
  <2>2. asked' \in {asked, asked \cup {call}}
    BY <1>2 DEF Post
  <2>3. OnlyUndone
    BY <1>2, <2>1 DEF SharedInv, OnlyUndone
  <2> QED
    BY <1>1, <2>1, <2>2, <2>3 DEF SharedInv, SharedKeeps
<1>3. ASSUME ~useHttp, NEW o \in Locally(call), CommitLocal(o.st),
             IF o.ok THEN UNCHANGED asked ELSE Post(call)
      PROVE  SharedInv' /\ Grows(St, St') /\ OnlyUndone
  <2>1. /\ Proper(LocalSt, o)
        /\ call.op \in {"write", "delete", "update"} /\ ~o.ok /\ call.adapter \in DOMAIN o.st.tables
             => o.st = LocalSt
    BY LocallyProper DEF SharedInv
  <2>2. SharedKeeps /\ local'.tables = o.st.tables /\ LocalSt' = o.st
    BY <1>3, <2>1, ToolSide DEF Proper
  <2>3. asked' = asked \/ (~o.ok /\ asked' \in {asked, asked \cup {call}})
    BY <1>3 DEF Post
  <2>4. OnlyUndone
    BY <2>1, <2>2, <2>3 DEF OnlyUndone
  <2> QED
    BY <1>1, <1>3, <2>2, <2>3, <2>4 DEF SharedInv, SharedKeeps
<1> QED
  BY <1>2, <1>3 DEF Tool

\* The tool's process ends, and its tables with it.
LEMMA ToolEndStep ==
  ASSUME SharedInv, ToolExit \/ ToolDies
  PROVE  SharedInv' /\ Grows(St, St') /\ OnlyUndone
<1>1. UNCHANGED asked /\ useHttp' \in BOOLEAN
  BY DEF ToolExit, ToolDies
<1>2. ASSUME NEW t, SoundSt(t), Grows(LocalSt, t), CommitLocal(Ended(t))
      PROVE  SharedInv' /\ Grows(St, St') /\ OnlyUndone
  <2>1. /\ SoundSt(Ended(t)) /\ Grows(LocalSt, Ended(t))
        /\ DOMAIN Ended(t).tables = {}
    BY <1>2, EndedProper DEF Grows
  <2>2. SharedKeeps /\ local'.tables = Ended(t).tables
    BY <1>2, <2>1, ToolSide
  <2> QED
    BY <1>1, <2>1, <2>2 DEF SharedInv, SharedKeeps, OnlyUndone
<1>3. CASE ToolExit
  <2>1. PICK o \in FlushAll(LocalSt) : CommitLocal(Ended(o.st))
    BY <1>3 DEF ToolExit
  <2>2. SoundSt(o.st) /\ Grows(LocalSt, o.st)
    BY FlushAllEffect, EffectGrows DEF SharedInv
  <2> QED
    BY <1>2, <2>1, <2>2
<1>4. CASE ToolDies
  BY <1>2, <1>4 DEF ToolDies, SharedInv, Grows
<1> QED
  BY <1>3, <1>4

\* Every step of the two processes.
LEMMA SharedStep ==
  ASSUME SharedInv, [SharedNext]_sharedVars
  PROVE  SharedInv' /\ Grows(St, St') /\ OnlyUndone
<1>1. ASSUME [ApiNext]_apiVars, UNCHANGED <<useHttp, local>>, asked' \subseteq asked
      PROVE  SharedInv' /\ Grows(St, St') /\ OnlyUndone
  <2>1. SharedKeeps
    BY <1>1, ServerSide
  <2> QED
    BY <1>1, <2>1 DEF SharedInv, SharedKeeps, OnlyUndone
<1>2. CASE UNCHANGED sharedVars
  BY <1>1, <1>2 DEF sharedVars, apiVars
<1>3. ASSUME NEW call \in Calls, Serve(call) PROVE SharedInv' /\ Grows(St, St') /\ OnlyUndone
  <2>1. UNCHANGED <<useHttp, local>> /\ asked' \subseteq asked
    BY <1>3 DEF Serve
  <2>2. CASE HasKey(call)
    <3>1. ApiNext
      BY <1>3, <2>2, ServeIsRequest DEF Serve
    <3> QED
      BY <1>1, <2>1, <3>1
  <2>3. CASE ~HasKey(call)
    <3>1. SharedKeeps
      BY <1>3, <2>1, <2>3, UnhashableKeeps DEF Serve, AtServer
    <3> QED
      BY <2>1, <3>1 DEF SharedInv, SharedKeeps, OnlyUndone
  <2> QED
    BY <2>2, <2>3
<1>4. CASE ServerWorks
  BY <1>1, <1>4 DEF ServerWorks, ApiNext
<1>5. CASE ServerEnds
  BY <1>1, <1>5 DEF ServerEnds, ApiNext
<1> QED
  BY <1>2, <1>3, <1>4, <1>5, ToolStep, ToolEndStep DEF SharedNext

\* Each process keeps its tables and its order in step, whatever the other
\* does to the databases.
THEOREM SharedSound == SharedSpec => []SharedInv
<1>1. SharedInit => SharedInv
  <2> SUFFICES ASSUME SharedInit PROVE SharedInv
    OBVIOUS
  <2>1. SoundSt(St) /\ order = <<>> /\ tables = [a \in {} |-> Absent]
    BY InitSound DEF SharedInit, ApiInit, Init
  <2>2. LocalSt = St /\ DOMAIN local.tables = {}
    BY <2>1 DEF SharedInit, NoTables, LocalSt, St
  <2> QED
    BY <2>1, <2>2, MaxIdleAssumption DEF SharedInit, ApiInit, ApiSound, SharedInv
<1>2. SharedInv /\ [SharedNext]_sharedVars => SharedInv'
  BY SharedStep
<1> QED
  BY <1>1, <1>2, PTL DEF SharedSpec

\* The two processes' states are what SharedTypeOK says, whatever they do to
\* the databases they share.
THEOREM SharedTypeCorrect == SharedSpec => []SharedTypeOK
<1>1. SharedInv => SharedTypeOK
  <2> SUFFICES ASSUME SharedInv PROVE SharedTypeOK
    OBVIOUS
  <2>1. ApiTypeOK
    BY DEF SharedInv, ApiSound, ApiTypeOK, SoundSt, St, TypeOK, Lists
  <2>2. \A st : SoundSt(st) => Cardinality(DOMAIN st.tables) = Len(st.order) /\ Len(st.order) <= MaxLoaded
    BY ListsCardinality DEF SoundSt
  <2>3. SlotsRespected
    BY <2>2 DEF SharedInv, ApiSound, SlotsRespected, St
  <2>4. /\ ToSet(local.order) = DOMAIN local.tables
        /\ \A a \in DOMAIN local.tables : IsTable(local.tables[a])
    BY DEF SharedInv, SoundSt, LocalSt, Lists
  <2>5. Len(local.order) = Cardinality(DOMAIN local.tables) /\ Len(local.order) <= MaxLoaded
    BY <2>2 DEF SharedInv, LocalSt
  <2> QED
    BY <2>1, <2>3, <2>4, <2>5 DEF SharedInv, SharedTypeOK
<1> QED
  BY <1>1, SharedSound, PTL

\* sqlite_backend.py:37: with its upsert neither process takes a row out of
\* a database, whatever version of the other's work it overwrites.
THEOREM RowsAreNeverLost == SharedSpec => RowsSurvive
<1>1. SharedInv /\ [SharedNext]_sharedVars
        => [\A a \in Adapters : DOMAIN disk[a] \subseteq DOMAIN disk'[a]]_sharedVars
  BY SharedStep DEF Grows, St
<1> QED
  BY <1>1, SharedSound, PTL DEF SharedSpec, RowsSurvive

\* mrag_mcp.py: a request that goes to the server repeats nothing that the
\* tool's own bridge has done.
THEOREM FallbackRepeatsNothing == SharedSpec => RepeatedOnlyIfUndone
<1>1. SharedInv /\ [SharedNext]_sharedVars =>
        [\A call \in asked' \ asked :
           /\ call.op \in {"write", "delete", "update"}
           /\ call.adapter \in DOMAIN local'.tables
           => LocalSt' = LocalSt]_sharedVars
  BY SharedStep DEF OnlyUndone
<1> QED
  BY <1>1, SharedSound, PTL DEF SharedSpec, RepeatedOnlyIfUndone

=============================================================================
