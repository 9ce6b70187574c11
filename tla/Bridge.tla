------------------------------- MODULE Bridge ------------------------------
(***************************************************************************)
(* mrag/bridge/interface.py: what a query and a PIDX packet do to the      *)
(* tables of the manager, as outcomes of the kind EngRamManager's internal *)
(* methods have.  Of a response its direct hit and its affect band are     *)
(* kept; the tokens and their ranking are text.  A dict's order decides nothing but     *)
(* ties, so ties are open here, and so is the similarity of two texts.     *)
(***************************************************************************)
EXTENDS EngRamManager, AffectRouter

CONSTANTS TopN,                 \* top_n
          One,                  \* the salience 1.0 and the affect 1.0, in units
          EvictionThreshold     \* the default of evict_stale, in units

ASSUME BridgeAssumption ==
  TopN \in Nat \ {0} /\ One \in Nat \ {0} /\ EvictionThreshold \in 1..One

Answers(st, value) == [st |-> st, ok |-> TRUE, value |-> value]

\* Change the table of an adapter that is in RAM.
InTable(st, a, Change(_)) == [st EXCEPT !.tables[a] = Change(@)]

\* Mount a, then change its table.
Mounted(st, a, Change(_)) ==
  AndThen(Mount(st, a), LAMBDA s : {Returns(InTable(s, a, Change))})

\* Frontloaded eviction: always with the default threshold.
Swept(st, a) == Mounted(st, a, LAMBDA t : EvictStale(t, EvictionThreshold))

Worth(payload) == DecayedSalience(Policy, payload.salience, payload.age)

\* The payload's own decayed_salience knows the default policy only.
OwnWorth(payload) == DecayedSalience(DefaultPolicy, payload.salience, payload.age)

\* The keys top_by_salience(n) may pick.
Tops(store, n) ==
  {S \in SUBSET DOMAIN store :
     /\ Cardinality(S) = Min({n, Cardinality(DOMAIN store)})
     /\ \A k \in S, j \in DOMAIN store \ S : NotBelow(Worth(store[k]), Worth(store[j]))}

\* The validators of EngRamResponse: the highest salience lies in [0, 1]
\* and the mean affect in [-1, 1].  memories is a function to payloads.
SumOfAffect(memories) == MapThenSumSet(LAMBDA k : memories[k].affect, DOMAIN memories)

InRange(memories) ==
  LET S == DOMAIN memories
  IN  S # {} => /\ \E k \in S : NotBelow(OwnWorth(memories[k]), Whole(0))
                /\ \A k \in S : NotBelow(Whole(One), OwnWorth(memories[k]))
                /\ SumOfAffect(memories) \in -One * Cardinality(S) .. One * Cardinality(S)

\* The band of the mean affect; nothing found is neutral.
Routed(memories) ==
  IF DOMAIN memories = {} THEN {"neutral"}
  ELSE BandsFor([num |-> SumOfAffect(memories), den |-> One * Cardinality(DOMAIN memories)])

\* A response that does not validate, or finds no band, raises, and what
\* the call did until then stays.
Respond(st, memories, hit) ==
  LET bands == IF InRange(memories) THEN Routed(memories) ELSE {}
  IN  {Answers(st, [hit |-> hit, band |-> band]) : band \in bands}
        \cup {o \in {Raises(st)} : bands = {}}

HandleTrigger(st, a, hash) ==
  AndThen(Swept(st, a), LAMBDA s :
    LET store == s.tables[a].store
    IN  UNION {Respond(s, Restrict(store, top), ValueAt(store, hash)) : top \in Tops(store, TopN)})

\* One round of handle_cross_trigger's loop.  What was collected from a
\* table outlives the table's stay in RAM.  A hit that is not among the top
\* ones takes the place of the last.
Collected(o, a, hash) ==
  LET PerTable == Max({3, TopN})
      Picked(store, top) ==
        IF hash \notin DOMAIN store \/ hash \in top THEN {top}
        ELSE {S \cup {hash} : S \in Tops(Restrict(store, top), PerTable - 1)}
  IN  AndThen(Swept(o.st, a), LAMBDA s :
        LET store == s.tables[a].store
        IN  {Answers(s, o.value \cup {[from |-> a, payload |-> store[k]] : k \in picked}) :
               picked \in UNION {Picked(store, top) : top \in Tops(store, PerTable)}})

\* The TopN best of what was collected, each text once.
Rankings(found) ==
  LET texts == {f.payload.text : f \in found}
  IN  {R \in SUBSET found :
         /\ Cardinality(R) = Min({TopN, Cardinality(texts)})
         /\ \A f, g \in R : f.payload.text = g.payload.text => f = g}

HandleCrossTrigger(st, hints, hash) ==
  LET Round(outcomes, a) ==
        {o \in outcomes : ~o.ok} \cup UNION {Collected(o, a, hash) : o \in {b \in outcomes : b.ok}}
      collected == FoldLeft(Round, {Answers(st, {})}, hints)
  IN  {o \in collected : ~o.ok} \cup
        UNION {UNION {Respond(o.st, [f \in R |-> f.payload], Absent) : R \in Rankings(o.value)} :
                 o \in {c \in collected : c.ok}}

\* Mutant: a boost is not limited to 1.0.
BoostUnlimited(table, boost, choice) ==
  [store |-> [k \in DOMAIN table.store |->
                IF k \in DOMAIN choice
                THEN [table.store[k] EXCEPT !.salience = @ + boost[choice[k]]]
                ELSE table.store[k]],
   needsEviction |-> table.needsEviction \/ DOMAIN choice # {}]

\* Each memory in choice gets the boost of the tag chosen for it.
Boosted(table, boost, choice) ==
  [store |-> [k \in DOMAIN table.store |->
                IF k \in DOMAIN choice
                THEN [table.store[k] EXCEPT !.salience = Min({One, @ + boost[choice[k]]})]
                ELSE table.store[k]],
   needsEviction |-> table.needsEviction \/ DOMAIN choice # {}]

\* The first tag of a memory that the packet boosts: any one of them here.
BoostChoices(store, boost) ==
  LET tagged(k) == store[k].tags \cap DOMAIN boost
      keys == {k \in DOMAIN store : tagged(k) # {}}
  IN  {c \in [keys -> DOMAIN boost] : \A k \in keys : c[k] \in tagged(k)}

HandlePidxSync(st, a, tenths, boost) ==
  LET steps == ConvertPidxDelta(tenths)
      aged == IF steps > 0 THEN Mounted(st, a, LAMBDA t : Tick(t, steps)) ELSE {Returns(st)}
      boosted == AndThen(AndThen(aged, LAMBDA s : Mount(s, a)), LAMBDA s :
                   {Returns(InTable(s, a, LAMBDA t : Boosted(t, boost, choice))) :
                      choice \in BoostChoices(s.tables[a].store, boost)})
  IN  IF DOMAIN boost = {} THEN aged ELSE boosted
=============================================================================
