----------------------------- MODULE LruOrder ------------------------------
(***************************************************************************)
(* EngRamManager with a history variable that keeps what the code does not *)
(* need to keep: the adapters ever used, in the order of their last use.   *)
(* The manager's own order is that of a dict from which entries are popped *)
(* and moved; here it is measured against the calls themselves.            *)
(***************************************************************************)
EXTENDS EngRamManager

\* A caller can tell a call that raised from one that returned.
ASSUME RaiseAssumption ==
  Raised \notin {Done} \cup [adapter : Adapters, key : Keys, value : Payload \cup {Absent}]
    \cup [adapter : Adapters, threshold : Thresholds, count : {Cardinality(S) : S \in SUBSET Keys}]

VARIABLE recent         \* adapters by last successful use, latest last

lruVars == <<order, tables, disk, ret, recent>>

LruInit == Init /\ recent = <<>>

UseRecorded(a) ==
  /\ Use(a)
  /\ recent' = IF ret' = Raised THEN recent ELSE Append(RemoveFirst(recent, a), a)

LruNext == (\E a \in Adapters : UseRecorded(a)) \/ (Release /\ UNCHANGED recent)

LruSpec == LruInit /\ [][LruNext]_lruVars

LastUse(a) == CHOOSE i \in DOMAIN recent : recent[i] = a

\* "Evicts the Least Recently Used table on overflow" (manager.py:5): a call
\* that needs a slot takes it from the one table whose last use lies
\* furthest back, and takes no second one; raises, unmounts and failed
\* loads in between do not blur the order.
EvictsLeastRecent ==
  [][\A a \in Adapters : UseRecorded(a) =>
       \A v \in Freed : \A b \in DOMAIN tables \ {v} : b \notin Freed /\ LastUse(v) < LastUse(b)]_lruVars
=============================================================================
