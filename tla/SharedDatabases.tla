-------------------------- MODULE SharedDatabases --------------------------
(***************************************************************************)
(* mrag_mcp.py beside api.py.  By default the MCP server opens a bridge of *)
(* its own on the directory of the HTTP server: two processes, each with   *)
(* its tables, one set of databases, and nothing that tells one what the   *)
(* other holds.  A tool call is tried on the local bridge; if anything     *)
(* raises, the same call goes to the HTTP server, which may answer, refuse *)
(* or be so slow that the tool gives up while the server still works.      *)
(* With MRAG_URL set, or no library to import, all calls go there at once. *)
(* A fault of the disk may be the other process: it holds the lock.        *)
(***************************************************************************)
EXTENDS ApiServer

CONSTANT MaxAsked       \* bound: requests of the tool that wait at the server

VARIABLES useHttp,      \* USE_HTTP
          local,        \* _tables of the MCP server's bridge, with their order
          asked         \* requests of the tool that the server has accepted

sharedVars == <<order, tables, disk, ret, idle, useHttp, local, asked>>

LocalSt == [order |-> local.order, tables |-> local.tables, disk |-> disk]

\* A local step: the tables are the tool's own, the databases are shared.
CommitLocal(st) ==
  /\ local' = [order |-> st.order, tables |-> st.tables]
  /\ disk' = st.disk
  /\ UNCHANGED <<order, tables, ret, idle>>

NoTables == [order |-> <<>>, tables |-> [a \in {} |-> Absent]]

SharedInit == ApiInit /\ useHttp \in BOOLEAN /\ local = NoTables /\ asked = {}

\* The key that a text given to a tool has, if the hasher does not raise.
TextKeys == Keys \cup {NoKey}

\* The tools and their arguments.
Calls ==
  [op : {"get", "delete"}, adapter : Adapters, key : Keys]
    \cup [op : {"update"}, adapter : Adapters, key : Keys, edit : Edits]
    \cup [op : {"query"}, adapter : Adapters, key : TextKeys]
    \cup [op : {"cross"}, hints : HintLists, key : TextKeys]
    \cup [op : {"write"}, adapter : Adapters, key : TextKeys, payload : Payloads]

HasKey(call) == call.key \in Keys

\* The tools on the local bridge.  No time is applied here: the automatic
\* tick is the HTTP server's.
LocalTable(call, Change(_)) == Mounted(LocalSt, call.adapter, Change)

LocalQuery(call) ==
  IF call.op = "cross" THEN HandleCrossTrigger(LocalSt, call.hints, call.key)
                       ELSE HandleTrigger(LocalSt, call.adapter, call.key)

LocalWrite(call) ==
  LET payload == [call.payload EXCEPT !.tags = @ \cup {call.adapter}]
  IN  LocalTable(call, LAMBDA t : Put(t, call.key, payload))

LocalDelete(call) == LocalTable(call, LAMBDA t : [t EXCEPT !.store = Without(@, {call.key})])
LocalGet(call) == Mount(LocalSt, call.adapter)
LocalUpdate(call) == LocalTable(call, LAMBDA t : Amended(t, {call.key}, call.edit))

OnBridge(call) ==
  CASE call.op \in {"query", "cross"} -> LocalQuery(call)
    [] call.op = "write"  -> LocalWrite(call)
    [] call.op = "delete" -> LocalDelete(call)
    [] call.op = "get"    -> LocalGet(call)
    [] call.op = "update" -> LocalUpdate(call)

\* Where there is a text, it is hashed first.
Locally(call) == IF HasKey(call) THEN OnBridge(call) ELSE {Raises(LocalSt)}

\* The server's hasher raises as well: before a write, behind a query's tick.
Unhashable(call) ==
  IF call.op = "write" THEN ret' = NoKey /\ UNCHANGED <<order, tables, disk, idle>>
                       ELSE QueryUnhashable

\* The same call as the endpoint it is sent to handles it.
Handled(call) ==
  CASE call.op = "query"  -> Query(call.adapter, call.key)
    [] call.op = "cross"  -> QueryCross(call.hints, call.key)
    [] call.op = "get"    -> FetchMemory(call.adapter, call.key)
    [] call.op = "delete" -> DeleteMemory(call.adapter, call.key)
    [] call.op = "update" -> UpdateMemory(call.adapter, call.key, call.edit)
    [] call.op = "write"  -> PostMemory(call.adapter, call.key, call.payload)

AtServer(call) == IF HasKey(call) THEN Handled(call) ELSE Unhashable(call)

\* The server accepts the request, or cannot be reached and the tool
\* reports that.
Post(call) == Cardinality(asked) < MaxAsked /\ asked' \in {asked, asked \cup {call}}

\* A local answer, or the fallback.
Tool(call) ==
  /\ \/ useHttp /\ Post(call) /\ CommitLocal(LocalSt)
     \/ /\ ~useHttp
        /\ \E o \in Locally(call) :
             CommitLocal(o.st) /\ IF o.ok THEN UNCHANGED asked ELSE Post(call)
  /\ UNCHANGED useHttp

\* The server gets to a request, be the tool still waiting or not.
Serve(call) ==
  call \in asked /\ AtServer(call) /\ asked' = asked \ {call} /\ UNCHANGED <<useHttp, local>>

\* The MCP server ends, by its exit handler if it has one, and the next may
\* be set up otherwise ...
ToolExit ==
  /\ ~useHttp /\ \E o \in FlushAll(LocalSt) : CommitLocal(Ended(o.st))
  /\ useHttp' \in BOOLEAN /\ UNCHANGED asked

\* ... or without it.
ToolDies == CommitLocal(Ended(LocalSt)) /\ useHttp' \in BOOLEAN /\ UNCHANGED asked

\* What the server does for its other clients, and its end, with which the
\* requests it had accepted are gone.
ServerWorks ==
  /\ Pass \/ Lookup \/ \E a \in Adapters : Request(a)
  /\ UNCHANGED <<useHttp, local, asked>>
ServerEnds == (Shutdown \/ Restart) /\ asked' = {} /\ UNCHANGED <<useHttp, local>>

SharedNext ==
  \/ \E call \in Calls : Tool(call) \/ Serve(call)
  \/ ToolExit \/ ToolDies \/ ServerWorks \/ ServerEnds

SharedSpec == SharedInit /\ [][SharedNext]_sharedVars

----------------------------------------------------------------------------
(* Properties. *)

\* Each process by itself keeps its order, its tables and its slots in
\* step, whatever the databases under it turn into.
SharedTypeOK ==
  /\ ApiTypeOK /\ SlotsRespected
  /\ ToSet(local.order) = DOMAIN local.tables
  /\ Len(local.order) = Cardinality(DOMAIN local.tables) /\ Len(local.order) <= MaxLoaded
  /\ \A a \in DOMAIN local.tables : IsTable(local.tables[a])
  /\ asked \subseteq Calls

\* Neither process removes a row from a database: what one of them has
\* saved, the other may overwrite with an older version when it saves, but
\* a memory that reached a database is there for good.  That holds because
\* of the upsert of sqlite_backend.py:37: if a save did what line 125 says,
\* "Replaces all rows", one process would drop what the other has stored.
RowsSurvive == [][\A a \in Adapters : DOMAIN disk[a] \subseteq DOMAIN disk'[a]]_sharedVars

\* The fallback repeats a call that failed, never one that was done: when a
\* request goes to the server, the tool's own bridge has not even mounted
\* the adapter, or the call has not come to it at all; so nothing is written,
\* deleted or updated in both places.
RepeatedOnlyIfUndone ==
  [][\A call \in asked' \ asked :
       /\ call.op \in {"write", "delete", "update"}
       /\ call.adapter \in DOMAIN local'.tables
       => LocalSt' = LocalSt]_sharedVars
=============================================================================
