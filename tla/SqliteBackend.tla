--------------------------- MODULE SqliteBackend ---------------------------
(***************************************************************************)
(* mrag/store/sqlite_backend.py: one database per adapter, one row per     *)
(* memory.  A database is the partial function of its rows; a database     *)
(* that does not exist yet and an empty one load alike.                    *)
(***************************************************************************)
EXTENDS EngramTable

NoRows == [k \in {} |-> Absent]

\* A row has no metadata column: what comes back is the empty dict.
Row(payload) == [payload EXCEPT !.metadata = NoMetadata]
Rows(store) == [k \in DOMAIN store |-> Row(store[k])]

Load(rows) == [store |-> rows, needsEviction |-> TRUE]

\* save reads the text attribute of every payload before it writes any row;
\* a generic Engram has none and the call raises.
Saveable(table) == \A k \in DOMAIN table.store : table.store[k].text # NoText

Upserted(rows, new) ==
  [k \in DOMAIN rows \cup DOMAIN new |-> IF k \in DOMAIN new THEN new[k] ELSE rows[k]]

\* Mutant: an existing row wins over the one being saved.
SaveMissingRows(rows, table) ==
  [k \in DOMAIN rows \cup DOMAIN table.store |->
     IF k \in DOMAIN rows THEN rows[k] ELSE Row(table.store[k])]

\* Mutant: the rows of the table and no others, as the docstring has it.
ReplaceAllRows(rows, table) == Rows(table.store)

\* The rows of the database once save has committed.  Rows whose key the
\* table no longer holds stay: the statement only inserts or updates.
Save(rows, table) == Upserted(rows, Rows(table.store))
=============================================================================
