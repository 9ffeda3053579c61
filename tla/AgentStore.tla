----------------------------- MODULE AgentStore -----------------------------
(***************************************************************************)
(* The tables of internal/agent/store.go that other modules write to, as   *)
(* operators on sets of rows.  A row is a record with a key column; a      *)
(* table is a set of rows in which no two rows have the same key.          *)
(***************************************************************************)
EXTENDS Naturals, FiniteSetsExt

\* SELECT COALESCE(MAX(key),0)+1 over the keys in K.
NextKey(K) == IF K = {} THEN 1 ELSE Max(K) + 1

\* The keys of the agent_queue table and the key the next INSERT takes
\* (Store.Enqueue; Manager.queueMu makes the SELECT and the INSERT one step).
QueueIds(table) == {row.id : row \in table}
NextQueueId(table) == NextKey(QueueIds(table))

\* ORDER BY id LIMIT 1 (Store.PopQueued): the rows no other row precedes.
OldestRows(table) == {row \in table : \A other \in table : row.id <= other.id}

\* WHERE id=? (Store.CancelQueued; the session_id condition holds of every
\* row of the one session modelled).
RowsWithId(table, id) == {row \in table : row.id = id}
=============================================================================
