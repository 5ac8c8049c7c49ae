------------------------------- MODULE Ledger -------------------------------
(***************************************************************************)
(* LedgerDO of demo/durable-sql/worker/worker.mjs: a Durable Object whose  *)
(* requests are compiled Elixir on the object's own SQLite, through the    *)
(* sql import (SqlLedger of demo/durable-sql/app/lib/sql_ledger.ex).  SQL  *)
(* is synchronous, so a request is one step; the database writes through   *)
(* the same gates as storage.                                              *)
(***************************************************************************)
EXTENDS ObjectStorage, Integers, Functions, FiniteSetsExt

\* id -> amount, and the greatest id ever given (AUTOINCREMENT).
NoEntries == [rows |-> <<>>, seq |-> 0]
Total(table) == MapThenSumSet(LAMBDA id : table.rows[id], DOMAIN table.rows)

Requested(r) == request[r].call
Wants(r, op) == Delivered(r) /\ Requested(r).op = op
Commits(r, table, id) ==
    WriteAndRespond(r, [Cached EXCEPT !.table = table], [ok |-> TRUE, id |-> id, balance |-> Total(table)])
Inserted(rows, id, amount) == [i \in {id} \cup DOMAIN rows |-> IF i = id THEN amount ELSE rows[i]]
NotFound == [ok |-> FALSE, error |-> "not found"]
Known(r) == Requested(r).id \in DOMAIN Cached.table.rows

\* mutant: no AUTOINCREMENT, so the greatest id there is, plus one
LedgerAddReusing(r) ==
    /\ Wants(r, "add")
    /\ LET t == Cached.table
           id == Max({0} \cup DOMAIN t.rows) + 1
       IN  Commits(r, [rows |-> Inserted(t.rows, id, Requested(r).amount), seq |-> id], id)

LedgerAdd(r) ==
    /\ Wants(r, "add")
    /\ LET t == Cached.table
           id == t.seq + 1
       IN  Commits(r, [rows |-> Inserted(t.rows, id, Requested(r).amount), seq |-> id], id)

LedgerUpdate(r) ==
    /\ Wants(r, "update") /\ Known(r)
    /\ Commits(r, [Cached.table EXCEPT !.rows[Requested(r).id] = Requested(r).amount], Requested(r).id)

LedgerDelete(r) ==
    /\ Wants(r, "delete") /\ Known(r)
    /\ LET t == Cached.table
           id == Requested(r).id
       IN  Commits(r, [t EXCEPT !.rows = Restrict(@, DOMAIN @ \ {id})], id)

LedgerMisses(r) ==
    /\ Wants(r, "update") \/ Wants(r, "delete")
    /\ ~Known(r) /\ NoWrite /\ Respond(r, NotFound)

\* list, balance and report
LedgerReads(r) ==
    /\ Wants(r, "list") /\ NoWrite
    /\ Respond(r, [ok |-> TRUE, balance |-> Total(Cached.table)])

LedgerDO(r) ==
    LedgerAdd(r) \/ LedgerUpdate(r) \/ LedgerDelete(r) \/ LedgerMisses(r) \/ LedgerReads(r)
=============================================================================
