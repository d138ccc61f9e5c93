----------------------------- MODULE ScoreTables -----------------------------
(***************************************************************************)
(* The two score tables as state, for every model of a way a score takes:  *)
(* the store by itself, the local backend and the HTTP server.             *)
(***************************************************************************)
EXTENDS ScoreApply

VARIABLES
  rows,       \* attempts: the row of each attempt, or None
  receipts    \* save_requests: the receipt of each request, or None

tables == <<rows, receipts>>

TablesInit ==
  /\ rows = [a \in Attempts |-> None]
  /\ receipts = [r \in Requests |-> None]

\* The transaction of record_mutation, with the reply it is answered by.
Commits(reply) == rows' = reply.rows /\ receipts' = reply.receipts

=============================================================================
