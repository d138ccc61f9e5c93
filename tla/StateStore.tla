----------------------------- MODULE StateStore -----------------------------
(***************************************************************************)
(* One key of the local database under journaled writes: any operation of  *)
(* Ops may be applied at any time, in any order and any number of times    *)
(* (a journal is replayed after a crash, by any process, until its file is *)
(* removed).  What the receipts, the component receipts and the barrier of *)
(* StateApply are for is that the row does not show it.                    *)
(***************************************************************************)
EXTENDS StateApply

CONSTANT Ops     \* the operations users make, each with its own id

ASSUME OpsAssumption ==
  /\ Ops \subseteq Operation
  /\ \A op \in Ops : \E i \in Ids : op.ids = {i}
  /\ \A o1, o2 \in Ops : o1.ids = o2.ids => o1 = o2
  /\ Kind # "progress" => \A op \in Ops : op.method = "set"

VARIABLES
  rows,      \* the rows of the key in the four tables
  accepted   \* history: the operations answered committed or merged_stale

vars == <<rows, accepted>>

\* Each table holds rows of its columns' types.
TypeOK == rows \in Rows /\ accepted \subseteq Ops

Init == rows = EmptyRows /\ accepted = {}

\* One call of apply_state_operation, from a first write or from a replay.
Deliver(op) ==
  LET result == Apply(rows, op) IN
  /\ rows' = result.rows
  /\ accepted' = IF result.answer \in {"committed", "merged_stale"}
                 THEN accepted \cup {op} ELSE accepted

Next == \E op \in Ops : Deliver(op)

Spec == Init /\ [][Next]_vars

-----------------------------------------------------------------------------
\* The accepted operations no accepted replacement came after.
InForce == {op \in accepted : \A s \in accepted :
              s.method = "set" => s = op \/ Before(s, op)}

\* Whatever the order and the number of deliveries, the row is exactly the
\* last accepted replacement joined with every accepted merge after it: no
\* accepted contribution is lost and no older one crosses a replacement
\* (apply_state_operation: the stale-merge path and the reset barrier).
RowIsReference ==
  /\ rows.state = IF accepted = {} THEN "absent" ELSE "valid"
  /\ rows.value = UNION {op.val : op \in InForce}

\* Applying again what was accepted before changes nothing, though later
\* operations have replaced its receipt in the meantime (the component
\* receipts, the barrier and the ordering receipt of apply_state_operation).
ReplayIsHarmless ==
  [][\A op \in accepted : Deliver(op) => rows' = rows]_vars

-----------------------------------------------------------------------------
(***************************************************************************)
(* Why it holds.  The receipt is that of the newest accepted operation;    *)
(* the component receipts are exactly the merges in force; the barrier is  *)
(* the newest accepted replacement.                                        *)
(***************************************************************************)
EmptyWhenNothingAccepted == accepted = {} => rows = EmptyRows

ReceiptIsNewest ==
  accepted # {} =>
    /\ rows.receipt.kind = "operation"
    /\ rows.receipt.value = rows.value
    /\ rows.receipt.op \in accepted
    /\ \A op \in accepted : op = rows.receipt.op \/ Before(op, rows.receipt.op)

MergedAreInForce ==
  \A op \in Ops : op.ids \subseteq rows.merged
                    <=> op.method = "merge" /\ op \in InForce

BarrierIsNewestReset ==
  \/ /\ rows.barrier = NoBarrier
     /\ Kind = "progress" => \A op \in accepted : op.method # "set"
  \/ /\ Kind = "progress"
     /\ \E s \in accepted :
          /\ s.method = "set"
          /\ rows.barrier = [kind |-> "progress_reset", rev |-> s.rev,
                             ids |-> s.ids, at |-> s.at]
          /\ \A op \in accepted : op.method = "set" => op = s \/ Before(op, s)

\* All of it together: an invariant a step of apply_state_operation preserves.
IndInv ==
  /\ TypeOK
  /\ RowIsReference
  /\ EmptyWhenNothingAccepted
  /\ ReceiptIsNewest
  /\ MergedAreInForce
  /\ BarrierIsNewestReset

=============================================================================
