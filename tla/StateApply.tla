----------------------------- MODULE StateApply -----------------------------
(***************************************************************************)
(* The SQLite transaction that applies one journaled operation to the row  *)
(* of its key, together with the key's ordering receipt, its component     *)
(* receipts and its barrier: LocalGameStore.apply_state_operation and the  *)
(* direct writes in store.py.  Every operator maps the rows of one key to  *)
(* their contents at the commit; a rollback is the rows unchanged.         *)
(*                                                                         *)
(* The rows of a key:                                                      *)
(*   state    whether there is a row: "absent", "valid", or "unreadable"   *)
(*            (it does not parse, or validate_progress refuses it);        *)
(*   value    the value of a valid row, at its updated_at;                 *)
(*   receipt  its state_receipts row: the operation it describes, whether  *)
(*            an operation or a baseline, and the value it describes       *)
(*            (value_hash);                                                *)
(*   merged   the operation ids in state_merge_receipts;                   *)
(*   barrier  its state_barriers row.                                      *)
(* Times and revisions share one scale (int(at * 1e9) in the code).        *)
(***************************************************************************)
EXTENDS StateOps

CONSTANTS
  Kind,      \* the kind of the key
  Refused    \* ids of operations whose effect the store refuses for good
             \* (profile_not_found, slot_in_use, an invalid value)

ASSUME KindAssumption == Kind \in {"progress", "setting", "profile", "slot"}

NoReceipt == [kind |-> "none", op |-> NoOp, value |-> {}]
NoBarrier == [kind |-> "none", rev |-> 0, ids |-> {}, at |-> 0]

EmptyRows == [state |-> "absent", value |-> {}, at |-> 0, receipt |-> NoReceipt,
              merged |-> {}, barrier |-> NoBarrier]

\* What the columns of the four tables hold.
Receipts == [kind : {"none", "operation", "baseline"},
             op : Operation \cup {NoOp}, value : SUBSET Levels]
Barriers == [kind : {"none", "progress_reset", "progress_baseline", "slot_delete"},
             rev : Nat, ids : SUBSET Ids, at : Nat]
Rows == [state : {"absent", "valid", "unreadable"}, value : SUBSET Levels, at : Nat,
         receipt : Receipts, merged : SUBSET Ids, barrier : Barriers]

\* _authoritative_state is not None
Readable(d) == d.state = "valid"

\* A slip: component receipts are believed when the row is gone.
AlreadyReceipted(d, op) == op.ids \subseteq d.merged

\* The components are all in state_merge_receipts and the row is there: the
\* operation has had its effect (absorbed set, or merge with no new part).
AlreadyIn(d, op) == Readable(d) /\ op.ids \subseteq d.merged

\* Otherwise component receipts that speak of a row that is gone are dropped.
ForgetOrphans(d, op) ==
  IF Readable(d) THEN d
  ELSE [d EXCEPT !.merged = IF op.method = "set" THEN @ \ op.ids
                            ELSE IF op.ids \subseteq @ THEN {} ELSE @]

\* Slips: no barrier is looked at, or every one as if it were a reset.
NeverSupersedes(op, barrier) == FALSE
OrderSupersedes(op, barrier) == barrier.kind # "none" /\ Before(op, barrier)

\* state_barrier_supersedes
BarrierSupersedes(op, barrier) ==
  /\ barrier.kind # "none"
  /\ IF barrier.kind = "progress_baseline" THEN op.at <= barrier.at
     ELSE Before(op, barrier)

\* _insert_state_receipt: a set_progress receipt also moves the barrier.
InsertReceipt(d, kind, op) ==
  [d EXCEPT
    !.receipt = [kind |-> kind, op |-> op, value |-> d.value],
    !.barrier = IF Kind = "progress" /\ op.method = "set"
                THEN [kind |-> IF kind = "baseline" THEN "progress_baseline"
                               ELSE "progress_reset",
                      rev |-> op.rev, ids |-> op.ids, at |-> op.at]
                ELSE @]

\* The pseudo-operation a baseline receipt records for the row as it stands.
BaselineOp(d, method, rev) ==
  [method |-> method, rev |-> rev, ids |-> {}, at |-> d.at, val |-> d.value]

\* The receipt is checked against the row before it is trusted: dropped when
\* the row is gone, rebuilt as a baseline when the row holds another value.
Repair(d, op) ==
  IF d.receipt.kind = "none" THEN d
  ELSE IF ~Readable(d) THEN [d EXCEPT !.receipt = NoReceipt, !.merged = {}]
  ELSE IF d.receipt.value # d.value
  THEN InsertReceipt(d, "baseline",
                     BaselineOp(d, op.method, Later(d.receipt.op.rev, d.at)))
  ELSE d

\* How op stands to the receipt of the row.
Ordering(d, op) ==
  LET prior == d.receipt
      afterBaseline == prior.kind = "baseline" /\ op.at > prior.op.at
      baselineWins  == prior.kind = "baseline" /\ ~afterBaseline
      older == Before(op, prior.op) /\ ~afterBaseline
  IN IF prior.kind = "none" THEN "committed"
     ELSE IF prior.kind = "operation" /\ SameOrder(op, prior.op)
     THEN IF op = prior.op THEN "duplicate" ELSE "conflict"
     ELSE IF baselineWins THEN "superseded"
     ELSE IF ~older THEN "committed"
     ELSE IF op.method = "merge" /\ prior.op.method = "merge"
     THEN "merged_stale" ELSE "superseded"

\* A slip: a merge writes its own value over the row.
WriteOver(d, op) ==
  [d EXCEPT !.state = "valid", !.value = op.val, !.at = op.at]

\* The upsert of the row.  A set replaces, a merge joins with a readable row;
\* a merge that finds an unreadable row archives it and starts afresh.
WriteRow(d, op) ==
  LET joins == op.method = "merge" /\ Readable(d) IN
  [d EXCEPT !.state = "valid",
            !.value = IF joins THEN d.value \cup op.val ELSE op.val,
            !.at = IF joins \/ (Kind = "profile" /\ d.state # "absent")
                   THEN Later(d.at, op.at) ELSE op.at,
            !.merged = IF op.method = "merge" /\ d.state = "unreadable"
                       THEN {} ELSE @]

\* A slip: a stale merge leaves the winner's receipt as it is, describing the
\* value before the merge.
CommitStaleHash(d, op, answer) ==
  LET written == WriteRow(d, op)
      stamped == IF answer = "merged_stale" THEN written
                 ELSE InsertReceipt(written, "operation", op)
  IN [stamped EXCEPT !.merged = IF op.method = "merge" THEN @ \cup op.ids ELSE {}]

\* The row, then its receipt (a stale merge leaves the winner's receipt and
\* corrects the value it describes), then the component receipts.
Commit(d, op, answer) ==
  LET written == WriteRow(d, op)
      stamped == IF answer = "merged_stale"
                 THEN [written EXCEPT !.receipt.value = written.value]
                 ELSE InsertReceipt(written, "operation", op)
  IN [stamped EXCEPT !.merged =
        IF op.method = "merge" THEN @ \cup op.ids
        ELSE IF Kind = "progress" THEN {} ELSE @]

\* apply_state_operation: the rows after the transaction and what it answers.
Apply(d, op) ==
  IF AlreadyIn(d, op) THEN [rows |-> d, answer |-> "duplicate"]
  ELSE LET kept == ForgetOrphans(d, op) IN
  IF BarrierSupersedes(op, kept.barrier)
  THEN [rows |-> kept, answer |-> "superseded"]
  ELSE LET known == Repair(kept, op)
           answer == Ordering(known, op) IN
  IF answer = "conflict" THEN [rows |-> d, answer |-> answer]
  ELSE IF answer \in {"duplicate", "superseded"} THEN [rows |-> known, answer |-> answer]
  ELSE IF op.ids \cap Refused # {} THEN [rows |-> d, answer |-> "refused"]
  ELSE [rows |-> Commit(known, op, answer), answer |-> answer]

-----------------------------------------------------------------------------
(***************************************************************************)
(* Writes that do not come from a journal.                                 *)
(***************************************************************************)

\* _write_state_baseline: the value just written becomes the baseline.
WriteBaseline(d, method) ==
  InsertReceipt(d, "baseline",
    BaselineOp(d, method, IF d.receipt.kind = "none" THEN d.at
                          ELSE Later(d.at, d.receipt.op.rev + 1)))

\* set_progress, set_setting, ensure_profile, save_slot of the repository.
DirectSet(d, val, now) ==
  WriteBaseline([d EXCEPT !.state = "valid", !.value = val, !.at = now], "set")

\* merge_progress of the repository.
DirectMerge(d, val, now) ==
  WriteBaseline(
    [d EXCEPT !.state = "valid", !.at = now,
              !.value = IF Readable(d) THEN d.value \cup val ELSE val],
    "merge")

\* _invalidate_state_receipts
Invalidate(d) == [d EXCEPT !.receipt = NoReceipt, !.merged = {}]

DeleteRow(d) == [d EXCEPT !.state = "absent", !.value = {}, !.at = 0]

\* get_progress, get_setting: an unreadable row is archived and deleted.
DropUnreadable(d) ==
  IF d.state = "unreadable" THEN DeleteRow(Invalidate(d)) ELSE d

\* get_state_receipt: repairs the receipt a status query finds wrong.
RepairReceipt(d) ==
  IF d.receipt.kind = "none" THEN d
  ELSE IF ~Readable(d) THEN Invalidate(d)
  ELSE [d EXCEPT !.receipt.value = d.value]

\* The largest revision of a receipt or a barrier (state_high_water).
HighWater(d) == Later(d.receipt.op.rev, d.barrier.rev)

\* A slip: the row and its receipts go, and nothing says so.
DeleteSlot(d, now) == DeleteRow(Invalidate(d))

\* quarantine_slot, when the row still is what the caller loaded: the raw row
\* is archived, the row and its receipts deleted, a delete barrier written.
QuarantineSlot(d, now) ==
  [DeleteRow(Invalidate(d)) EXCEPT
    !.barrier = [kind |-> "slot_delete", rev |-> Later(now, HighWater(d) + 1),
                 ids |-> {}, at |-> now]]

=============================================================================
