-------------------------- MODULE StateStoreFaults --------------------------
(***************************************************************************)
(* The same key when journaled writes are not all there is: rows that are  *)
(* lost or garbled, reads that archive what they cannot parse, status      *)
(* queries that repair receipts, direct writes of the repository, and the  *)
(* deletion of a save slot a game found unusable.                          *)
(***************************************************************************)
EXTENDS StateStore

CONSTANTS
  MaxTime,    \* bound on the wall clock, which is not stepped backwards here
  Directs,    \* values written through the repository's direct interface
  Damages,    \* what can happen to a row: subset of {"lost", "garbled"}
  MaxDamage   \* bound on the number of such accidents

VARIABLES
  clock,      \* the wall clock
  loaded,     \* the slot value a game has loaded and found unusable (0 or 1)
  damage,     \* accidents so far
  last,       \* the operation the last step applied, and what it was answered
  base        \* history: the value the accepted operations began from, and
              \* the time of the direct replacement it goes back to, or Never

Never == -1

faultVars == <<rows, accepted, clock, loaded, damage, last, base>>

Replies == [op : Ops \cup {NoOp}, answer : {"none", "duplicate", "superseded", "committed",
                                           "merged_stale", "refused"}]

FaultTypeOK ==
  /\ TypeOK
  /\ clock \in 0..MaxTime
  /\ loaded \in SUBSET (SUBSET Levels)
  /\ damage \in 0..MaxDamage
  /\ last \in Replies
  /\ base \in [at : Never..MaxTime, val : SUBSET Levels]

NoCall == [op |-> NoOp, answer |-> "none"]

FaultInit ==
  /\ Init
  /\ clock = 1 /\ loaded = {} /\ damage = 0 /\ last = NoCall
  /\ base = [at |-> Never, val |-> {}]

Tick ==
  /\ clock < MaxTime
  /\ clock' = clock + 1
  /\ last' = NoCall
  /\ UNCHANGED <<rows, accepted, loaded, damage, base>>

\* Users act and revisions are allocated before an operation is applied.
ApplyOperation(op) ==
  /\ Later(op.at, op.rev) <= clock
  /\ Deliver(op)
  /\ last' = [op |-> op, answer |-> Apply(rows, op).answer]
  /\ UNCHANGED <<clock, loaded, damage, base>>

\* A reset has been accepted since the last direct write.
ResetSince == \E s \in accepted : s.method = "set"

\* A direct write stamps the row with the time it happens.  The history of
\* accepted operations begins anew with it.
DirectWrite(val) ==
  /\ clock < MaxTime
  /\ clock' = clock + 1
  /\ \/ /\ rows' = DirectSet(rows, val, clock')
        /\ base' = [at |-> clock', val |-> val]
     \/ /\ Kind = "progress"
        /\ rows' = DirectMerge(rows, val, clock')
        /\ base' = [at |-> IF ResetSince THEN Never ELSE base.at, val |-> rows'.value]
  /\ accepted' = {}
  /\ last' = NoCall
  /\ UNCHANGED <<loaded, damage>>

\* A row deleted or damaged on disk.
Damage(kind) ==
  /\ kind \in Damages /\ damage < MaxDamage /\ Readable(rows)
  /\ CASE kind = "lost"    -> rows' = DeleteRow(rows)
       [] kind = "garbled" -> rows' = [rows EXCEPT !.state = "unreadable", !.value = {}]
  /\ damage' = damage + 1
  /\ last' = NoCall
  /\ UNCHANGED <<accepted, clock, loaded, base>>

\* get_progress, get_setting, load_slot on a row that does not parse.
ReadUnreadable ==
  /\ rows.state = "unreadable"
  /\ rows' = IF Kind = "slot" THEN QuarantineSlot(rows, clock) ELSE DropUnreadable(rows)
  /\ last' = NoCall
  /\ UNCHANGED <<accepted, clock, loaded, damage, base>>

\* get_state_receipt
QueryReceipt ==
  /\ rows' = RepairReceipt(rows)
  /\ last' = NoCall
  /\ UNCHANGED <<accepted, clock, loaded, damage, base>>

\* load_slot answers a game, which then finds the state unusable.
LoadSlot ==
  /\ Kind = "slot" /\ Readable(rows)
  /\ loaded' = {rows.value}
  /\ last' = NoCall
  /\ UNCHANGED <<rows, accepted, clock, damage, base>>

\* quarantine_slot with the value hash that was loaded: CHANGED when the row
\* has another value by now, ABSENT when it is gone.
Quarantine ==
  /\ loaded # {}
  /\ rows' = IF Readable(rows) /\ rows.value \in loaded
             THEN QuarantineSlot(rows, clock) ELSE rows
  /\ loaded' = {}
  /\ last' = NoCall
  /\ UNCHANGED <<accepted, clock, damage, base>>

FaultNext ==
  \/ Tick
  \/ \E op \in Ops : ApplyOperation(op)
  \/ \E val \in Directs : DirectWrite(val)
  \/ \E kind \in {"lost", "garbled"} : Damage(kind)
  \/ ReadUnreadable
  \/ Quarantine
  \/ QueryReceipt
  \/ LoadSlot

FaultSpec == FaultInit /\ [][FaultNext]_faultVars

-----------------------------------------------------------------------------
\* An operation answered as a duplicate has its effect in the row, unless the
\* row was written directly since: receipts that outlive the row they speak of
\* never pass for the row (the authoritative-row checks of
\* apply_state_operation, get_state_receipt and get_progress).
DuplicateIsPresent ==
  [][\A op \in accepted :
       last' = [op |-> op, answer |-> "duplicate"]
         => Readable(rows') /\ op.val \subseteq rows'.value]_faultVars

\* While no accident befalls it and it is not deleted, the row is what was written
\* directly (by an import, a migration, an HTTP client) joined with the merges
\* accepted since, or the last reset accepted since joined with the merges after
\* it; and what a user did before a direct replacement counts only behind such
\* a reset.  Later receipts replace the baseline's, but not what it rules out
\* (_write_state_baseline; the barrier, the ordering after a baseline and the
\* stale-merge path of apply_state_operation).
RowFollowsBaseline ==
  damage = 0 /\ rows.barrier.kind # "slot_delete" =>
    /\ rows.value = (UNION {op.val : op \in InForce})
                    \cup (IF ResetSince THEN {} ELSE base.val)
    /\ \A op \in accepted :
         \/ op.at > base.at
         \/ \E s \in accepted : s.method = "set" /\ Before(s, op)

\* After the last write the receipt of a readable row names its value, unless
\* the row was tampered with since (the receipt updates of every write path).
ReceiptDescribesRow ==
  damage = 0 /\ rows.receipt.kind # "none"
    => Readable(rows) /\ rows.receipt.value = rows.value

\* A slot that was deleted as unusable is not brought back by an operation
\* older than the deletion, whatever is replayed (the slot_delete barrier of
\* quarantine_slot).
NoResurrection ==
  /\ rows.barrier.kind = "slot_delete"
  /\ Readable(rows)
  /\ rows.receipt.kind = "operation"
  => ~Before(rows.receipt.op, rows.barrier)

\* Deleting a slot and its receipts never lowers the revision from which a
\* lost clock is restored (quarantine_slot, state_high_water).
HighWaterKept ==
  [][damage = 0 => HighWater(rows') >= HighWater(rows)]_faultVars

-----------------------------------------------------------------------------
(***************************************************************************)
(* Why it holds.                                                           *)
(***************************************************************************)
\* The bounds are numbers, and direct writes write values of the key.
FaultBounds ==
  MaxTime \in Nat \ {0} /\ MaxDamage \in Nat /\ Directs \subseteq SUBSET Levels

\* An operation's revision is never below the time it was made at:
\* _new_state_operation takes the larger of the clock and the last revision
\* plus one, and publication only raises it.
RevisionsFollowTime == \A op \in Ops : op.at <= op.rev

\* A receipt names the value of a row that can be read, an operation receipt
\* is that of an operation whose effect is in it, and without a receipt there
\* are no component receipts.
ReceiptIsSound ==
  /\ rows.receipt.kind = "none" => rows.receipt = NoReceipt /\ rows.merged = {}
  /\ rows.receipt.kind # "none" /\ Readable(rows) => rows.receipt.value = rows.value
  /\ rows.receipt.kind = "operation" =>
       /\ rows.receipt.op \in Ops
       /\ Readable(rows) => rows.receipt.op.val \subseteq rows.value

\* What a component receipt says was merged since the last direct write is in
\* the row.
ComponentsArePresent ==
  /\ Kind # "progress" => rows.merged = {}
  /\ \A op \in accepted : Readable(rows) /\ op.ids \subseteq rows.merged
                            => op.val \subseteq rows.value

\* Nothing is stamped with a time or a revision still to come; a baseline has
\* the revision of its time.
TimesAreReached ==
  /\ rows.at <= clock
  /\ rows.receipt.op.rev <= clock
  /\ Kind = "progress" => rows.barrier.rev <= clock
  /\ rows.receipt.kind = "baseline" => rows.receipt.op.rev <= rows.receipt.op.at
  /\ rows.barrier.kind = "none" => rows.barrier.rev = 0
  /\ rows.barrier.kind = "progress_baseline" => rows.barrier.rev <= rows.barrier.at

\* Accidents alone make a row unreadable, or leave a receipt without a row.
AccidentsAreCounted ==
  damage = 0 => /\ rows.state # "unreadable"
                /\ rows.receipt.kind # "none" => Readable(rows)

\* Only a save slot is deleted as unusable.
OnlySlotsAreDeleted ==
  rows.barrier.kind = "slot_delete" \/ loaded # {} => Kind = "slot"

\* The barrier is the newest reset since the last direct write, or else the
\* direct replacement the value goes back to.
BarrierIsOfBase ==
  /\ ResetSince =>
       \E s \in accepted :
         /\ s.method = "set"
         /\ rows.barrier = [kind |-> "progress_reset", rev |-> s.rev,
                            ids |-> s.ids, at |-> s.at]
         /\ \A op \in accepted : op.method = "set" => op = s \/ Before(op, s)
  /\ ~ResetSince /\ base.at # Never =>
       rows.barrier.kind = "progress_baseline" /\ rows.barrier.at = base.at

\* What RowFollowsBaseline rests on: the receipt is a baseline until something
\* is accepted, and then the newest accepted operation's.
BaselineIndInv ==
  damage = 0 /\ Kind = "progress" =>
    /\ ReceiptIsNewest
    /\ accepted = {} => rows.receipt.kind # "operation"
    /\ ~Readable(rows) => rows.value = {}
    /\ BarrierIsOfBase

FaultIndInv ==
  /\ FaultTypeOK
  /\ ReceiptIsSound
  /\ ComponentsArePresent
  /\ TimesAreReached
  /\ AccidentsAreCounted
  /\ OnlySlotsAreDeleted
  /\ NoResurrection

=============================================================================
