--------------------------- MODULE StateSyncProofs ---------------------------
(***************************************************************************)
(* Proofs about StateSync, for any number of processes, writes, faults,    *)
(* deaths and clock readings.  Whatever the operations become on their way *)
(* (revised, merged, journaled, kept in a marker, held, replayed), each of *)
(* them is made from what users did; that is enough for the journal to     *)
(* move forward and for no conflict to arise.  Where the database refuses  *)
(* nothing and writes are all replacements or all merges, it is also       *)
(* enough for nothing to be lost.                                          *)
(***************************************************************************)
EXTENDS StateSync, SequenceTheorems, TLAPS

\* The methods operations can have.
Chosen == Methods \cup (IF Intents THEN {"set"} ELSE {})

\* What users did: the operation of each id whose revision is decided.
Origins == UNION {[S -> Operation] : S \in SUBSET Nat}

\* An operation made from them: the very operation of one id, or an aggregate
\* whose revision and time are the latest of its components.
MadeFrom(x, raw) ==
  /\ x \in Operation /\ x.method \in Chosen
  /\ x.ids # {} /\ x.ids \subseteq DOMAIN raw /\ x.val = x.ids
  /\ \A i \in x.ids : raw[i].rev <= x.rev /\ raw[i].at <= x.at
  /\ \E i \in x.ids : raw[i].rev = x.rev
  /\ \E i \in x.ids : raw[i].at = x.at
  /\ \A i \in x.ids : x.ids = {i} => x.method = raw[i].method
  /\ x.method = "set" => \E i \in x.ids : x.ids = {i}

MaybeFrom(x, raw) == x = NoOp \/ MadeFrom(x, raw)

-----------------------------------------------------------------------------
(***************************************************************************)
(* Operations.                                                             *)
(***************************************************************************)
LEMMA NoOperation == NoOp \notin Operation
  BY DEF NoOp, Operation

\* An operation is not before itself.
LEMMA BeforeIsStrict ==
  ASSUME NEW x \in Operation
  PROVE  ~Before(x, x)
  BY DEF Before, IdBefore, Operation

\* An aggregate that contains another operation is not older; with the same
\* components it is the same.
LEMMA MadeCompare ==
  ASSUME NEW raw \in Origins, NEW x, NEW y, MadeFrom(x, raw), MadeFrom(y, raw)
  PROVE  /\ x.ids \subseteq y.ids => x.rev <= y.rev /\ x.at <= y.at
         /\ x.ids = y.ids => x = y
<1>1. x \in Operation /\ y \in Operation
  BY DEF MadeFrom
<1>2. x.rev \in Nat /\ y.rev \in Nat /\ x.at \in Nat /\ y.at \in Nat
  BY <1>1 DEF Operation
<1>3. x.ids \subseteq y.ids => x.rev <= y.rev /\ x.at <= y.at
  BY <1>2 DEF MadeFrom
<1>4. y.ids \subseteq x.ids => y.rev <= x.rev /\ y.at <= x.at
  BY <1>2 DEF MadeFrom
<1>5. ASSUME x.ids = y.ids
      PROVE  x = y
  <2>1. x.rev = y.rev /\ x.at = y.at
    BY <1>2, <1>3, <1>4, <1>5
  <2>2. x.val = y.val
    BY <1>5 DEF MadeFrom
  <2>3. x.method = y.method
    <3>1. CASE \E i \in x.ids : x.ids = {i}
      BY <1>5, <3>1 DEF MadeFrom
    <3>2. CASE ~\E i \in x.ids : x.ids = {i}
      <4>1. x.method # "set" /\ y.method # "set"
        BY <1>5, <3>2 DEF MadeFrom
      <4> QED
        BY <1>1, <4>1 DEF Operation
    <3> QED
      BY <3>1, <3>2
  <2> QED
    BY <1>1, <1>5, <2>1, <2>2, <2>3 DEF Operation
<1> QED
  BY <1>3, <1>5

\* An aggregate of two different operations is made from what users did, and
\* is not older than either.
LEMMA MergeMade ==
  ASSUME NEW raw \in Origins, NEW x, NEW y, MadeFrom(x, raw), MadeFrom(y, raw),
         x.ids # y.ids, "merge" \in Chosen
  PROVE  MadeFrom(MergeOps(x, y), raw)
<1> DEFINE z == MergeOps(x, y)
<1>1. x \in Operation /\ y \in Operation
  BY DEF MadeFrom
<1>2. x.rev \in Nat /\ y.rev \in Nat /\ x.at \in Nat /\ y.at \in Nat
  BY <1>1 DEF Operation
<1>3. /\ z.method = "merge" /\ z.rev = Later(x.rev, y.rev) /\ z.at = Later(x.at, y.at)
      /\ z.ids = x.ids \cup y.ids /\ z.val = x.val \cup y.val
  BY DEF MergeOps
<1>4. /\ x.rev <= z.rev /\ y.rev <= z.rev /\ x.at <= z.at /\ y.at <= z.at
      /\ z.rev \in {x.rev, y.rev} /\ z.at \in {x.at, y.at}
      /\ z.rev \in Nat /\ z.at \in Nat
  BY <1>2, <1>3 DEF Later
<1>5. z \in Operation
  BY <1>1, <1>4 DEF MergeOps, Operation
<1> HIDE DEF z
<1>6. ~\E i \in z.ids : z.ids = {i}
  <2>1. x.ids # {} /\ y.ids # {}
    BY DEF MadeFrom
  <2>2. ASSUME NEW i, z.ids = {i}
        PROVE  FALSE
    <3>1. x.ids = {i} /\ y.ids = {i}
      BY <1>3, <2>1, <2>2
    <3> QED
      BY <3>1
  <2> QED
    BY <2>2
<1>7. \A i \in DOMAIN raw : raw[i].rev \in Nat /\ raw[i].at \in Nat
  BY DEF Origins, Operation
<1>8. z.ids # {} /\ z.ids \subseteq DOMAIN raw /\ z.val = z.ids
  BY <1>3 DEF MadeFrom
<1>9. \A i \in z.ids : raw[i].rev <= z.rev /\ raw[i].at <= z.at
  <2>1. \A i \in x.ids : i \in DOMAIN raw /\ raw[i].rev <= x.rev /\ raw[i].at <= x.at
    BY DEF MadeFrom
  <2>2. \A i \in y.ids : i \in DOMAIN raw /\ raw[i].rev <= y.rev /\ raw[i].at <= y.at
    BY DEF MadeFrom
  <2> QED
    BY <1>2, <1>3, <1>4, <1>7, <2>1, <2>2
<1>10. (\E i \in z.ids : raw[i].rev = z.rev) /\ (\E i \in z.ids : raw[i].at = z.at)
  BY <1>3, <1>4 DEF MadeFrom
<1>11. MadeFrom(z, raw)
  BY <1>3, <1>5, <1>6, <1>8, <1>9, <1>10 DEF MadeFrom
<1> QED
  BY <1>11 DEF z

\* resolve_operations on two such operations: what it keeps is made from what
\* users did, is not older than what was there, and never a conflict.
LEMMA ResolveMade ==
  ASSUME NEW raw \in Origins, NEW e, NEW x, MadeFrom(e, raw), MadeFrom(x, raw)
  PROVE  /\ MadeFrom(Resolve(e, x).op, raw)
         /\ ~Before(Resolve(e, x).op, e)
         /\ Resolve(e, x).how # "conflict"
<1>1. e \in Operation /\ x \in Operation
  BY DEF MadeFrom
<1>2. e.rev \in Nat /\ x.rev \in Nat /\ e.method \in {"set", "merge"}
      /\ x.method \in {"set", "merge"}
  BY <1>1 DEF Operation
<1>3. ~Before(e, e)
  BY <1>1, BeforeIsStrict
<1>4. SameOrder(e, x) => e = x
  BY MadeCompare DEF SameOrder
<1>5. CASE Absorbed(e, x)
  BY <1>3, <1>5 DEF Resolve
<1>6. CASE ~Absorbed(e, x) /\ Absorbed(x, e)
  <2>1. e.ids \subseteq x.ids /\ e.rev <= x.rev
    BY <1>6, MadeCompare DEF Absorbed
  <2>2. ~Before(x, e)
    BY <1>2, <2>1 DEF Before, IdBefore
  <2>3. Resolve(e, x) = [op |-> x, how |-> "incoming"]
    BY <1>6 DEF Resolve
  <2> QED
    BY <2>2, <2>3
<1>7. CASE ~Absorbed(e, x) /\ ~Absorbed(x, e)
  <2>1. CASE SameOrder(e, x)
    <3>1. Resolve(e, x) = [op |-> e, how |-> "duplicate"]
      BY <1>4, <1>7, <2>1 DEF Resolve
    <3> QED
      BY <1>3, <3>1
  <2>2. CASE ~SameOrder(e, x) /\ Before(x, e) /\ "set" \in {e.method, x.method}
    <3>1. Resolve(e, x) = [op |-> e, how |-> "superseded"]
      BY <1>7, <2>2 DEF Resolve
    <3> QED
      BY <1>3, <3>1
  <2>3. CASE /\ ~SameOrder(e, x) /\ ~(Before(x, e) /\ "set" \in {e.method, x.method})
             /\ x.method = "set"
    <3>1. Resolve(e, x) = [op |-> x, how |-> "incoming"]
      BY <1>7, <2>3 DEF Resolve
    <3>2. ~Before(x, e)
      BY <2>3
    <3> QED
      BY <3>1, <3>2
  <2>4. CASE /\ ~SameOrder(e, x) /\ ~(Before(x, e) /\ "set" \in {e.method, x.method})
             /\ x.method # "set"
    <3>1. Resolve(e, x) = [op |-> MergeOps(e, x), how |-> "merged"]
      BY <1>7, <2>4 DEF Resolve
    <3>2. x.method = "merge" /\ "merge" \in Chosen
      BY <1>2, <2>4 DEF MadeFrom
    <3>3. e.ids # x.ids
      BY <1>7, <3>2 DEF Absorbed
    <3>4. MadeFrom(MergeOps(e, x), raw)
      BY <3>2, <3>3, MergeMade
    <3>5. /\ MergeOps(e, x).rev = Later(e.rev, x.rev)
          /\ MergeOps(e, x).ids = e.ids \cup x.ids
      BY DEF MergeOps
    <3>6. ~Before(MergeOps(e, x), e)
      BY <1>2, <3>5 DEF Before, IdBefore, Later
    <3> QED
      BY <3>1, <3>4, <3>6
  <2> QED
    BY <2>1, <2>2, <2>3, <2>4
<1> QED
  BY <1>5, <1>6, <1>7

\* What is made from some operations is made from more of them.
LEMMA MadeGrows ==
  ASSUME NEW raw \in Origins, NEW more \in Origins, DOMAIN raw \subseteq DOMAIN more,
         \A i \in DOMAIN raw : more[i] = raw[i],
         NEW x
  PROVE  /\ MadeFrom(x, raw) => MadeFrom(x, more)
         /\ MaybeFrom(x, raw) => MaybeFrom(x, more)
<1>1. ASSUME MadeFrom(x, raw)
      PROVE  MadeFrom(x, more)
  <2>1. \A i \in x.ids : i \in DOMAIN raw /\ more[i] = raw[i]
    BY <1>1 DEF MadeFrom
  <2> QED
    BY <1>1, <2>1 DEF MadeFrom
<1> QED
  BY <1>1 DEF MaybeFrom

\* An operation of one new id is made from itself.
LEMMA NewMade ==
  ASSUME NEW raw \in Origins, NEW n \in Nat, n \notin DOMAIN raw,
         NEW x \in Operation, x.ids = {n}, x.val = {n}, x.method \in Chosen
  PROVE  LET more == [i \in DOMAIN raw \cup {n} |-> IF i = n THEN x ELSE raw[i]] IN
         /\ more \in Origins
         /\ DOMAIN more = DOMAIN raw \cup {n}
         /\ \A i \in DOMAIN raw : more[i] = raw[i]
         /\ MadeFrom(x, more)
<1> DEFINE more == [i \in DOMAIN raw \cup {n} |-> IF i = n THEN x ELSE raw[i]]
<1>1. PICK S \in SUBSET Nat : raw \in [S -> Operation]
  BY DEF Origins
<1>2. DOMAIN raw = S
  BY <1>1
<1>3. more \in [S \cup {n} -> Operation]
  BY <1>1, <1>2
<1>4. S \cup {n} \in SUBSET Nat
  OBVIOUS
<1>5. more \in Origins
  BY <1>3, <1>4 DEF Origins
<1>6. more[n] = x /\ DOMAIN more = DOMAIN raw \cup {n}
  OBVIOUS
<1>7. \A i \in DOMAIN raw : more[i] = raw[i]
  OBVIOUS
<1> HIDE DEF more
<1>8. x.rev \in Nat /\ x.at \in Nat
  BY DEF Operation
<1>9. MadeFrom(x, more)
  BY <1>6, <1>8 DEF MadeFrom
<1> QED
  BY <1>5, <1>6, <1>7, <1>9 DEF more
-----------------------------------------------------------------------------
(***************************************************************************)
(* The rows of the key.  No accident befalls them here, so they are empty  *)
(* or what an operation left, with its receipt.                            *)
(***************************************************************************)
RowsSound(d) ==
  /\ d \in Rows
  /\ \/ d = EmptyRows
     \/ d.state = "valid" /\ d.receipt.kind = "operation" /\ d.receipt.value = d.value

\* What apply_state_operation amounts to on such rows: nothing is repaired.
LEMMA ApplyIs ==
  ASSUME NEW d, RowsSound(d), NEW op \in Operation, op.ids # {}
  PROVE  Apply(d, op) =
           IF AlreadyIn(d, op) THEN [rows |-> d, answer |-> "duplicate"]
           ELSE IF BarrierSupersedes(op, d.barrier)
           THEN [rows |-> d, answer |-> "superseded"]
           ELSE IF Ordering(d, op) \in {"conflict", "duplicate", "superseded"}
           THEN [rows |-> d, answer |-> Ordering(d, op)]
           ELSE IF op.ids \cap Refused # {} THEN [rows |-> d, answer |-> "refused"]
           ELSE [rows |-> Commit(d, op, Ordering(d, op)), answer |-> Ordering(d, op)]
<1>1. ForgetOrphans(d, op) = d
  <2>1. CASE d = EmptyRows
    <3>1. ~(op.ids \subseteq d.merged) /\ d.merged \ op.ids = d.merged
      BY <2>1 DEF EmptyRows
    <3> QED
      BY <2>1, <3>1 DEF ForgetOrphans, EmptyRows, Readable
  <2>2. CASE d.state = "valid"
    BY <2>2 DEF ForgetOrphans, Readable
  <2> QED
    BY <2>1, <2>2 DEF RowsSound
<1>2. Repair(d, op) = d
  BY DEF RowsSound, Repair, Readable, EmptyRows, NoReceipt
<1> QED
  BY <1>1, <1>2 DEF Apply

\* How an operation is ordered against them.
LEMMA OrderingIs ==
  ASSUME NEW d, RowsSound(d), NEW op
  PROVE  /\ d = EmptyRows => Ordering(d, op) = "committed"
         /\ d # EmptyRows =>
              Ordering(d, op) =
                IF SameOrder(op, d.receipt.op)
                THEN IF op = d.receipt.op THEN "duplicate" ELSE "conflict"
                ELSE IF ~Before(op, d.receipt.op) THEN "committed"
                ELSE IF op.method = "merge" /\ d.receipt.op.method = "merge"
                THEN "merged_stale" ELSE "superseded"
<1>1. d = EmptyRows => d.receipt.kind = "none"
  BY DEF EmptyRows, NoReceipt
<1>2. d # EmptyRows => d.receipt.kind = "operation"
  BY DEF RowsSound
<1> QED
  BY <1>1, <1>2 DEF Ordering

\* The rows a commit leaves.
LEMMA CommitLeaves ==
  ASSUME NEW d \in Rows, d.state # "unreadable", NEW op \in Operation
  PROVE  LET new == Commit(d, op, "committed") IN
         /\ RowsSound(new)
         /\ new # EmptyRows
         /\ new.state = "valid"
         /\ new.value = IF op.method = "merge" /\ Readable(d) THEN d.value \cup op.val
                        ELSE op.val
         /\ new.receipt.op = op
         /\ new.barrier = IF Kind = "progress" /\ op.method = "set"
                          THEN [kind |-> "progress_reset", rev |-> op.rev,
                                ids |-> op.ids, at |-> op.at]
                          ELSE d.barrier
         /\ new.merged = IF op.method = "merge" THEN d.merged \cup op.ids
                         ELSE IF Kind = "progress" THEN {} ELSE d.merged
<1> DEFINE new == Commit(d, op, "committed")
<1> DEFINE written == WriteRow(d, op)
<1>1. /\ written = [d EXCEPT !.state = "valid", !.value = written.value, !.at = written.at]
      /\ written.value = IF op.method = "merge" /\ Readable(d) THEN d.value \cup op.val
                         ELSE op.val
      /\ written.at \in {d.at, op.at}
  BY DEF WriteRow, Rows, Later
<1>2. written \in Rows
  BY <1>1 DEF Rows, Operation
<1>3. /\ written.state = "valid" /\ written.barrier = d.barrier
      /\ written.merged = d.merged
  BY <1>1 DEF Rows
<1> HIDE DEF written
<1> DEFINE stamped == InsertReceipt(written, "operation", op)
<1>4. /\ stamped = [written EXCEPT !.receipt = stamped.receipt, !.barrier = stamped.barrier]
      /\ stamped.receipt = [kind |-> "operation", op |-> op, value |-> written.value]
      /\ stamped.barrier = IF Kind = "progress" /\ op.method = "set"
                           THEN [kind |-> "progress_reset", rev |-> op.rev,
                                 ids |-> op.ids, at |-> op.at]
                           ELSE d.barrier
  BY <1>2, <1>3 DEF InsertReceipt, Rows
<1>5. stamped.receipt \in Receipts /\ stamped.barrier \in Barriers
  BY <1>2, <1>4 DEF Receipts, Barriers, Operation, Rows
<1>6. stamped \in Rows
  BY <1>2, <1>4, <1>5 DEF Rows
<1>7. new = [stamped EXCEPT !.merged =
               IF op.method = "merge" THEN stamped.merged \cup op.ids
               ELSE IF Kind = "progress" THEN {} ELSE stamped.merged]
  BY DEF Commit, written
<1> HIDE DEF stamped, new
<1>8. /\ stamped.merged = d.merged /\ stamped.state = "valid"
      /\ stamped.value = written.value
  BY <1>2, <1>3, <1>4 DEF Rows
<1>9. new \in Rows
  BY <1>6, <1>7 DEF Rows, Operation
<1>10. /\ new.state = "valid" /\ new.value = written.value
       /\ new.receipt = stamped.receipt /\ new.barrier = stamped.barrier
       /\ new.merged = IF op.method = "merge" THEN d.merged \cup op.ids
                       ELSE IF Kind = "progress" THEN {} ELSE d.merged
  BY <1>6, <1>7, <1>8 DEF Rows
<1>11. new.receipt.kind = "operation" /\ new.receipt.value = new.value /\ new.receipt.op = op
  BY <1>4, <1>10
<1>12. new # EmptyRows /\ RowsSound(new)
  BY <1>9, <1>10, <1>11 DEF EmptyRows, RowsSound
<1> QED
  BY <1>1, <1>4, <1>10, <1>11, <1>12 DEF new

\* Folding an older merge into them.
LEMMA StaleLeaves ==
  ASSUME NEW d, RowsSound(d), d # EmptyRows, NEW op \in Operation, op.method = "merge"
  PROVE  LET new == Commit(d, op, "merged_stale") IN
         /\ RowsSound(new)
         /\ new # EmptyRows
         /\ new.state = "valid"
         /\ new.value = d.value \cup op.val
         /\ new.receipt.op = d.receipt.op
         /\ new.barrier = d.barrier
         /\ new.merged = d.merged \cup op.ids
<1> DEFINE written == WriteRow(d, op)
<1> DEFINE new == Commit(d, op, "merged_stale")
<1>1. d \in Rows /\ d.state = "valid" /\ d.receipt.kind = "operation"
  BY DEF RowsSound
<1>2. /\ written = [d EXCEPT !.state = "valid", !.value = d.value \cup op.val,
                             !.at = written.at]
      /\ written.at \in {d.at, op.at}
  BY <1>1 DEF WriteRow, Rows, Later, Readable
<1> HIDE DEF written
<1>3. new = [[written EXCEPT !.receipt.value = written.value]
               EXCEPT !.merged = written.merged \cup op.ids]
  BY <1>1, <1>2 DEF Commit, written, Rows
<1> HIDE DEF new
<1>4. /\ new.state = "valid"
      /\ new.value = d.value \cup op.val
      /\ new.receipt = [d.receipt EXCEPT !.value = new.value]
      /\ new.barrier = d.barrier
      /\ new.merged = d.merged \cup op.ids
      /\ new.at = written.at
      /\ new \in [state : {"valid"}, value : {new.value}, at : {new.at},
                  receipt : {new.receipt}, merged : {new.merged}, barrier : {new.barrier}]
  BY <1>1, <1>2, <1>3 DEF Rows
<1>5. d.receipt \in Receipts /\ new.value \in SUBSET Levels
  BY <1>1, <1>4 DEF Rows, Operation
<1>6. /\ new.receipt \in Receipts /\ new.receipt.kind = "operation"
      /\ new.receipt.op = d.receipt.op /\ new.receipt.value = new.value
  BY <1>1, <1>4, <1>5 DEF Receipts
<1>7. new.at \in Nat /\ new.barrier \in Barriers /\ new.merged \in SUBSET Ids
  BY <1>1, <1>2, <1>4 DEF Rows, Operation
<1>8. new \in Rows
  BY <1>4, <1>5, <1>6, <1>7 DEF Rows
<1>9. RowsSound(new) /\ new # EmptyRows
  BY <1>4, <1>6, <1>8 DEF RowsSound, EmptyRows
<1> QED
  BY <1>4, <1>6, <1>9 DEF new

\* Rows whose receipt speaks of what users did.
RowsMade(d, raw) ==
  RowsSound(d) /\ (d # EmptyRows => MadeFrom(d.receipt.op, raw))

\* Applying another operation made from what users did leaves such rows, and
\* its id is not met with another payload.
LEMMA ApplyMade ==
  ASSUME NEW raw \in Origins, NEW d, RowsMade(d, raw), NEW op, MadeFrom(op, raw)
  PROVE  /\ RowsMade(Apply(d, op).rows, raw)
         /\ Apply(d, op).answer # "conflict"
<1>1. RowsSound(d) /\ op \in Operation /\ op.ids # {} /\ d \in Rows
  BY DEF RowsMade, RowsSound, MadeFrom
<1>2. d.state # "unreadable"
  BY <1>1 DEF RowsSound, EmptyRows
<1> DEFINE answer == Ordering(d, op)
<1>3. d # EmptyRows /\ SameOrder(op, d.receipt.op) => op = d.receipt.op
  BY MadeCompare DEF RowsMade, SameOrder
<1>4. /\ answer \in {"committed", "duplicate", "merged_stale", "superseded"}
      /\ answer = "merged_stale" => d # EmptyRows /\ op.method = "merge"
  BY <1>1, <1>3, OrderingIs
<1>5. RowsMade(Commit(d, op, "committed"), raw)
  BY <1>1, <1>2, CommitLeaves DEF RowsMade
<1>6. answer = "merged_stale" => RowsMade(Commit(d, op, "merged_stale"), raw)
  BY <1>1, <1>4, StaleLeaves DEF RowsMade
<1>7. Apply(d, op) =
           IF AlreadyIn(d, op) THEN [rows |-> d, answer |-> "duplicate"]
           ELSE IF BarrierSupersedes(op, d.barrier)
           THEN [rows |-> d, answer |-> "superseded"]
           ELSE IF answer \in {"conflict", "duplicate", "superseded"}
           THEN [rows |-> d, answer |-> answer]
           ELSE IF op.ids \cap Refused # {} THEN [rows |-> d, answer |-> "refused"]
           ELSE [rows |-> Commit(d, op, answer), answer |-> answer]
  BY <1>1, ApplyIs
<1> HIDE DEF answer
<1>8. \/ Apply(d, op).rows = d
      \/ answer = "committed" /\ Apply(d, op).rows = Commit(d, op, "committed")
      \/ answer = "merged_stale" /\ Apply(d, op).rows = Commit(d, op, "merged_stale")
  BY <1>4, <1>7
<1>9. Apply(d, op).answer # "conflict"
  BY <1>4, <1>7
<1> QED
  BY <1>5, <1>6, <1>8, <1>9

-----------------------------------------------------------------------------
(***************************************************************************)
(* Every operation anywhere is made from what users did.                   *)
(***************************************************************************)
Entries == [op : Operation, fresh : BOOLEAN]
Tasks == [step : Steps, op : Operation \cup {NoOp}, prev : Operation \cup {NoOp},
          journaled : BOOLEAN, replay : BOOLEAN]
Markers == [phase : {"prepared", "rejected"}, inc : Operation,
            prev : Operation \cup {NoOp}]

\* One of the first n operations, whose revision is not decided yet.
FreshFrom(x, n, raw) ==
  /\ x \in Operation /\ x.method \in Chosen
  /\ \E i \in 1..n : i \notin DOMAIN raw /\ x.ids = {i} /\ x.val = {i}

MarkersMade(ms, raw) ==
  \A m \in ms : m \in Markers /\ MadeFrom(m.inc, raw) /\ MaybeFrom(m.prev, raw)

QueuesMade(qs, n, raw) ==
  /\ qs \in [Procs -> Seq(Entries)]
  /\ \A p \in Procs : \A k \in 1..Len(qs[p]) :
       /\ qs[p][k].fresh => FreshFrom(qs[p][k].op, n, raw)
       /\ ~qs[p][k].fresh => MadeFrom(qs[p][k].op, raw)
  /\ \A p, q \in Procs : \A k \in 1..Len(qs[p]), l \in 1..Len(qs[q]) :
       /\ qs[p][k].fresh /\ qs[q][l].fresh
       /\ qs[p][k].op.ids = qs[q][l].op.ids
       => p = q /\ k = l

TaskFits(t, raw) ==
  /\ t \in Tasks /\ MaybeFrom(t.op, raw) /\ MaybeFrom(t.prev, raw)
  /\ t.step \in {"idle", "down"} \/ t.op # NoOp

TasksMade(ts, raw) ==
  ts \in [Procs -> Tasks] /\ \A p \in Procs : TaskFits(ts[p], raw)

HeldMade(h, raw) ==
  h \in [Procs -> Operation \cup {NoOp}] /\ \A p \in Procs : MaybeFrom(h[p], raw)

AllFrom(ops, raw) == \A x \in ops : MadeFrom(x, raw)

AllMade(raw) ==
  /\ DOMAIN raw \subseteq 1..count
  /\ MaybeFrom(journal, raw)
  /\ MarkersMade(markers, raw)
  /\ RowsMade(db, raw)
  /\ QueuesMade(queue, count, raw)
  /\ TasksMade(task, raw)
  /\ HeldMade(held, raw)
  /\ AllFrom(published, raw)

NumbersTyped ==
  /\ clock \in Nat /\ lastRev \in [Procs -> Nat]
  /\ count \in 0..MaxOps /\ faults \in 0..MaxFaults /\ crashes \in 0..MaxCrashes
  /\ promised \in [Procs -> SUBSET Operation]

\* The inductive invariant.
SyncInv == NumbersTyped /\ \E raw \in Origins : AllMade(raw)

-----------------------------------------------------------------------------
LEMMA LaterNat ==
  ASSUME NEW a \in Nat, NEW b \in Nat
  PROVE  Later(a, b) \in Nat /\ a <= Later(a, b) /\ b <= Later(a, b)
  BY DEF Later

LEMMA NextNat ==
  ASSUME NEW observed \in Nat, NEW now \in Nat, clock \in Nat
  PROVE  NextRevision(observed, now) \in Nat
<1>1. PICK n \in Nat : n = Later(clock, observed)
  BY LaterNat
<1>2. Later(n + 1, now) \in Nat
  BY LaterNat
<1> QED
  BY <1>1, <1>2 DEF NextRevision

LEMMA MaybeTyped ==
  ASSUME NEW raw, NEW x, MaybeFrom(x, raw)
  PROVE  /\ x \in Operation \cup {NoOp} /\ x.rev \in Nat
         /\ x # NoOp => MadeFrom(x, raw) /\ x \in Operation
  BY DEF MaybeFrom, MadeFrom, Operation, NoOp

LEMMA TaskPut ==
  ASSUME NEW raw, NEW ts, TasksMade(ts, raw), NEW p \in Procs, NEW t, TaskFits(t, raw)
  PROVE  /\ TasksMade([ts EXCEPT ![p] = t], raw)
         /\ [ts EXCEPT ![p] = t][p] = t
  BY DEF TasksMade, TaskFits

LEMMA TaskGoes ==
  ASSUME NEW raw, NEW ts, TasksMade(ts, raw), NEW p \in Procs, NEW step \in Steps,
         ts[p].step \notin {"idle", "down"}
  PROVE  TasksMade([ts EXCEPT ![p].step = step], raw)
<1> DEFINE t == [ts[p] EXCEPT !.step = step]
<1>1. ts[p] \in Tasks /\ TaskFits(ts[p], raw)
  BY DEF TasksMade
<1>2. t \in Tasks /\ t.op = ts[p].op /\ t.prev = ts[p].prev
  BY <1>1 DEF Tasks
<1>3. TaskFits(t, raw)
  BY <1>1, <1>2 DEF TaskFits
<1>4. [ts EXCEPT ![p].step = step] = [ts EXCEPT ![p] = t]
  BY DEF TasksMade
<1> QED
  BY <1>3, <1>4, TaskPut

LEMMA IdleFits ==
  ASSUME NEW raw
  PROVE  TaskFits(Idle, raw) /\ TaskFits([Idle EXCEPT !.step = "down"], raw)
  BY DEF TaskFits, Idle, Tasks, Steps, MaybeFrom

\* Changing one field of a task.
LEMMA StepPut ==
  ASSUME NEW t \in Tasks, NEW step \in Steps
  PROVE  LET u == [t EXCEPT !.step = step] IN
         u \in Tasks /\ u.step = step /\ u.op = t.op /\ u.prev = t.prev
  BY DEF Tasks

LEMMA OpPut ==
  ASSUME NEW t \in Tasks, NEW x \in Operation \cup {NoOp}
  PROVE  LET u == [t EXCEPT !.op = x] IN
         u \in Tasks /\ u.step = t.step /\ u.op = x /\ u.prev = t.prev
  BY DEF Tasks

LEMMA PrevPut ==
  ASSUME NEW t \in Tasks, NEW x \in Operation \cup {NoOp}
  PROVE  LET u == [t EXCEPT !.prev = x] IN
         u \in Tasks /\ u.step = t.step /\ u.op = t.op /\ u.prev = x
  BY DEF Tasks

LEMMA JournaledPut ==
  ASSUME NEW t \in Tasks
  PROVE  LET u == [t EXCEPT !.journaled = TRUE] IN
         u \in Tasks /\ u.step = t.step /\ u.op = t.op /\ u.prev = t.prev
  BY DEF Tasks

LEMMA ReplayPut ==
  ASSUME NEW t \in Tasks
  PROVE  LET u == [t EXCEPT !.replay = TRUE] IN
         u \in Tasks /\ u.step = t.step /\ u.op = t.op /\ u.prev = t.prev
  BY DEF Tasks

\* A task that starts with an operation.
LEMMA StartFits ==
  ASSUME NEW raw, NEW x, MadeFrom(x, raw)
  PROVE  /\ TaskFits([Idle EXCEPT !.step = "put", !.op = x], raw)
         /\ TaskFits([Idle EXCEPT !.step = "apply", !.op = x,
                                  !.journaled = TRUE, !.replay = TRUE], raw)
<1>1. x \in Operation /\ x # NoOp
  BY NoOperation DEF MadeFrom
<1>2. Idle \in Tasks /\ Idle.prev = NoOp
  BY DEF Idle, Tasks, Steps
<1>3. "put" \in Steps /\ "apply" \in Steps
  BY DEF Steps
<1> DEFINE a == [Idle EXCEPT !.step = "put"]
<1> DEFINE b == [a EXCEPT !.op = x]
<1>4. a \in Tasks /\ a.prev = NoOp /\ a.step = "put"
  BY <1>2, <1>3, StepPut
<1> HIDE DEF a
<1>5. b \in Tasks /\ b.prev = NoOp /\ b.op = x
  BY <1>1, <1>4, OpPut
<1>6. b = [Idle EXCEPT !.step = "put", !.op = x]
  BY DEF a
<1> HIDE DEF b
<1> DEFINE c == [Idle EXCEPT !.step = "apply"]
<1> DEFINE d == [c EXCEPT !.op = x]
<1> DEFINE e == [d EXCEPT !.journaled = TRUE]
<1> DEFINE f == [e EXCEPT !.replay = TRUE]
<1>7. c \in Tasks /\ c.prev = NoOp
  BY <1>2, <1>3, StepPut
<1> HIDE DEF c
<1>8. d \in Tasks /\ d.prev = NoOp /\ d.op = x
  BY <1>1, <1>7, OpPut
<1> HIDE DEF d
<1>9. e \in Tasks /\ e.prev = NoOp /\ e.op = x
  BY <1>8, JournaledPut
<1> HIDE DEF e
<1>10. f \in Tasks /\ f.prev = NoOp /\ f.op = x
  BY <1>9, ReplayPut
<1>11. f = [Idle EXCEPT !.step = "apply", !.op = x, !.journaled = TRUE, !.replay = TRUE]
  BY DEF c, d, e
<1> HIDE DEF f
<1>12. TaskFits(b, raw) /\ TaskFits(f, raw)
  BY <1>1, <1>5, <1>10 DEF TaskFits, MaybeFrom
<1> QED
  BY <1>6, <1>11, <1>12

LEMMA HeldPut ==
  ASSUME NEW raw, NEW h, HeldMade(h, raw), NEW p \in Procs, NEW x, MaybeFrom(x, raw)
  PROVE  HeldMade([h EXCEPT ![p] = x], raw)
<1>1. x \in Operation \cup {NoOp}
  BY MaybeTyped
<1> QED
  BY <1>1 DEF HeldMade

LEMMA NothingHeld ==
  ASSUME NEW raw, NEW h, HeldMade(h, raw), NEW p \in Procs
  PROVE  HeldMade([h EXCEPT ![p] = NoOp], raw)
  BY HeldPut DEF MaybeFrom

\* The order in which the operations of other processes wait is untouched when
\* one takes its first.
LEMMA QueueTaken ==
  ASSUME NEW raw, NEW n \in Nat, NEW qs, QueuesMade(qs, n, raw), NEW p \in Procs,
         qs[p] # <<>>
  PROVE  /\ QueuesMade([qs EXCEPT ![p] = Tail(qs[p])], n, raw)
         /\ Head(qs[p]) \in Entries
         /\ Head(qs[p]).fresh => FreshFrom(Head(qs[p]).op, n, raw)
         /\ ~Head(qs[p]).fresh => MadeFrom(Head(qs[p]).op, raw)
         /\ Head(qs[p]).fresh =>
              \A q \in Procs : LET ws == [qs EXCEPT ![p] = Tail(qs[p])] IN
                \A k \in 1..Len(ws[q]) :
                  ws[q][k].fresh => ws[q][k].op.ids # Head(qs[p]).op.ids
<1> DEFINE t == Tail(qs[p])
<1> DEFINE ws == [qs EXCEPT ![p] = t]
<1>1. qs[p] \in Seq(Entries) /\ qs \in [Procs -> Seq(Entries)]
  BY DEF QueuesMade
<1>2. /\ t \in Seq(Entries) /\ Len(t) = Len(qs[p]) - 1 /\ Len(qs[p]) \in Nat
      /\ \A k \in 1..Len(t) : t[k] = qs[p][k + 1] /\ k + 1 \in 1..Len(qs[p])
      /\ Head(qs[p]) = qs[p][1] /\ 1 \in 1..Len(qs[p])
      /\ Head(qs[p]) \in Entries
  BY <1>1, EmptySeq
<1> HIDE DEF t
<1>3. ws \in [Procs -> Seq(Entries)] /\ ws[p] = t /\ \A q \in Procs : q # p => ws[q] = qs[q]
  BY <1>1, <1>2
<1> HIDE DEF ws
<1>4. ASSUME NEW q \in Procs, NEW k \in 1..Len(ws[q])
      PROVE  \E j \in 1..Len(qs[q]) :
               ws[q][k] = qs[q][j] /\ j = IF q = p THEN k + 1 ELSE k
  BY <1>2, <1>3, <1>4
<1>5. ASSUME NEW q \in Procs, NEW k \in 1..Len(ws[q])
      PROVE  /\ ws[q][k].fresh => FreshFrom(ws[q][k].op, n, raw)
             /\ ~ws[q][k].fresh => MadeFrom(ws[q][k].op, raw)
  <2>1. PICK j \in 1..Len(qs[q]) : ws[q][k] = qs[q][j]
    BY <1>4
  <2> QED
    BY <2>1 DEF QueuesMade
<1>6. ASSUME NEW q \in Procs, NEW r \in Procs,
             NEW k \in 1..Len(ws[q]), NEW l \in 1..Len(ws[r]),
             ws[q][k].fresh, ws[r][l].fresh, ws[q][k].op.ids = ws[r][l].op.ids
      PROVE  q = r /\ k = l
  <2>1. PICK j \in 1..Len(qs[q]) : ws[q][k] = qs[q][j] /\ j = IF q = p THEN k + 1 ELSE k
    BY <1>4
  <2>2. PICK i \in 1..Len(qs[r]) : ws[r][l] = qs[r][i] /\ i = IF r = p THEN l + 1 ELSE l
    BY <1>4
  <2>3. q = r /\ j = i
    BY <1>6, <2>1, <2>2 DEF QueuesMade
  <2>4. k \in Int /\ l \in Int
    BY <1>3
  <2> QED
    BY <2>1, <2>2, <2>3, <2>4
<1>7. QueuesMade(ws, n, raw)
  BY <1>3, <1>5, <1>6 DEF QueuesMade
<1>8. Head(qs[p]).fresh => FreshFrom(Head(qs[p]).op, n, raw)
  BY <1>2 DEF QueuesMade
<1>9. ~Head(qs[p]).fresh => MadeFrom(Head(qs[p]).op, raw)
  BY <1>2 DEF QueuesMade
<1>10. ASSUME Head(qs[p]).fresh, NEW q \in Procs, NEW k \in 1..Len(ws[q]), ws[q][k].fresh,
              ws[q][k].op.ids = Head(qs[p]).op.ids
       PROVE  FALSE
  <2>1. PICK j \in 1..Len(qs[q]) : ws[q][k] = qs[q][j] /\ j = IF q = p THEN k + 1 ELSE k
    BY <1>4
  <2>a. /\ qs[p][1].fresh /\ qs[q][j].fresh
        /\ qs[p][1].op.ids = qs[q][j].op.ids
    BY <1>2, <1>10, <2>1
  <2>2. q = p /\ j = 1
    BY <1>2, <2>a DEF QueuesMade
  <2>3. k \in 1..Len(t) /\ Len(t) \in Nat
    BY <1>2, <1>3, <2>2
  <2> QED
    BY <2>1, <2>2, <2>3
<1> QED
  BY <1>2, <1>7, <1>8, <1>9, <1>10 DEF ws, t

\* One more operation waits.
LEMMA QueueGrown ==
  ASSUME NEW raw, NEW n \in Nat, NEW qs, QueuesMade(qs, n, raw), NEW p \in Procs,
         NEW e \in Entries,
         e.fresh => /\ FreshFrom(e.op, n, raw)
                    /\ \A q \in Procs : \A k \in 1..Len(qs[q]) :
                         qs[q][k].fresh => qs[q][k].op.ids # e.op.ids,
         ~e.fresh => MadeFrom(e.op, raw)
  PROVE  QueuesMade([qs EXCEPT ![p] = Append(qs[p], e)], n, raw)
<1> DEFINE t == Append(qs[p], e)
<1> DEFINE ws == [qs EXCEPT ![p] = t]
<1>1. qs[p] \in Seq(Entries) /\ qs \in [Procs -> Seq(Entries)]
  BY DEF QueuesMade
<1>2. /\ t \in Seq(Entries) /\ Len(t) = Len(qs[p]) + 1 /\ Len(qs[p]) \in Nat
      /\ \A k \in 1..Len(qs[p]) : t[k] = qs[p][k]
      /\ t[Len(qs[p]) + 1] = e
  BY <1>1
<1> HIDE DEF t
<1>3. ws \in [Procs -> Seq(Entries)] /\ ws[p] = t /\ \A q \in Procs : q # p => ws[q] = qs[q]
  BY <1>1, <1>2
<1> HIDE DEF ws
<1>4. ASSUME NEW q \in Procs, NEW k \in 1..Len(ws[q])
      PROVE  \/ k \in 1..Len(qs[q]) /\ ws[q][k] = qs[q][k]
             \/ q = p /\ k = Len(qs[p]) + 1 /\ ws[q][k] = e
  BY <1>2, <1>3, <1>4
<1>5. \A q \in Procs : \A k \in 1..Len(ws[q]) :
       /\ ws[q][k].fresh => FreshFrom(ws[q][k].op, n, raw)
       /\ ~ws[q][k].fresh => MadeFrom(ws[q][k].op, raw)
  BY <1>4, ZenonT(60) DEF QueuesMade
<1>6. ASSUME NEW q \in Procs, NEW r \in Procs,
             NEW k \in 1..Len(ws[q]), NEW l \in 1..Len(ws[r]),
             ws[q][k].fresh, ws[r][l].fresh, ws[q][k].op.ids = ws[r][l].op.ids
      PROVE  q = r /\ k = l
  <2>1. CASE k \in 1..Len(qs[q]) /\ ws[q][k] = qs[q][k]
    <3>1. CASE l \in 1..Len(qs[r]) /\ ws[r][l] = qs[r][l]
      BY <1>6, <2>1, <3>1 DEF QueuesMade
    <3>2. CASE r = p /\ l = Len(qs[p]) + 1 /\ ws[r][l] = e
      BY <1>6, <2>1, <3>2
    <3> QED
      BY <1>4, <3>1, <3>2
  <2>2. CASE q = p /\ k = Len(qs[p]) + 1 /\ ws[q][k] = e
    <3>1. CASE l \in 1..Len(qs[r]) /\ ws[r][l] = qs[r][l]
      BY <1>6, <2>2, <3>1
    <3>2. CASE r = p /\ l = Len(qs[p]) + 1 /\ ws[r][l] = e
      BY <2>2, <3>2
    <3> QED
      BY <1>4, <3>1, <3>2
  <2> QED
    BY <1>4, <2>1, <2>2
<1> QED
  BY <1>3, <1>5, <1>6 DEF QueuesMade, ws, t

\* The operations of a process that dies wait no more.
LEMMA QueueLost ==
  ASSUME NEW raw, NEW n \in Nat, NEW qs, QueuesMade(qs, n, raw), NEW p \in Procs
  PROVE  QueuesMade([qs EXCEPT ![p] = <<>>], n, raw)
<1> DEFINE ws == [qs EXCEPT ![p] = <<>>]
<1>1. ws \in [Procs -> Seq(Entries)]
  BY DEF QueuesMade
<1>2. \A q \in Procs : \A k \in 1..Len(ws[q]) : q # p /\ ws[q] = qs[q]
  BY DEF QueuesMade
<1> HIDE DEF ws
<1>3. QueuesMade(ws, n, raw)
  BY <1>1, <1>2 DEF QueuesMade
<1> QED
  BY <1>3 DEF ws

\* The revision of an operation is decided: what others are made from stays.
LEMMA OriginsGrow ==
  ASSUME NEW raw \in Origins, NEW more \in Origins, NEW i \in Nat,
         NEW ms, NEW ts, NEW h, NEW ops, NEW j, NEW d,
         DOMAIN more = DOMAIN raw \cup {i}, \A k \in DOMAIN raw : more[k] = raw[k]
  PROVE  /\ MaybeFrom(j, raw) => MaybeFrom(j, more)
         /\ MarkersMade(ms, raw) => MarkersMade(ms, more)
         /\ RowsMade(d, raw) => RowsMade(d, more)
         /\ TasksMade(ts, raw) => TasksMade(ts, more)
         /\ HeldMade(h, raw) => HeldMade(h, more)
         /\ AllFrom(ops, raw) => AllFrom(ops, more)
<1>1. ASSUME NEW x
      PROVE  /\ MadeFrom(x, raw) => MadeFrom(x, more)
             /\ MaybeFrom(x, raw) => MaybeFrom(x, more)
  BY MadeGrows
<1>2. MaybeFrom(j, raw) => MaybeFrom(j, more)
  BY <1>1
<1>3. MarkersMade(ms, raw) => MarkersMade(ms, more)
  BY <1>1 DEF MarkersMade
<1>4. RowsMade(d, raw) => RowsMade(d, more)
  BY <1>1 DEF RowsMade
<1>5. TasksMade(ts, raw) => TasksMade(ts, more)
  BY <1>1 DEF TasksMade, TaskFits
<1>6. HeldMade(h, raw) => HeldMade(h, more)
  BY <1>1 DEF HeldMade
<1>7. AllFrom(ops, raw) => AllFrom(ops, more)
  BY <1>1 DEF AllFrom
<1> QED
  BY <1>2, <1>3, <1>4, <1>5, <1>6, <1>7

\* So do the operations that wait, unless one has the id that is decided.
LEMMA QueuesGrow ==
  ASSUME NEW raw \in Origins, NEW more \in Origins, NEW i \in Nat,
         NEW n \in Nat, NEW qs, QueuesMade(qs, n, raw),
         DOMAIN more = DOMAIN raw \cup {i}, \A k \in DOMAIN raw : more[k] = raw[k],
         \A p \in Procs : \A k \in 1..Len(qs[p]) : qs[p][k].fresh => qs[p][k].op.ids # {i}
  PROVE  QueuesMade(qs, n, more)
<1>1. ASSUME NEW p \in Procs, NEW k \in 1..Len(qs[p])
      PROVE  /\ qs[p][k].fresh => FreshFrom(qs[p][k].op, n, more)
             /\ ~qs[p][k].fresh => MadeFrom(qs[p][k].op, more)
  <2>1. ASSUME qs[p][k].fresh
        PROVE  FreshFrom(qs[p][k].op, n, more)
    <3>1. FreshFrom(qs[p][k].op, n, raw) /\ qs[p][k].op.ids # {i}
      BY <2>1 DEF QueuesMade
    <3> QED
      BY <3>1 DEF FreshFrom
  <2>2. ~qs[p][k].fresh => MadeFrom(qs[p][k].op, more)
    BY MadeGrows DEF QueuesMade
  <2> QED
    BY <2>1, <2>2
<1> QED
  BY <1>1 DEF QueuesMade

-----------------------------------------------------------------------------
(***************************************************************************)
(* The invariant is kept: one lemma per action, or per few that are alike. *)
(***************************************************************************)

\* What most steps do to the task of a process and to what it holds.
LEMMA Moves ==
  ASSUME NEW raw \in Origins, AllMade(raw), NEW p \in Procs
  PROVE  /\ Finish(p) => TasksMade(task', raw)
         /\ \A step \in Steps :
              Goto(p, step) /\ task[p].step \notin {"idle", "down"} => TasksMade(task', raw)
         /\ Forget(p) => HeldMade(held', raw)
         /\ KeepPrevious(p) => HeldMade(held', raw)
<1>1. TasksMade(task, raw) /\ HeldMade(held, raw) /\ MaybeFrom(task[p].prev, raw)
  BY DEF AllMade, TasksMade, TaskFits
<1>2. Finish(p) => TasksMade(task', raw)
  <2>1. TaskFits(Idle, raw)
    BY IdleFits
  <2>2. TasksMade([task EXCEPT ![p] = Idle], raw)
    BY <1>1, <2>1, TaskPut
  <2> QED
    BY <2>2 DEF Finish
<1>3. ASSUME NEW step \in Steps, Goto(p, step), task[p].step \notin {"idle", "down"}
      PROVE  TasksMade(task', raw)
  BY <1>1, <1>3, TaskGoes DEF Goto
<1>4. Forget(p) => HeldMade(held', raw)
  BY <1>1, NothingHeld DEF Forget
<1>5. KeepPrevious(p) => HeldMade(held', raw)
  BY <1>1, HeldPut DEF KeepPrevious
<1> QED
  BY <1>2, <1>3, <1>4, <1>5

\* What a process at work is at.
LEMMA AtWork ==
  ASSUME NEW raw \in Origins, AllMade(raw), NEW p \in Procs
  PROVE  /\ task[p] \in Tasks
         /\ MaybeFrom(task[p].op, raw) /\ MaybeFrom(task[p].prev, raw)
         /\ task[p].step \notin {"idle", "down"} =>
              MadeFrom(task[p].op, raw) /\ task[p].op \in Operation
         /\ journal # NoOp => MadeFrom(journal, raw)
         /\ journal.rev \in Nat
<1>1. TaskFits(task[p], raw) /\ MaybeFrom(journal, raw)
  BY DEF AllMade, TasksMade
<1> QED
  BY <1>1, MaybeTyped DEF TaskFits

\* What put decides is made from what users did, not older than the journal,
\* and not a conflict.
LEMMA ResolutionMade ==
  ASSUME NEW raw \in Origins, AllMade(raw), NEW p \in Procs,
         task[p].step \notin {"idle", "down"}
  PROVE  /\ MadeFrom(Resolution(p).op, raw)
         /\ Resolution(p).op \in Operation
         /\ ~Before(Resolution(p).op, journal)
         /\ Resolution(p).how # "conflict"
<1>1. MadeFrom(task[p].op, raw) /\ (journal # NoOp => MadeFrom(journal, raw))
  BY AtWork
<1>2. CASE journal = NoOp
  <2>1. Resolution(p) = [op |-> task[p].op, how |-> "incoming"]
    BY <1>2 DEF Resolution
  <2>2. task[p].op \in Operation /\ task[p].op.rev \in Nat
    BY <1>1 DEF MadeFrom, Operation
  <2>3. ~Before(task[p].op, NoOp)
    BY <2>2 DEF Before, IdBefore, NoOp
  <2> QED
    BY <1>1, <1>2, <2>1, <2>2, <2>3
<1>3. CASE journal # NoOp
  <2>1. Resolution(p) = Resolve(journal, task[p].op)
    BY <1>3 DEF Resolution
  <2> QED
    BY <1>1, <1>3, <2>1, ResolveMade DEF MadeFrom
<1> QED
  BY <1>2, <1>3

LEMMA PutEnds ==
  ASSUME NumbersTyped, NEW raw \in Origins, AllMade(raw), NEW p \in Procs,
         PutSuperseded(p) \/ PutAgain(p)
  PROVE  NumbersTyped' /\ AllMade(raw)'
<1>1. task[p] \in Tasks /\ journal.rev \in Nat /\ task[p].step = "put"
  BY AtWork DEF PutSuperseded, PutAgain
<1>2. MadeFrom(task[p].op, raw) /\ TasksMade(task, raw) /\ HeldMade(held, raw)
  <2>1. MadeFrom(task[p].op, raw)
    BY <1>1, AtWork
  <2> QED
    BY <2>1 DEF AllMade
<1>3. CASE PutSuperseded(p)
  <2>1. TasksMade(task', raw)
    BY <1>3, Moves DEF PutSuperseded
  <2>2. HeldMade(held', raw)
    BY <1>2, <1>3, NothingHeld DEF PutSuperseded
  <2>3. Later(lastRev[p], journal.rev) \in Nat
    BY <1>1, LaterNat DEF NumbersTyped
  <2>4. lastRev' \in [Procs -> Nat]
    BY <1>3, <2>3 DEF PutSuperseded, NumbersTyped
  <2>5. NumbersTyped'
    BY <1>3, <2>4 DEF PutSuperseded, NumbersTyped, files, bounds
  <2>6. AllMade(raw)'
    BY <1>3, <2>1, <2>2 DEF PutSuperseded, AllMade, files, bounds
  <2> QED
    BY <2>5, <2>6
<1>4. CASE PutAgain(p)
  <2> DEFINE a == [task[p] EXCEPT !.step = "apply"]
  <2> DEFINE b == [a EXCEPT !.prev = journal]
  <2> DEFINE c == [b EXCEPT !.journaled = TRUE]
  <2>1. a \in Tasks /\ a.op = task[p].op /\ a.step = "apply"
    BY <1>1, StepPut DEF Steps
  <2>2. journal = task[p].op /\ journal \in Operation
    BY <1>2, <1>4 DEF PutAgain, MadeFrom
  <2> HIDE DEF a
  <2>3. b \in Tasks /\ b.op = task[p].op /\ b.prev = journal /\ b.step = "apply"
    BY <2>1, <2>2, PrevPut
  <2> HIDE DEF b
  <2>4. c \in Tasks /\ c.op = task[p].op /\ c.prev = journal
    BY <2>3, JournaledPut
  <2>5. task' = [task EXCEPT ![p] = c]
    BY <1>4 DEF PutAgain, a, b
  <2> HIDE DEF c
  <2>6. TaskFits(c, raw)
    BY <1>2, <2>2, <2>4, NoOperation DEF TaskFits, MaybeFrom
  <2>7. TasksMade(task', raw)
    BY <1>2, <2>5, <2>6, TaskPut
  <2>8. NumbersTyped'
    BY <1>4 DEF PutAgain, NumbersTyped, files, bounds
  <2>9. AllMade(raw)'
    BY <1>4, <2>7 DEF PutAgain, AllMade, files, bounds
  <2> QED
    BY <2>8, <2>9
<1> QED
  BY <1>3, <1>4

LEMMA PutMarkKeeps ==
  ASSUME NumbersTyped, NEW raw \in Origins, AllMade(raw), NEW p \in Procs, PutMark(p)
  PROVE  NumbersTyped' /\ AllMade(raw)'
<1>1. task[p].step = "put" /\ journal # NoOp
  BY DEF PutMark
<1>2. MadeFrom(Resolution(p).op, raw) /\ Resolution(p).op \in Operation
  BY <1>1, ResolutionMade
<1>3. MaybeFrom(journal, raw) /\ journal \in Operation \cup {NoOp}
  BY MaybeTyped DEF AllMade
<1> DEFINE m == Marker("prepared", Resolution(p).op, journal)
<1>4. m \in Markers /\ m.inc = Resolution(p).op /\ m.prev = journal
  BY <1>2, <1>3 DEF Marker, Markers
<1>5. \A n \in markers' : n \in markers \/ n = m
  BY DEF PutMark
<1> HIDE DEF m
<1>6. MarkersMade(markers', raw)
  BY <1>2, <1>3, <1>4, <1>5 DEF AllMade, MarkersMade
<1>7. TasksMade(task', raw)
  BY <1>1, Moves DEF PutMark, Steps
<1>8. NumbersTyped'
  BY DEF PutMark, NumbersTyped, bounds
<1>9. AllMade(raw)'
  BY <1>6, <1>7 DEF PutMark, AllMade, bounds
<1> QED
  BY <1>8, <1>9

LEMMA PutReplaceKeeps ==
  ASSUME NumbersTyped, NEW raw \in Origins, AllMade(raw), NEW p \in Procs, PutReplace(p)
  PROVE  NumbersTyped' /\ AllMade(raw)'
<1>1. task[p].step \in {"put", "replace"}
  BY DEF PutReplace, ReadyToReplace
<1>2. /\ MadeFrom(journal', raw) /\ journal' \in Operation
      /\ journal' = Resolution(p).op
  BY <1>1, ResolutionMade DEF PutReplace
<1>3. /\ MadeFrom(task[p].op, raw) /\ task[p] \in Tasks /\ MaybeFrom(journal, raw)
      /\ journal \in Operation \cup {NoOp}
  BY <1>1, AtWork, MaybeTyped DEF AllMade
<1>4. PICK new : new = journal'
  OBVIOUS
<1> DEFINE a == [task[p] EXCEPT !.step = "apply"]
<1> DEFINE b == [a EXCEPT !.op = new]
<1> DEFINE c == [b EXCEPT !.prev = journal]
<1> DEFINE d == [c EXCEPT !.journaled = TRUE]
<1>5. a \in Tasks
  BY <1>3, StepPut DEF Steps
<1> HIDE DEF a
<1>6. b \in Tasks /\ b.op = new
  BY <1>2, <1>4, <1>5, OpPut
<1> HIDE DEF b
<1>7. c \in Tasks /\ c.op = new /\ c.prev = journal
  BY <1>3, <1>6, PrevPut
<1> HIDE DEF c
<1>8. d \in Tasks /\ d.op = new /\ d.prev = journal
  BY <1>7, JournaledPut
<1>9. task' = [task EXCEPT ![p] = d]
  BY <1>4 DEF PutReplace, a, b, c
<1> HIDE DEF d
<1>10. TaskFits(d, raw)
  BY <1>2, <1>3, <1>4, <1>8, NoOperation DEF TaskFits, MaybeFrom
<1>11. TasksMade(task', raw)
  BY <1>9, <1>10, TaskPut DEF AllMade
<1>12. AllFrom(published', raw)
  BY <1>3 DEF PutReplace, AllMade, AllFrom
<1>13. MaybeFrom(journal', raw)
  BY <1>2 DEF MaybeFrom
<1>14. journal'.rev \in Nat
  BY <1>2 DEF Operation
<1>15. Later(lastRev[p], journal'.rev) \in Nat
  BY <1>14, LaterNat DEF NumbersTyped
<1>16. lastRev' \in [Procs -> Nat]
  BY <1>15 DEF PutReplace, NumbersTyped
<1>17. NumbersTyped'
  BY <1>16 DEF PutReplace, NumbersTyped, bounds
<1>18. AllMade(raw)'
  BY <1>11, <1>12, <1>13 DEF PutReplace, AllMade, bounds
<1> QED
  BY <1>17, <1>18

LEMMA PutFailsKeeps ==
  ASSUME SyncBounds, NumbersTyped, NEW raw \in Origins, AllMade(raw), NEW p \in Procs, PutFails(p)
  PROVE  NumbersTyped' /\ AllMade(raw)'
<1>1. task[p].step \in {"put", "replace"}
  BY DEF PutFails
<1>2. TasksMade(task', raw)
  BY <1>1, Moves DEF PutFails, Steps
<1>3. MadeFrom(task[p].op, raw) /\ MadeFrom(Resolution(p).op, raw)
  BY <1>1, AtWork, ResolutionMade
<1>4. MaybeFrom(journal', raw) /\ AllFrom(published', raw)
  BY <1>3 DEF PutFails, AllMade, MaybeFrom, AllFrom
<1>5. faults' \in 0..MaxFaults
  BY DEF PutFails, Fault, NumbersTyped, SyncBounds
<1>6. NumbersTyped'
  BY <1>5 DEF PutFails, NumbersTyped
<1>7. AllMade(raw)'
  BY <1>2, <1>4 DEF PutFails, AllMade
<1> QED
  BY <1>6, <1>7

LEMMA ApplyDoneKeeps ==
  ASSUME NumbersTyped, NEW raw \in Origins, AllMade(raw), NEW p \in Procs, ApplyDone(p)
  PROVE  NumbersTyped' /\ AllMade(raw)'
<1>1. task[p].step = "apply"
  BY DEF ApplyDone, Applying
<1>2. MadeFrom(task[p].op, raw)
  BY <1>1, AtWork
<1>3. RowsMade(db', raw)
  BY <1>2, ApplyMade DEF ApplyDone, AllMade
<1>4. TasksMade(task', raw)
  BY <1>1, Moves DEF ApplyDone, Steps
<1>5. HeldMade(held', raw)
  BY Moves DEF ApplyDone, AllMade
<1>6. AllFrom(published', raw)
  BY <1>2 DEF ApplyDone, AllMade, AllFrom
<1>7. NumbersTyped'
  BY DEF ApplyDone, NumbersTyped, bounds
<1>8. AllMade(raw)'
  BY <1>3, <1>4, <1>5, <1>6 DEF ApplyDone, AllMade, bounds
<1> QED
  BY <1>7, <1>8

LEMMA ApplyBusyKeeps ==
  ASSUME SyncBounds, NumbersTyped, NEW raw \in Origins, AllMade(raw), NEW p \in Procs, ApplyBusy(p)
  PROVE  NumbersTyped' /\ AllMade(raw)'
<1>1. task[p].step = "apply"
  BY DEF ApplyBusy, Applying
<1>2. MadeFrom(task[p].op, raw) /\ task[p].op \in Operation
  BY <1>1, AtWork
<1>3. TasksMade(task', raw)
  BY Moves DEF ApplyBusy
<1>4. HeldMade(held', raw)
  <2>1. HeldMade([held EXCEPT ![p] = task[p].op], raw)
    BY <1>2, HeldPut DEF AllMade, MaybeFrom
  <2> QED
    BY <2>1 DEF ApplyBusy, AllMade
<1>5. promised' \in [Procs -> SUBSET Operation]
  BY <1>2 DEF ApplyBusy, NumbersTyped
<1>6. faults' \in 0..MaxFaults
  BY DEF ApplyBusy, Fault, NumbersTyped, SyncBounds
<1>7. NumbersTyped'
  BY <1>5, <1>6 DEF ApplyBusy, NumbersTyped, files
<1>8. AllMade(raw)'
  BY <1>3, <1>4 DEF ApplyBusy, AllMade, files
<1> QED
  BY <1>7, <1>8

LEMMA ApplyRefusedKeeps ==
  ASSUME NumbersTyped, NEW raw \in Origins, AllMade(raw), NEW p \in Procs, ApplyRefused(p)
  PROVE  NumbersTyped' /\ AllMade(raw)'
<1>1. task[p].step = "apply"
  BY DEF ApplyRefused, Applying
<1>2. TasksMade(task', raw)
  BY <1>1, Moves DEF ApplyRefused, Steps
<1>3. HeldMade(held', raw)
  BY Moves DEF ApplyRefused, AllMade
<1>4. NumbersTyped'
  BY DEF ApplyRefused, NumbersTyped, files, bounds
<1>5. AllMade(raw)'
  BY <1>2, <1>3 DEF ApplyRefused, AllMade, files, bounds
<1> QED
  BY <1>4, <1>5

LEMMA CleaningKeeps ==
  ASSUME SyncBounds, NumbersTyped, NEW raw \in Origins, AllMade(raw), NEW p \in Procs,
         Clean(p) \/ Sweep(p) \/ CleanFails(p)
  PROVE  NumbersTyped' /\ AllMade(raw)'
<1>1. task[p].step \in {"clean", "sweep"}
  BY DEF Clean, Sweep, CleanFails
<1>2. TasksMade(task', raw)
  <2>1. Finish(p) => TasksMade(task', raw)
    BY Moves
  <2>2. Goto(p, "sweep") => TasksMade(task', raw)
    BY <1>1, Moves DEF Steps
  <2>3. task' = task => TasksMade(task', raw)
    BY DEF AllMade
  <2> QED
    BY <2>1, <2>2, <2>3 DEF Clean, Sweep, CleanFails
<1>3. HeldMade(held', raw)
  <2>1. Forget(p) => HeldMade(held', raw)
    BY Moves
  <2>2. held' = held => HeldMade(held', raw)
    BY DEF AllMade
  <2> QED
    BY <2>1, <2>2 DEF Clean, Sweep, CleanFails
<1>4. MaybeFrom(journal', raw)
  BY DEF Clean, Sweep, CleanFails, AllMade, MaybeFrom, files
<1>5. MarkersMade(markers', raw)
  <2>1. markers' \subseteq markers
    BY DEF Clean, Sweep, CleanFails, files
  <2> QED
    BY <2>1 DEF AllMade, MarkersMade
<1>6. /\ db' = db /\ queue' = queue /\ count' = count /\ published' = published
      /\ clock' = clock /\ lastRev' = lastRev /\ crashes' = crashes /\ promised' = promised
  BY DEF Clean, Sweep, CleanFails, files, bounds
<1>7. faults' \in 0..MaxFaults
  BY DEF Clean, Sweep, CleanFails, bounds, Fault, NumbersTyped, SyncBounds
<1>8. NumbersTyped'
  BY <1>6, <1>7 DEF NumbersTyped
<1>9. AllMade(raw)'
  BY <1>2, <1>3, <1>4, <1>5, <1>6 DEF AllMade
<1> QED
  BY <1>8, <1>9

\* A refusal: what is written to the marker is the refused journal and what it
\* replaced, as an earlier marker or the writer knows it.
LEMMA RejectKeeps ==
  ASSUME NumbersTyped, NEW raw \in Origins, AllMade(raw), NEW p \in Procs, Reject(p)
  PROVE  NumbersTyped' /\ AllMade(raw)'
<1>1. task[p].step = "reject"
  BY DEF Reject
<1>2. MadeFrom(task[p].op, raw) /\ task[p].op \in Operation /\ MaybeFrom(task[p].prev, raw)
  BY <1>1, AtWork
<1>3. TasksMade(task', raw)
  <2>1. Finish(p) => TasksMade(task', raw)
    BY Moves
  <2>2. Goto(p, "drop") => TasksMade(task', raw)
    BY <1>1, Moves DEF Steps
  <2> QED
    BY <2>1, <2>2 DEF Reject
<1>4. HeldMade(held', raw)
  <2>1. KeepPrevious(p) => HeldMade(held', raw)
    BY Moves
  <2>2. held' = held => HeldMade(held', raw)
    BY DEF AllMade
  <2> QED
    BY <2>1, <2>2 DEF Reject
<1>5. MarkersMade(markers', raw)
  <2>1. CASE journal # task[p].op
    BY <2>1 DEF Reject, AllMade
  <2>2. CASE journal = task[p].op
    <3> DEFINE previous == IF MarkerOf(journal) = {} THEN task[p].prev
                           ELSE (CHOOSE m \in MarkerOf(journal) : TRUE).prev
    <3>1. markers' = (markers \ MarkerOf(journal)) \cup {Marker("rejected", journal, previous)}
      BY <2>2 DEF Reject
    <3>2. MaybeFrom(previous, raw)
      <4>1. CASE MarkerOf(journal) = {}
        BY <1>2, <4>1
      <4>2. CASE MarkerOf(journal) # {}
        <5>1. (CHOOSE m \in MarkerOf(journal) : TRUE) \in MarkerOf(journal)
          BY <4>2
        <5>2. (CHOOSE m \in MarkerOf(journal) : TRUE) \in markers
          BY <5>1 DEF MarkerOf
        <5> QED
          BY <4>2, <5>2 DEF AllMade, MarkersMade
      <4> QED
        BY <4>1, <4>2
    <3> HIDE DEF previous
    <3> DEFINE m == Marker("rejected", journal, previous)
    <3>3. previous \in Operation \cup {NoOp}
      BY <3>2, MaybeTyped
    <3>4. m \in Markers /\ m.inc = journal /\ m.prev = previous
      BY <1>2, <2>2, <3>3 DEF Marker, Markers
    <3>5. \A n \in markers' : n \in markers \/ n = m
      BY <3>1
    <3> HIDE DEF m
    <3> QED
      BY <1>2, <2>2, <3>2, <3>4, <3>5 DEF AllMade, MarkersMade
  <2> QED
    BY <2>1, <2>2
<1>6. NumbersTyped'
  BY DEF Reject, NumbersTyped, bounds
<1>7. AllMade(raw)'
  BY <1>3, <1>4, <1>5 DEF Reject, AllMade, bounds
<1> QED
  BY <1>6, <1>7

LEMMA RestoringKeeps ==
  ASSUME SyncBounds, NumbersTyped, NEW raw \in Origins, AllMade(raw), NEW p \in Procs,
         Drop(p) \/ Restore(p) \/ Unmark(p) \/ RejectFails(p)
  PROVE  NumbersTyped' /\ AllMade(raw)'
<1>1. task[p].step \in {"reject", "drop", "restore", "unmark"}
  BY DEF Drop, Restore, Unmark, RejectFails
<1>2. TasksMade(task', raw)
  <2>1. Finish(p) => TasksMade(task', raw)
    BY Moves
  <2>2. Goto(p, "restore") \/ Goto(p, "unmark") => TasksMade(task', raw)
    BY <1>1, Moves DEF Steps
  <2> QED
    BY <2>1, <2>2 DEF Drop, Restore, Unmark, RejectFails
<1>3. HeldMade(held', raw)
  <2>1. Forget(p) \/ KeepPrevious(p) => HeldMade(held', raw)
    BY Moves
  <2>2. held' = held => HeldMade(held', raw)
    BY DEF AllMade
  <2> QED
    BY <2>1, <2>2 DEF Drop, Restore, Unmark, RejectFails
<1>4. MaybeFrom(journal', raw)
  BY DEF Drop, Restore, Unmark, RejectFails, AllMade, MaybeFrom, MarkersMade, MarkerOf, files
<1>5. MarkersMade(markers', raw)
  <2>1. markers' \subseteq markers
    BY DEF Drop, Restore, Unmark, RejectFails, files
  <2> QED
    BY <2>1 DEF AllMade, MarkersMade
<1>6. /\ db' = db /\ queue' = queue /\ count' = count /\ published' = published
      /\ clock' = clock /\ lastRev' = lastRev /\ crashes' = crashes /\ promised' = promised
  BY DEF Drop, Restore, Unmark, RejectFails, files, bounds
<1>7. faults' \in 0..MaxFaults
  BY DEF Drop, Restore, Unmark, RejectFails, bounds, Fault, NumbersTyped, SyncBounds
<1>8. NumbersTyped'
  BY <1>6, <1>7 DEF NumbersTyped
<1>9. AllMade(raw)'
  BY <1>2, <1>3, <1>4, <1>5, <1>6 DEF AllMade
<1> QED
  BY <1>8, <1>9

LEMMA RecoverKeeps ==
  ASSUME SyncBounds, NumbersTyped, NEW raw \in Origins, AllMade(raw), NEW p \in Procs,
         NEW m \in markers, Recover(p, m)
  PROVE  NumbersTyped' /\ AllMade(raw)'
<1>1. MaybeFrom(journal', raw)
  BY DEF Recover, AfterRecovery, AllMade, MarkersMade
<1>2. MarkersMade(markers', raw)
  BY DEF Recover, AllMade, MarkersMade
<1>3. faults' \in 0..MaxFaults
  BY DEF Recover, Fault, NumbersTyped, SyncBounds
<1>4. NumbersTyped'
  BY <1>3 DEF Recover, NumbersTyped, memory
<1>5. AllMade(raw)'
  BY <1>1, <1>2 DEF Recover, AllMade, memory
<1> QED
  BY <1>4, <1>5

LEMMA ReplayKeeps ==
  ASSUME NumbersTyped, NEW raw \in Origins, AllMade(raw), NEW p \in Procs,
         Replay(p) \/ RetryHeld(p)
  PROVE  NumbersTyped' /\ AllMade(raw)'
<1>1. MaybeFrom(held[p], raw) /\ TasksMade(task, raw)
  BY DEF AllMade, HeldMade
<1>2. Replay(p) => TasksMade(task', raw)
  <2>1. journal # NoOp => MadeFrom(journal, raw)
    BY AtWork
  <2> DEFINE t == [Idle EXCEPT !.step = "apply", !.op = journal,
                               !.journaled = TRUE, !.replay = TRUE]
  <2>2. journal # NoOp => TaskFits(t, raw)
    BY <2>1, StartFits
  <2> HIDE DEF t
  <2>3. journal # NoOp => TasksMade([task EXCEPT ![p] = t], raw)
    BY <1>1, <2>2, TaskPut
  <2> QED
    BY <2>3 DEF Replay, t
<1>3. RetryHeld(p) => TasksMade(task', raw)
  <2>1. held[p] # NoOp => MadeFrom(held[p], raw)
    BY <1>1 DEF MaybeFrom
  <2> DEFINE t == [Idle EXCEPT !.step = "put", !.op = held[p]]
  <2>2. held[p] # NoOp => TaskFits(t, raw)
    BY <2>1, StartFits
  <2> HIDE DEF t
  <2>3. held[p] # NoOp => TasksMade([task EXCEPT ![p] = t], raw)
    BY <1>1, <2>2, TaskPut
  <2> QED
    BY <2>3 DEF RetryHeld, t
<1>4. NumbersTyped'
  BY DEF Replay, RetryHeld, NumbersTyped, files, bounds
<1>5. AllMade(raw)'
  BY <1>2, <1>3 DEF Replay, RetryHeld, AllMade, files, bounds
<1> QED
  BY <1>4, <1>5

LEMMA CrashKeeps ==
  ASSUME SyncBounds, NumbersTyped, NEW raw \in Origins, AllMade(raw), NEW p \in Procs, Crash(p)
  PROVE  NumbersTyped' /\ AllMade(raw)'
<1>1. TasksMade(task', raw)
  BY IdleFits, TaskPut DEF Crash, AllMade
<1>2. QueuesMade(queue', count, raw)
  <2>1. count \in Nat
    BY DEF NumbersTyped, SyncBounds
  <2> QED
    BY <2>1, QueueLost DEF Crash, AllMade
<1>3. HeldMade(held', raw)
  BY NothingHeld DEF Crash, AllMade
<1>4. crashes' \in 0..MaxCrashes /\ promised' \in [Procs -> SUBSET Operation]
  BY DEF Crash, NumbersTyped, SyncBounds
<1>5. NumbersTyped'
  BY <1>4 DEF Crash, NumbersTyped, files
<1>6. AllMade(raw)'
  BY <1>1, <1>2, <1>3 DEF Crash, AllMade, files
<1> QED
  BY <1>5, <1>6

LEMMA StartKeeps ==
  ASSUME SyncBounds, NumbersTyped, NEW raw \in Origins, AllMade(raw), NEW p \in Procs, Start(p)
  PROVE  NumbersTyped' /\ AllMade(raw)'
<1>1. TasksMade(task', raw)
  BY Moves DEF Start
<1>2. journal.rev \in Nat
  BY AtWork
<1>3. db \in Rows
  BY DEF AllMade, RowsMade, RowsSound
<1>4. db.receipt.op.rev \in Nat /\ db.barrier.rev \in Nat
  BY <1>3 DEF Rows, Receipts, Barriers, Operation, NoOp
<1>5. HighWater(db) \in Nat
  BY <1>4, LaterNat DEF HighWater
<1>6. Later(Later(clock, journal.rev), HighWater(db)) \in Nat
  BY <1>2, <1>5, LaterNat DEF NumbersTyped
<1>7. lastRev' \in [Procs -> Nat]
  BY <1>6 DEF Start, NumbersTyped
<1>8. faults' \in 0..MaxFaults
  BY DEF Start, Fault, NumbersTyped, SyncBounds
<1>9. NumbersTyped'
  BY <1>7, <1>8 DEF Start, NumbersTyped, files
<1>10. AllMade(raw)'
  BY <1>1 DEF Start, AllMade, files
<1> QED
  BY <1>9, <1>10

\* One more operation exists: nothing that waits has its id.
LEMMA CountGrown ==
  ASSUME NEW raw, NEW n \in Nat, NEW qs, QueuesMade(qs, n, raw)
  PROVE  /\ QueuesMade(qs, n + 1, raw)
         /\ \A p \in Procs : \A k \in 1..Len(qs[p]) :
              qs[p][k].fresh => qs[p][k].op.ids # {n + 1}
<1>1. ASSUME NEW x, FreshFrom(x, n, raw)
      PROVE  FreshFrom(x, n + 1, raw) /\ x.ids # {n + 1}
  <2>1. PICK i \in 1..n : i \notin DOMAIN raw /\ x.ids = {i} /\ x.val = {i}
    BY <1>1 DEF FreshFrom
  <2>2. i \in 1..(n + 1) /\ i # n + 1
    OBVIOUS
  <2>3. x.ids # {n + 1}
    BY <2>1, <2>2
  <2> QED
    BY <1>1, <2>1, <2>2, <2>3 DEF FreshFrom
<1> QED
  BY <1>1 DEF QueuesMade

\* An operation a user makes now.
LEMMA NewTyped ==
  ASSUME SyncBounds, NumbersTyped, count < MaxOps, NEW revision \in Nat, NEW now \in Readings,
         NEW method \in Chosen
  PROVE  /\ count \in Nat /\ count + 1 \in Nat /\ count + 1 \in 0..MaxOps
         /\ count + 1 \in 1..(count + 1)
         /\ [method |-> method, rev |-> revision, ids |-> {count + 1},
             at |-> now, val |-> {count + 1}] \in Operation
<1>1. count \in Nat /\ count + 1 \in 1..MaxOps /\ count + 1 \in 0..MaxOps
  BY DEF NumbersTyped, SyncBounds
<1>2. {count + 1} \subseteq Ids /\ {count + 1} \subseteq Levels
  BY <1>1 DEF SyncBounds
<1>3. method \in {"set", "merge"} /\ now \in Nat
  BY DEF Chosen, SyncBounds
<1> QED
  BY <1>1, <1>2, <1>3 DEF Operation

LEMMA SubmitKeeps ==
  ASSUME SyncBounds, NumbersTyped, NEW raw \in Origins, AllMade(raw), NEW p \in Procs,
         NEW method \in Methods, NEW now \in Readings, Submit(p, method, now)
  PROVE  NumbersTyped' /\ AllMade(raw)'
<1>1. now \in Nat /\ lastRev[p] + 1 \in Nat
  BY DEF NumbersTyped, SyncBounds
<1> DEFINE revision == Later(lastRev[p] + 1, now)
<1>2. revision \in Nat
  BY <1>1, LaterNat
<1> DEFINE op == [method |-> method, rev |-> revision, ids |-> {count + 1},
                  at |-> now, val |-> {count + 1}]
<1>3. /\ count < MaxOps
      /\ queue' = [queue EXCEPT ![p] = Append(queue[p], [op |-> op, fresh |-> TRUE])]
      /\ lastRev' = [lastRev EXCEPT ![p] = revision] /\ count' = count + 1
      /\ UNCHANGED <<files, task, held, faults, crashes, published, promised>>
  BY DEF Submit, AllMade, QueuesMade
<1> HIDE DEF revision
<1>4. method \in Chosen
  BY DEF Chosen
<1>5. /\ op \in Operation /\ count \in Nat /\ count + 1 \in Nat
      /\ count + 1 \in 1..(count + 1) /\ count + 1 \in 0..MaxOps
  BY <1>2, <1>3, <1>4, NewTyped
<1>6. op.method \in Chosen /\ op.ids = {count + 1} /\ op.val = {count + 1}
  BY <1>4
<1>7. [op |-> op, fresh |-> TRUE] \in Entries
  BY <1>5 DEF Entries
<1> HIDE DEF op
<1>8. DOMAIN raw \subseteq 1..count
  BY DEF AllMade
<1>9. count + 1 \notin DOMAIN raw
  BY <1>5, <1>8
<1>10. FreshFrom(op, count + 1, raw)
  BY <1>5, <1>6, <1>9 DEF FreshFrom
<1>11. /\ QueuesMade(queue, count + 1, raw)
       /\ \A q \in Procs : \A k \in 1..Len(queue[q]) :
            queue[q][k].fresh => queue[q][k].op.ids # {count + 1}
  BY <1>5, CountGrown DEF AllMade
<1> DEFINE e == [op |-> op, fresh |-> TRUE]
<1>12. e.op = op /\ e.fresh /\ e \in Entries
  BY <1>7
<1> HIDE DEF e
<1>13. QueuesMade([queue EXCEPT ![p] = Append(queue[p], e)], count + 1, raw)
  BY <1>5, <1>6, <1>10, <1>11, <1>12, QueueGrown
<1>14. QueuesMade(queue', count', raw)
  BY <1>3, <1>13 DEF e
<1>15. DOMAIN raw \subseteq 1..count'
  BY <1>3, <1>5, <1>8
<1>16. lastRev' \in [Procs -> Nat]
  BY <1>2, <1>3 DEF NumbersTyped
<1>17. NumbersTyped'
  BY <1>3, <1>5, <1>16 DEF NumbersTyped, files
<1>18. AllMade(raw)'
  BY <1>3, <1>14, <1>15 DEF AllMade, files
<1> QED
  BY <1>17, <1>18

\* Taking an operation from the queue decides its revision.
LEMMA AllocateKeeps ==
  ASSUME SyncBounds, NumbersTyped, NEW raw \in Origins, AllMade(raw), NEW p \in Procs,
         NEW now \in Readings, Allocate(p, now)
  PROVE  NumbersTyped' /\ \E more \in Origins : AllMade(more)'
<1> DEFINE op == Head(queue[p]).op
<1> DEFINE revision == NextRevision(Later(op.rev, journal.rev), now)
<1>1. /\ queue[p] # <<>> /\ Head(queue[p]).fresh
      /\ queue' = [queue EXCEPT ![p] = Tail(queue[p])]
      /\ UNCHANGED <<journal, markers, db, held, count, crashes, published, promised>>
  BY DEF Allocate, AllMade, QueuesMade
<1>2. count \in Nat /\ QueuesMade(queue, count, raw)
  BY DEF NumbersTyped, AllMade, SyncBounds
<1>3. /\ QueuesMade(queue', count, raw)
      /\ FreshFrom(op, count, raw)
      /\ \A q \in Procs : \A k \in 1..Len(queue'[q]) :
           queue'[q][k].fresh => queue'[q][k].op.ids # op.ids
  BY <1>1, <1>2, QueueTaken
<1>4. PICK i \in 1..count : i \notin DOMAIN raw /\ op.ids = {i} /\ op.val = {i}
  BY <1>3 DEF FreshFrom
<1>5. op \in Operation /\ op.method \in Chosen /\ op.rev \in Nat
  BY <1>3 DEF FreshFrom, Operation
<1>6. revision \in Nat
  <2>1. now \in Nat /\ journal.rev \in Nat /\ clock \in Nat
    BY AtWork DEF NumbersTyped, SyncBounds
  <2>2. Later(op.rev, journal.rev) \in Nat
    BY <1>5, <2>1, LaterNat
  <2> QED
    BY <2>1, <2>2, NextNat
<1> DEFINE revised == [op EXCEPT !.rev = revision]
<1>7. \E x \in {op, revised} :
        task' = [task EXCEPT ![p] = [Idle EXCEPT !.step = "put", !.op = x]]
  BY DEF Allocate
<1>8. /\ clock' \in {clock, revision}
      /\ \/ lastRev' = lastRev
         \/ lastRev' = [lastRev EXCEPT ![p] = Later(lastRev[p], revision)]
      /\ faults' = faults \/ Fault
  BY DEF Allocate, NumbersTyped
<1> HIDE DEF op, revision
<1>9. /\ revised \in Operation /\ revised.ids = op.ids /\ revised.val = op.val
      /\ revised.method = op.method
  BY <1>5, <1>6 DEF Operation
<1> HIDE DEF revised
<1>10. PICK x \in {op, revised} :
         task' = [task EXCEPT ![p] = [Idle EXCEPT !.step = "put", !.op = x]]
  BY <1>7
<1>11. x \in Operation /\ x.ids = {i} /\ x.val = {i} /\ x.method \in Chosen /\ i \in Nat
  BY <1>2, <1>4, <1>5, <1>9, <1>10
<1>12. PICK more \in Origins :
         /\ DOMAIN more = DOMAIN raw \cup {i}
         /\ \A k \in DOMAIN raw : more[k] = raw[k]
         /\ MadeFrom(x, more)
  <2>1. i \notin DOMAIN raw
    BY <1>4
  <2> DEFINE more == [k \in DOMAIN raw \cup {i} |-> IF k = i THEN x ELSE raw[k]]
  <2>2. /\ more \in Origins
        /\ DOMAIN more = DOMAIN raw \cup {i}
        /\ \A k \in DOMAIN raw : more[k] = raw[k]
        /\ MadeFrom(x, more)
    BY <1>11, <2>1, NewMade
  <2> HIDE DEF more
  <2> QED
    BY <2>2
<1>13. QueuesMade(queue', count, more)
  <2>1. \A q \in Procs : \A k \in 1..Len(queue'[q]) :
          queue'[q][k].fresh => queue'[q][k].op.ids # {i}
    BY <1>3, <1>4
  <2> QED
    BY <1>2, <1>3, <1>11, <1>12, <2>1, QueuesGrow
<1>14. TasksMade(task', more)
  <2>1. TasksMade(task, more)
    BY <1>2, <1>11, <1>12, OriginsGrow DEF AllMade
  <2> DEFINE t == [Idle EXCEPT !.step = "put", !.op = x]
  <2>2. TaskFits(t, more)
    BY <1>12, StartFits
  <2> HIDE DEF t
  <2>3. TasksMade([task EXCEPT ![p] = t], more)
    BY <2>1, <2>2, TaskPut
  <2> QED
    BY <1>10, <2>3 DEF t
<1>15. /\ MaybeFrom(journal, more) /\ MarkersMade(markers, more) /\ RowsMade(db, more)
       /\ HeldMade(held, more) /\ AllFrom(published, more)
  BY <1>2, <1>11, <1>12, OriginsGrow DEF AllMade
<1>16. DOMAIN more \subseteq 1..count
  BY <1>4, <1>12 DEF AllMade
<1>17. AllMade(more)'
  BY <1>1, <1>13, <1>14, <1>15, <1>16 DEF AllMade
<1>18. lastRev' \in [Procs -> Nat]
  <2>1. Later(lastRev[p], revision) \in Nat
    BY <1>6, LaterNat DEF NumbersTyped
  <2> QED
    BY <1>8, <2>1 DEF NumbersTyped
<1>19. faults' \in 0..MaxFaults
  BY <1>8 DEF Fault, NumbersTyped, SyncBounds
<1>20. NumbersTyped'
  BY <1>1, <1>6, <1>8, <1>18, <1>19 DEF NumbersTyped
<1> QED
  BY <1>17, <1>20

LEMMA TakeKeeps ==
  ASSUME SyncBounds, NumbersTyped, NEW raw \in Origins, AllMade(raw), NEW p \in Procs, Take(p)
  PROVE  NumbersTyped' /\ AllMade(raw)'
<1> DEFINE op == Head(queue[p]).op
<1>1. /\ queue[p] # <<>> /\ ~Head(queue[p]).fresh
      /\ queue' = [queue EXCEPT ![p] = Tail(queue[p])]
      /\ task' = [task EXCEPT ![p] = [Idle EXCEPT !.step = "put", !.op = op]]
  BY DEF Take, AllMade, QueuesMade
<1>2. count \in Nat /\ QueuesMade(queue, count, raw) /\ TasksMade(task, raw)
  BY DEF NumbersTyped, AllMade, SyncBounds
<1>3. QueuesMade(queue', count, raw) /\ MadeFrom(op, raw)
  BY <1>1, <1>2, QueueTaken
<1> HIDE DEF op
<1> DEFINE t == [Idle EXCEPT !.step = "put", !.op = op]
<1>4. TaskFits(t, raw)
  BY <1>3, StartFits
<1> HIDE DEF t
<1>5. TasksMade([task EXCEPT ![p] = t], raw)
  BY <1>2, <1>4, TaskPut
<1>6. TasksMade(task', raw)
  BY <1>1, <1>5 DEF t
<1>7. NumbersTyped'
  BY DEF Take, NumbersTyped, files, bounds
<1>8. AllMade(raw)'
  BY <1>3, <1>6 DEF Take, AllMade, files, bounds
<1> QED
  BY <1>7, <1>8

\* A game publishes a journal itself.
LEMMA IntentKeeps ==
  ASSUME SyncBounds, NumbersTyped, NEW raw \in Origins, AllMade(raw), NEW p \in Procs,
         NEW now \in Readings, Intent(p, now)
  PROVE  NumbersTyped' /\ \E more \in Origins : AllMade(more)'
<1> DEFINE revision == NextRevision(Later(Later(lastRev[p] + 1, now), journal.rev), now)
<1>1. revision \in Nat
  <2>1. now \in Nat /\ journal.rev \in Nat /\ clock \in Nat /\ lastRev[p] + 1 \in Nat
    BY AtWork DEF NumbersTyped, SyncBounds
  <2>2. Later(lastRev[p] + 1, now) \in Nat
    BY <2>1, LaterNat
  <2>3. Later(Later(lastRev[p] + 1, now), journal.rev) \in Nat
    BY <2>1, <2>2, LaterNat
  <2> QED
    BY <2>1, <2>3, NextNat
<1> DEFINE op == [method |-> "set", rev |-> revision, ids |-> {count + 1},
                  at |-> now, val |-> {count + 1}]
<1>2. /\ Intents /\ count < MaxOps
      /\ clock' = revision
      /\ lastRev' = [lastRev EXCEPT ![p] = revision]
      /\ journal' = op
      /\ markers' = IF journal = NoOp THEN markers
                    ELSE markers \cup {Marker("prepared", op, journal)}
      /\ queue' = [queue EXCEPT ![p] = Append(queue[p], [op |-> op, fresh |-> FALSE])]
      /\ published' = published \cup {op}
      /\ count' = count + 1
      /\ UNCHANGED <<db, task, held, faults, crashes, promised>>
  BY DEF Intent, AllMade, QueuesMade
<1> HIDE DEF revision
<1>3. "set" \in Chosen
  BY <1>2 DEF Chosen
<1>4. /\ op \in Operation /\ count \in Nat /\ count + 1 \in Nat
      /\ count + 1 \in 1..(count + 1) /\ count + 1 \in 0..MaxOps
  BY <1>1, <1>2, <1>3, NewTyped
<1>5. op.method \in Chosen /\ op.ids = {count + 1} /\ op.val = {count + 1}
  BY <1>3
<1> HIDE DEF op
<1>6. DOMAIN raw \subseteq 1..count
  BY DEF AllMade
<1>7. count + 1 \notin DOMAIN raw
  BY <1>4, <1>6
<1>8. PICK more \in Origins :
        /\ DOMAIN more = DOMAIN raw \cup {count + 1}
        /\ \A k \in DOMAIN raw : more[k] = raw[k]
        /\ MadeFrom(op, more)
  BY <1>4, <1>5, <1>7, NewMade
<1>9. /\ QueuesMade(queue, count + 1, raw)
      /\ \A q \in Procs : \A k \in 1..Len(queue[q]) :
           queue[q][k].fresh => queue[q][k].op.ids # {count + 1}
  BY <1>4, CountGrown DEF AllMade
<1>10. QueuesMade(queue, count + 1, more)
  BY <1>4, <1>8, <1>9, QueuesGrow
<1> DEFINE e == [op |-> op, fresh |-> FALSE]
<1>11. e.op = op /\ ~e.fresh /\ e \in Entries
  BY <1>4 DEF Entries
<1> HIDE DEF e
<1>12. QueuesMade([queue EXCEPT ![p] = Append(queue[p], e)], count + 1, more)
  BY <1>4, <1>8, <1>10, <1>11, QueueGrown
<1>13. QueuesMade(queue', count', more)
  BY <1>2, <1>12 DEF e
<1>14. /\ MaybeFrom(journal, more) /\ MarkersMade(markers, more) /\ RowsMade(db, more)
       /\ TasksMade(task, more) /\ HeldMade(held, more) /\ AllFrom(published, more)
  BY <1>4, <1>8, OriginsGrow DEF AllMade
<1> DEFINE m == Marker("prepared", op, journal)
<1>15. m \in Markers /\ m.inc = op /\ m.prev = journal
  BY <1>4, <1>14, MaybeTyped DEF Marker, Markers
<1>16. \A n \in markers' : n \in markers \/ n = m
  BY <1>2
<1> HIDE DEF m
<1>17. MarkersMade(markers', more)
  BY <1>8, <1>14, <1>15, <1>16 DEF MarkersMade
<1>18. MaybeFrom(journal', more) /\ AllFrom(published', more)
  BY <1>2, <1>8, <1>14 DEF MaybeFrom, AllFrom
<1>19. DOMAIN more \subseteq 1..count'
  BY <1>2, <1>4, <1>6, <1>8
<1>20. AllMade(more)'
  BY <1>2, <1>13, <1>14, <1>17, <1>18, <1>19 DEF AllMade
<1>21. lastRev' \in [Procs -> Nat]
  BY <1>1, <1>2 DEF NumbersTyped
<1>22. NumbersTyped'
  BY <1>1, <1>2, <1>4, <1>21 DEF NumbersTyped
<1> QED
  BY <1>20, <1>22

-----------------------------------------------------------------------------
LEMMA SyncInitial ==
  ASSUME SyncBounds, Init
  PROVE  SyncInv
<1> DEFINE raw == [i \in {} |-> NoOp]
<1>1. raw \in [{} -> Operation] /\ DOMAIN raw = {}
  OBVIOUS
<1>2. raw \in Origins
  BY <1>1 DEF Origins
<1> HIDE DEF raw
<1>3. NumbersTyped
  BY DEF Init, NumbersTyped, SyncBounds
<1>4. EmptyRows \in Rows
  BY DEF EmptyRows, Rows, Receipts, Barriers, NoReceipt, NoBarrier
<1>5. RowsMade(db, raw)
  BY <1>4 DEF Init, RowsMade, RowsSound
<1>6. QueuesMade(queue, count, raw)
  BY DEF Init, QueuesMade
<1>7. TasksMade(task, raw)
  <2>1. TaskFits(Idle, raw) /\ Idle \in Tasks
    BY IdleFits DEF TaskFits
  <2> QED
    BY <2>1 DEF Init, TasksMade
<1>8. /\ MaybeFrom(journal, raw) /\ MarkersMade(markers, raw) /\ HeldMade(held, raw)
      /\ AllFrom(published, raw)
  BY DEF Init, MaybeFrom, MarkersMade, HeldMade, AllFrom
<1>9. AllMade(raw)
  BY <1>1, <1>5, <1>6, <1>7, <1>8 DEF AllMade
<1> QED
  BY <1>2, <1>3, <1>9 DEF SyncInv

LEMMA SyncStep ==
  ASSUME SyncBounds, SyncInv, [Next]_vars
  PROVE  SyncInv'
<1>1. PICK raw \in Origins : AllMade(raw)
  BY DEF SyncInv
<1>2. NumbersTyped
  BY DEF SyncInv
<1> SUFFICES NumbersTyped' /\ \E more \in Origins : AllMade(more)'
  BY DEF SyncInv
<1>3. CASE UNCHANGED vars
  <2>1. NumbersTyped' /\ AllMade(raw)'
    BY <1>1, <1>2, <1>3
       DEF vars, files, memory, bounds, NumbersTyped, AllMade
  <2> QED
    BY <2>1
<1>4. ASSUME NEW p \in Procs, NEW method \in Methods, NEW now \in Readings,
             Submit(p, method, now)
      PROVE  NumbersTyped' /\ \E more \in Origins : AllMade(more)'
  BY <1>1, <1>2, <1>4, SubmitKeeps
<1>5. ASSUME NEW p \in Procs, NEW now \in Readings, Intent(p, now)
      PROVE  NumbersTyped' /\ \E more \in Origins : AllMade(more)'
  BY <1>1, <1>2, <1>5, IntentKeeps
<1>6. ASSUME NEW p \in Procs, Write(p)
      PROVE  NumbersTyped' /\ \E more \in Origins : AllMade(more)'
  <2>1. ASSUME NEW now \in Readings, Allocate(p, now)
        PROVE  NumbersTyped' /\ \E more \in Origins : AllMade(more)'
    BY <1>1, <1>2, <2>1, AllocateKeeps
  <2>2. CASE Take(p)
    BY <1>1, <1>2, <2>2, TakeKeeps
  <2>3. CASE PutSuperseded(p) \/ PutAgain(p)
    BY <1>1, <1>2, <2>3, PutEnds
  <2>4. CASE PutMark(p)
    BY <1>1, <1>2, <2>4, PutMarkKeeps
  <2>5. CASE PutReplace(p)
    BY <1>1, <1>2, <2>5, PutReplaceKeeps
  <2>6. CASE ApplyDone(p)
    BY <1>1, <1>2, <2>6, ApplyDoneKeeps
  <2>7. CASE ApplyRefused(p)
    BY <1>1, <1>2, <2>7, ApplyRefusedKeeps
  <2>8. CASE Clean(p) \/ Sweep(p)
    BY <1>1, <1>2, <2>8, CleaningKeeps
  <2>9. CASE Reject(p)
    BY <1>1, <1>2, <2>9, RejectKeeps
  <2>10. CASE Drop(p) \/ Restore(p) \/ Unmark(p)
    BY <1>1, <1>2, <2>10, RestoringKeeps
  <2> QED
    BY <1>6, <2>1, <2>2, <2>3, <2>4, <2>5, <2>6, <2>7, <2>8, <2>9, <2>10 DEF Write
<1>7. ASSUME NEW p \in Procs, Retry(p)
      PROVE  NumbersTyped' /\ \E more \in Origins : AllMade(more)'
  <2>1. CASE Start(p)
    BY <1>1, <1>2, <2>1, StartKeeps
  <2>2. CASE Replay(p) \/ RetryHeld(p)
    BY <1>1, <1>2, <2>2, ReplayKeeps
  <2>3. ASSUME NEW m \in markers, Recover(p, m)
        PROVE  NumbersTyped' /\ \E more \in Origins : AllMade(more)'
    BY <1>1, <1>2, <2>3, RecoverKeeps
  <2> QED
    BY <1>7, <2>1, <2>2, <2>3 DEF Retry
<1>8. ASSUME NEW p \in Procs, Fails(p)
      PROVE  NumbersTyped' /\ \E more \in Origins : AllMade(more)'
  <2>1. CASE PutFails(p)
    BY <1>1, <1>2, <2>1, PutFailsKeeps
  <2>2. CASE ApplyBusy(p)
    BY <1>1, <1>2, <2>2, ApplyBusyKeeps
  <2>3. CASE CleanFails(p)
    BY <1>1, <1>2, <2>3, CleaningKeeps
  <2>4. CASE RejectFails(p)
    BY <1>1, <1>2, <2>4, RestoringKeeps
  <2>5. CASE Crash(p)
    BY <1>1, <1>2, <2>5, CrashKeeps
  <2> QED
    BY <1>8, <2>1, <2>2, <2>3, <2>4, <2>5 DEF Fails
<1> QED
  BY <1>3, <1>4, <1>5, <1>6, <1>7, <1>8 DEF Next

\* In every reachable state every operation in the journal, the markers, the
\* queues, the writers, their memory and the receipts is made from what users
\* did: one operation per id, aggregates as new as their newest component.
THEOREM SyncInductive ==
  ASSUME SyncBounds
  PROVE  Spec => []SyncInv
<1>1. Init => SyncInv
  BY SyncInitial
<1>2. SyncInv /\ [Next]_vars => SyncInv'
  BY SyncStep
<1> QED
  BY <1>1, <1>2, PTL DEF Spec

\* Files, memories and histories hold values of their types
\* (PersistentStateOutbox, LocalBackendClient._state_*).
THEOREM SyncTypeCorrect ==
  ASSUME SyncBounds
  PROVE  Spec => []TypeOK
<1>1. ASSUME SyncInv
      PROVE  TypeOK
  <2>1. PICK raw \in Origins : AllMade(raw)
    BY <1>1 DEF SyncInv
  <2>2. journal \in Operation \cup {NoOp}
    BY <2>1, MaybeTyped DEF AllMade
  <2>3. markers \subseteq Markers
    BY <2>1 DEF AllMade, MarkersMade
  <2>4. db \in Rows
    BY <2>1 DEF AllMade, RowsMade, RowsSound
  <2>5. queue \in [Procs -> Seq(Entries)] /\ task \in [Procs -> Tasks]
    BY <2>1 DEF AllMade, QueuesMade, TasksMade
  <2>6. held \in [Procs -> Operation \cup {NoOp}]
    BY <2>1 DEF AllMade, HeldMade
  <2>7. published \subseteq Operation
    BY <2>1 DEF AllMade, AllFrom, MadeFrom
  <2> QED
    BY <1>1, <2>2, <2>3, <2>4, <2>5, <2>6, <2>7
       DEF SyncInv, NumbersTyped, TypeOK, Markers, Entries, Tasks
<1> QED
  BY <1>1, SyncInductive, PTL

\* A put or an aggregate never replaces the journal by an older operation,
\* whatever the processes, faults and deaths (resolve_operations under the
\* key's lock): an aggregate that contains the journal's operation is as new.
THEOREM JournalAdvances ==
  ASSUME SyncBounds
  PROVE  Spec => JournalMovesForward
<1>1. ASSUME SyncInv
      PROVE  \A p \in Procs : PutReplace(p) => ~Before(journal', journal)
  <2>1. PICK raw \in Origins : AllMade(raw)
    BY <1>1 DEF SyncInv
  <2>2. ASSUME NEW p \in Procs, PutReplace(p)
        PROVE  ~Before(journal', journal)
    <3>1. task[p].step \notin {"idle", "down"} /\ journal' = Resolution(p).op
      BY <2>2 DEF PutReplace, ReadyToReplace
    <3>2. ~Before(Resolution(p).op, journal)
      BY <2>1, <3>1, ResolutionMade
    <3>3. PICK new : new = journal'
      OBVIOUS
    <3>4. ~Before(new, journal)
      BY <3>1, <3>2, <3>3
    <3> QED
      BY <3>3, <3>4 DEF Before
  <2> QED
    BY <2>2
<1> QED
  BY <1>1, SyncInductive, PTL DEF JournalMovesForward

\* An operation id is never met with another payload, in the journal or in the
\* database: whatever a retry, a replay or a recovery brings back is what it
\* was (state_operation_conflict).
THEOREM ConflictsNever ==
  ASSUME SyncBounds
  PROVE  Spec => []NoConflict
<1>1. ASSUME SyncInv
      PROVE  NoConflict
  <2>1. PICK raw \in Origins : AllMade(raw)
    BY <1>1 DEF SyncInv
  <2>2. ASSUME NEW p \in Procs, task[p].step = "put"
        PROVE  Resolution(p).how # "conflict"
    BY <2>1, <2>2, ResolutionMade
  <2>3. ASSUME NEW p \in Procs, Applying(p)
        PROVE  Answer(p) # "conflict"
    <3>1. MadeFrom(task[p].op, raw)
      BY <2>1, <2>3, AtWork DEF Applying
    <3> QED
      BY <2>1, <3>1, ApplyMade DEF Answer, AllMade
  <2> QED
    BY <2>2, <2>3 DEF NoConflict
<1> QED
  BY <1>1, SyncInductive, PTL

-----------------------------------------------------------------------------
(***************************************************************************)
(* Nothing is lost: what an operation says is still said.  Where users only*)
(* replace the value an operation is outdone by a later one; where they    *)
(* only merge it is contained in a larger one.                             *)
(***************************************************************************)
Outdone(x, y) ==
  IF x.method = "set" THEN x = y \/ Before(x, y) ELSE x.ids \subseteq y.ids

\* The rows say what the operation says, or something later.
InRows(x, d) ==
  IF x.method = "set" THEN Outdone(x, d.receipt.op) ELSE x.ids \subseteq d.value

\* One of some operations, or an aggregate of some of them.
MadeOf(x, ops) ==
  \/ x \in ops
  \/ x.method = "merge" /\ x.ids \subseteq UNION {s.ids : s \in ops}

RowsKept(d, ops) ==
  \/ d = EmptyRows
  \/ /\ d.receipt.op.method = "set" /\ d.receipt.op \in ops
     /\ d.receipt.op.val = d.value /\ d.merged = {}
     /\ d.barrier = IF Kind = "progress"
                    THEN [kind |-> "progress_reset", rev |-> d.receipt.op.rev,
                          ids |-> d.receipt.op.ids, at |-> d.receipt.op.at]
                    ELSE NoBarrier
  \/ /\ d.receipt.op.method = "merge" /\ d.receipt.op.ids \subseteq d.value
     /\ d.value \subseteq UNION {s.ids : s \in ops}
     /\ d.merged \subseteq d.value /\ d.barrier = NoBarrier

Refusing == {"reject", "drop", "restore", "unmark"}

TaskKept(t, ops, d) ==
  /\ t.step \notin Refusing
  /\ t.journaled => MadeOf(t.op, ops)
  /\ t.step = "clean" => InRows(t.op, d)

TasksKept(ts, ops, d) == \A p \in Procs : TaskKept(ts[p], ops, d)

MarkersKept(ms, ops) ==
  \A m \in ms : m.phase = "prepared" /\ (m.prev = NoOp \/ MadeOf(m.prev, ops))

AllSaid(ops, j, d) == \A s \in ops : Outdone(s, j) \/ InRows(s, d)

\* With SyncInv, inductive where there is OneMethod.
Kept ==
  /\ RowsKept(db, published)
  /\ journal = NoOp \/ MadeOf(journal, published)
  /\ MarkersKept(markers, published)
  /\ TasksKept(task, published, db)
  /\ AllSaid(published, journal, db)

LEMMA AllOne ==
  ASSUME OneMethod, NEW raw, NEW x, NEW y, MadeFrom(x, raw), MadeFrom(y, raw)
  PROVE  x.method = y.method /\ x.method \in {"set", "merge"}
  BY DEF OneMethod, MadeFrom, Chosen

\* A replacement is of one id.
LEMMA Lone ==
  ASSUME NEW raw \in Origins, NEW x, MadeFrom(x, raw), x.method = "set"
  PROVE  x.rev \in Nat /\ \E i \in Nat : x.ids = {i}
<1>1. PICK i \in x.ids : x.ids = {i}
  BY DEF MadeFrom
<1>2. i \in DOMAIN raw /\ DOMAIN raw \subseteq Nat
  BY DEF MadeFrom, Origins
<1>3. x.rev \in Nat
  BY DEF MadeFrom, Operation
<1> QED
  BY <1>1, <1>2, <1>3

LEMMA BeforeLone ==
  ASSUME NEW x, NEW y, NEW i \in Nat, NEW j \in Nat, x.ids = {i}, y.ids = {j}
  PROVE  Before(x, y) <=> x.rev < y.rev \/ (x.rev = y.rev /\ i < j)
<1>1. IdBefore({i}, {j}) <=> i < j
  <2>1. ASSUME i < j
        PROVE  IdBefore({i}, {j})
    <3>1. j \in {j} \ {i} /\ \A n \in {i} \ {j} : n < j
      BY <2>1
    <3> QED
      BY <3>1 DEF IdBefore
  <2>2. ASSUME IdBefore({i}, {j})
        PROVE  i < j
    <3>1. PICK m \in {j} \ {i} : \A n \in {i} \ {j} : n < m
      BY <2>2 DEF IdBefore
    <3>2. m = j /\ i \in {i} \ {j}
      OBVIOUS
    <3> QED
      BY <3>1, <3>2
  <2> QED
    BY <2>1, <2>2
<1> QED
  BY <1>1 DEF Before

\* Replacements are in a total order.
LEMMA SetsOrdered ==
  ASSUME NEW raw \in Origins,
         NEW x, MadeFrom(x, raw), x.method = "set",
         NEW y, MadeFrom(y, raw), y.method = "set"
  PROVE  /\ Outdone(x, y) \/ Before(y, x)
         /\ Outdone(x, y) /\ Outdone(y, x) => x = y
<1>1. PICK i \in Nat : x.ids = {i}
  BY Lone
<1>2. PICK j \in Nat : y.ids = {j}
  BY Lone
<1>3. /\ Before(x, y) <=> x.rev < y.rev \/ (x.rev = y.rev /\ i < j)
      /\ Before(y, x) <=> y.rev < x.rev \/ (y.rev = x.rev /\ j < i)
  BY <1>1, <1>2, BeforeLone
<1>4. i = j => x = y
  BY <1>1, <1>2, MadeCompare
<1>5. x.rev \in Nat /\ y.rev \in Nat
  BY Lone
<1> QED
  BY <1>3, <1>4, <1>5 DEF Outdone

LEMMA OutdoneAgain ==
  ASSUME OneMethod, NEW raw \in Origins, NEW x, NEW y, NEW z,
         MadeFrom(x, raw), MadeFrom(y, raw), MadeFrom(z, raw),
         Outdone(x, y), Outdone(y, z)
  PROVE  Outdone(x, z)
<1>1. x.method = y.method /\ y.method = z.method /\ x.method \in {"set", "merge"}
  BY AllOne
<1>2. CASE x.method = "merge"
  BY <1>1, <1>2 DEF Outdone
<1>3. CASE x.method = "set"
  <2>1. PICK i \in Nat : x.ids = {i}
    BY <1>3, Lone
  <2>2. PICK j \in Nat : y.ids = {j}
    BY <1>1, <1>3, Lone
  <2>3. PICK k \in Nat : z.ids = {k}
    BY <1>1, <1>3, Lone
  <2>4. x.rev \in Nat /\ y.rev \in Nat /\ z.rev \in Nat
    BY <1>1, <1>3, Lone
  <2>5. /\ Before(x, y) <=> x.rev < y.rev \/ (x.rev = y.rev /\ i < j)
        /\ Before(y, z) <=> y.rev < z.rev \/ (y.rev = z.rev /\ j < k)
        /\ Before(x, z) <=> x.rev < z.rev \/ (x.rev = z.rev /\ i < k)
    BY <2>1, <2>2, <2>3, BeforeLone
  <2>6. (x = y \/ Before(x, y)) /\ (y = z \/ Before(y, z))
    BY <1>1, <1>3 DEF Outdone
  <2>7. x = z \/ Before(x, z)
    BY <2>4, <2>5, <2>6
  <2> QED
    BY <1>3, <2>7 DEF Outdone
<1> QED
  BY <1>1, <1>2, <1>3

\* No journal and no row say anything.
LEMMA NothingSaid ==
  ASSUME NEW raw, NEW x, MadeFrom(x, raw)
  PROVE  ~Outdone(x, NoOp) /\ ~InRows(x, EmptyRows)
<1>1. x \in Operation /\ x.ids # {} /\ x.rev \in Nat
  BY DEF MadeFrom, Operation
<1>2. x # NoOp /\ ~Before(x, NoOp)
  BY <1>1 DEF NoOp, Before, IdBefore
<1>3. ~(x.ids \subseteq {})
  BY <1>1
<1> QED
  BY <1>2, <1>3 DEF Outdone, InRows, EmptyRows, NoReceipt, NoOp

\* What said as much as another operation, the rows or an aggregate made from
\* more operations still do.
LEMMA InRowsAgain ==
  ASSUME OneMethod, NEW raw \in Origins, NEW d, RowsMade(d, raw),
         NEW x, NEW y, MadeFrom(x, raw), MadeFrom(y, raw), Outdone(x, y), InRows(y, d)
  PROVE  InRows(x, d)
<1>1. x.method = y.method /\ x.method \in {"set", "merge"}
  BY AllOne
<1>2. CASE x.method = "merge"
  BY <1>1, <1>2 DEF Outdone, InRows
<1>3. CASE x.method = "set"
  <2>1. d # EmptyRows
    BY NothingSaid
  <2>2. MadeFrom(d.receipt.op, raw)
    BY <2>1 DEF RowsMade
  <2>3. Outdone(y, d.receipt.op)
    BY <1>1, <1>3 DEF InRows
  <2>4. Outdone(x, d.receipt.op)
    BY <2>2, <2>3, OutdoneAgain
  <2> QED
    BY <1>3, <2>4 DEF InRows
<1> QED
  BY <1>1, <1>2, <1>3

LEMMA MadeOfMore ==
  ASSUME NEW ops, NEW more, ops \subseteq more, NEW x, NEW d, NEW t
  PROVE  /\ MadeOf(x, ops) => MadeOf(x, more)
         /\ RowsKept(d, ops) => RowsKept(d, more)
         /\ TaskKept(t, ops, d) => TaskKept(t, more, d)
<1>1. UNION {s.ids : s \in ops} \subseteq UNION {s.ids : s \in more}
  OBVIOUS
<1>2. \A y : MadeOf(y, ops) => MadeOf(y, more)
  BY <1>1 DEF MadeOf
<1>3. RowsKept(d, ops) => RowsKept(d, more)
  BY <1>1 DEF RowsKept
<1>4. TaskKept(t, ops, d) => TaskKept(t, more, d)
  BY <1>2 DEF TaskKept
<1> QED
  BY <1>2, <1>3, <1>4

\* What the journal holds after put says what both said.
LEMMA ResolveKeeps ==
  ASSUME OneMethod, NEW raw \in Origins, NEW e, NEW x, MadeFrom(e, raw), MadeFrom(x, raw),
         NEW ops, MadeOf(e, ops), x \in ops
  PROVE  LET z == Resolve(e, x).op IN
         Outdone(e, z) /\ Outdone(x, z) /\ MadeOf(z, ops)
<1> DEFINE z == Resolve(e, x).op
<1>1. e.method = x.method /\ x.method \in {"set", "merge"}
  BY AllOne
<1>2. CASE x.method = "set"
  <2>1. ~Absorbed(e, x) /\ ~Absorbed(x, e)
    BY <1>1, <1>2 DEF Absorbed
  <2>2. SameOrder(e, x) => e = x
    BY MadeCompare DEF SameOrder
  <2>3. z = IF e # x /\ ~Before(x, e) THEN x ELSE e
    BY <1>1, <1>2, <2>1, <2>2 DEF Resolve
  <2>4. Outdone(e, x) \/ Before(x, e)
    BY <1>1, <1>2, SetsOrdered
  <2>5. Outdone(e, e) /\ Outdone(x, x)
    BY <1>1, <1>2 DEF Outdone
  <2>6. Before(x, e) => Outdone(x, e)
    BY <1>2 DEF Outdone
  <2>7. MadeOf(x, ops)
    BY DEF MadeOf
  <2> HIDE DEF z
  <2>8. Outdone(e, z) /\ Outdone(x, z) /\ MadeOf(z, ops)
    BY <2>3, <2>4, <2>5, <2>6, <2>7
  <2> QED
    BY <2>8 DEF z
<1>3. CASE x.method = "merge"
  <2>1. z \in {e, x, MergeOps(e, x)}
    BY DEF Resolve
  <2>2. z.ids = e.ids \cup x.ids /\ z.method = "merge"
    <3>1. CASE Absorbed(e, x)
      BY <1>1, <1>3, <3>1 DEF Resolve, Absorbed
    <3>2. CASE ~Absorbed(e, x) /\ Absorbed(x, e)
      BY <1>1, <1>3, <3>2 DEF Resolve, Absorbed
    <3>3. CASE ~Absorbed(e, x) /\ ~Absorbed(x, e)
      <4>1. ~SameOrder(e, x)
        BY <1>1, <1>3, <3>3 DEF Absorbed, SameOrder
      <4>2. z = MergeOps(e, x)
        BY <1>1, <1>3, <3>3, <4>1 DEF Resolve
      <4> QED
        BY <4>2 DEF MergeOps
    <3> QED
      BY <3>1, <3>2, <3>3
  <2> HIDE DEF z
  <2>3. e.ids \subseteq UNION {s.ids : s \in ops} /\ x.ids \subseteq UNION {s.ids : s \in ops}
    BY DEF MadeOf
  <2>4. Outdone(e, z) /\ Outdone(x, z)
    BY <1>1, <1>3, <2>2 DEF Outdone
  <2>5. MadeOf(z, ops)
    BY <2>2, <2>3 DEF MadeOf
  <2> QED
    BY <2>4, <2>5 DEF z
<1> QED
  BY <1>1, <1>2, <1>3

\* The rows after a replacement is applied.
LEMMA ApplySet ==
  ASSUME OneMethod, NEW raw \in Origins, NEW ops, AllFrom(ops, raw),
         NEW d, RowsMade(d, raw), RowsKept(d, ops),
         NEW op \in ops, op.method = "set"
  PROVE  LET new == Apply(d, op).rows IN
         /\ Apply(d, op).answer # "refused"
         /\ RowsKept(new, ops)
         /\ new # EmptyRows
         /\ Outdone(op, new.receipt.op)
         /\ d # EmptyRows => Outdone(d.receipt.op, new.receipt.op)
<1> DEFINE new == Apply(d, op).rows
<1>1. MadeFrom(op, raw)
  BY DEF AllFrom
<1>2. op \in Operation /\ op.ids # {} /\ RowsSound(d) /\ d \in Rows
  BY <1>1 DEF MadeFrom, RowsMade, RowsSound
<1>3. d # EmptyRows => /\ MadeFrom(d.receipt.op, raw) /\ d.receipt.op.method = "set"
                       /\ d.receipt.op \in ops
  <2>1. ASSUME d # EmptyRows
        PROVE  MadeFrom(d.receipt.op, raw) /\ d.receipt.op.method = "set"
    <3>1. MadeFrom(d.receipt.op, raw)
      BY <2>1 DEF RowsMade
    <3>2. d.receipt.op.method = op.method
      BY <1>1, <3>1, AllOne
    <3> QED
      BY <3>1, <3>2
  <2> QED
    BY <2>1 DEF RowsKept
<1>4. d.merged = {}
  BY <1>3 DEF RowsKept, EmptyRows
<1>5. ~AlreadyIn(d, op)
  BY <1>2, <1>4 DEF AlreadyIn
<1>6. BarrierSupersedes(op, d.barrier) => d # EmptyRows /\ Before(op, d.receipt.op)
  <2>1. d = EmptyRows => ~BarrierSupersedes(op, d.barrier)
    BY DEF EmptyRows, NoBarrier, BarrierSupersedes
  <2>2. ASSUME d # EmptyRows, BarrierSupersedes(op, d.barrier)
        PROVE  Before(op, d.receipt.op)
    <3>1. d.barrier = IF Kind = "progress"
                      THEN [kind |-> "progress_reset", rev |-> d.receipt.op.rev,
                            ids |-> d.receipt.op.ids, at |-> d.receipt.op.at]
                      ELSE NoBarrier
      BY <1>3, <2>2 DEF RowsKept
    <3>2. /\ d.barrier.kind = "progress_reset" /\ d.barrier.rev = d.receipt.op.rev
          /\ d.barrier.ids = d.receipt.op.ids
      BY <2>2, <3>1 DEF BarrierSupersedes, NoBarrier
    <3>3. Before(op, d.barrier)
      BY <2>2, <3>2 DEF BarrierSupersedes
    <3> QED
      BY <3>2, <3>3 DEF Before
  <2> QED
    BY <2>1, <2>2
<1>7. /\ d = EmptyRows => Ordering(d, op) = "committed"
      /\ d # EmptyRows =>
           Ordering(d, op) = IF op = d.receipt.op THEN "duplicate"
                             ELSE IF ~Before(op, d.receipt.op) THEN "committed"
                             ELSE "superseded"
  <2>1. d # EmptyRows => (SameOrder(op, d.receipt.op) <=> op = d.receipt.op)
    BY <1>1, <1>3, MadeCompare DEF SameOrder
  <2> QED
    BY <1>2, <2>1, OrderingIs
<1>8. Refused = {}
  BY DEF OneMethod
<1>9. Apply(d, op) = IF d # EmptyRows /\ (op = d.receipt.op \/ Before(op, d.receipt.op))
                     THEN [rows |-> d, answer |-> Apply(d, op).answer]
                     ELSE [rows |-> Commit(d, op, "committed"), answer |-> "committed"]
  <2>1. Apply(d, op) =
          IF BarrierSupersedes(op, d.barrier)
          THEN [rows |-> d, answer |-> "superseded"]
          ELSE IF Ordering(d, op) \in {"conflict", "duplicate", "superseded"}
          THEN [rows |-> d, answer |-> Ordering(d, op)]
          ELSE [rows |-> Commit(d, op, Ordering(d, op)), answer |-> Ordering(d, op)]
    BY <1>2, <1>5, <1>8, ApplyIs
  <2> QED
    BY <1>6, <1>7, <2>1
<1>10. Apply(d, op).answer # "refused"
  <2>1. Apply(d, op).answer \in {"superseded", Ordering(d, op)}
    BY <1>2, <1>5, <1>8, ApplyIs
  <2> QED
    BY <1>7, <2>1
<1>11. CASE d # EmptyRows /\ (op = d.receipt.op \/ Before(op, d.receipt.op))
  <2>1. new = d
    BY <1>9, <1>11
  <2>2. Outdone(op, d.receipt.op) /\ Outdone(d.receipt.op, d.receipt.op)
    BY <1>3, <1>11 DEF Outdone
  <2> QED
    BY <1>10, <1>11, <2>1, <2>2
<1>12. CASE ~(d # EmptyRows /\ (op = d.receipt.op \/ Before(op, d.receipt.op)))
  <2>1. new = Commit(d, op, "committed")
    BY <1>9, <1>12
  <2>2. d.state # "unreadable"
    BY <1>2 DEF RowsSound, EmptyRows
  <2> HIDE DEF new
  <2>3. /\ new # EmptyRows /\ new.value = op.val /\ new.receipt.op = op
        /\ new.barrier = IF Kind = "progress"
                         THEN [kind |-> "progress_reset", rev |-> op.rev,
                               ids |-> op.ids, at |-> op.at]
                         ELSE d.barrier
        /\ new.merged = {}
    <3> DEFINE c == Commit(d, op, "committed")
    <3>1. /\ c # EmptyRows
          /\ c.value = IF op.method = "merge" /\ Readable(d) THEN d.value \cup op.val
                       ELSE op.val
          /\ c.receipt.op = op
          /\ c.barrier = IF Kind = "progress" /\ op.method = "set"
                         THEN [kind |-> "progress_reset", rev |-> op.rev,
                               ids |-> op.ids, at |-> op.at]
                         ELSE d.barrier
          /\ c.merged = IF op.method = "merge" THEN d.merged \cup op.ids
                        ELSE IF Kind = "progress" THEN {} ELSE d.merged
      BY <1>2, <2>2, CommitLeaves
    <3> HIDE DEF c
    <3>2. new = c
      BY <2>1 DEF c
    <3> QED
      BY <1>4, <3>1, <3>2
  <2>4. Kind # "progress" => d.barrier = NoBarrier
    BY <1>3 DEF RowsKept, EmptyRows
  <2>5. RowsKept(new, ops)
    BY <2>3, <2>4 DEF RowsKept
  <2>6. Outdone(op, op)
    BY DEF Outdone
  <2>7. d # EmptyRows => Outdone(d.receipt.op, op)
    BY <1>1, <1>3, <1>12, SetsOrdered
  <2> QED
    BY <1>10, <2>3, <2>5, <2>6, <2>7 DEF new
<1> QED
  BY <1>11, <1>12

\* The rows after a merge is applied.
LEMMA ApplyMerge ==
  ASSUME OneMethod, NEW raw \in Origins, NEW ops,
         NEW d, RowsMade(d, raw), RowsKept(d, ops),
         NEW op, MadeFrom(op, raw), MadeOf(op, ops), op.method = "merge"
  PROVE  LET new == Apply(d, op).rows IN
         /\ Apply(d, op).answer # "refused"
         /\ RowsKept(new, ops)
         /\ op.ids \subseteq new.value
         /\ d.value \subseteq new.value
<1> DEFINE new == Apply(d, op).rows
<1>1. op \in Operation /\ op.ids # {} /\ op.val = op.ids /\ RowsSound(d) /\ d \in Rows
  BY DEF MadeFrom, RowsMade, RowsSound
<1>2. op.ids \subseteq UNION {s.ids : s \in ops}
  BY DEF MadeOf
<1>3. d # EmptyRows => MadeFrom(d.receipt.op, raw) /\ d.receipt.op.method = "merge"
  <2>1. ASSUME d # EmptyRows
        PROVE  MadeFrom(d.receipt.op, raw) /\ d.receipt.op.method = "merge"
    <3>1. MadeFrom(d.receipt.op, raw)
      BY <2>1 DEF RowsMade
    <3>2. d.receipt.op.method = op.method
      BY <3>1, AllOne
    <3> QED
      BY <3>1, <3>2
  <2> QED
    BY <2>1
<1>4. /\ d.merged \subseteq d.value /\ d.barrier = NoBarrier
      /\ d.value \subseteq UNION {s.ids : s \in ops}
      /\ d # EmptyRows => d.receipt.op.ids \subseteq d.value
  BY <1>3 DEF RowsKept, EmptyRows
<1>5. ~BarrierSupersedes(op, d.barrier)
  BY <1>4 DEF BarrierSupersedes, NoBarrier
<1>6. /\ d = EmptyRows => Ordering(d, op) = "committed"
      /\ d # EmptyRows =>
           Ordering(d, op) = IF op = d.receipt.op THEN "duplicate"
                             ELSE IF ~Before(op, d.receipt.op) THEN "committed"
                             ELSE "merged_stale"
  <2>1. d # EmptyRows => (SameOrder(op, d.receipt.op) <=> op = d.receipt.op)
    BY <1>3, MadeCompare DEF SameOrder
  <2> QED
    BY <1>1, <1>3, <2>1, OrderingIs
<1>7. Refused = {}
  BY DEF OneMethod
<1> DEFINE answer == Ordering(d, op)
<1>8. Apply(d, op) =
        IF AlreadyIn(d, op) THEN [rows |-> d, answer |-> "duplicate"]
        ELSE IF answer \in {"conflict", "duplicate", "superseded"}
        THEN [rows |-> d, answer |-> answer]
        ELSE [rows |-> Commit(d, op, answer), answer |-> answer]
  BY <1>1, <1>5, <1>7, ApplyIs
<1>9. /\ answer \in {"committed", "duplicate", "merged_stale"}
      /\ answer = "merged_stale" => d # EmptyRows
      /\ answer = "duplicate" => d # EmptyRows /\ op = d.receipt.op
  BY <1>6
<1> HIDE DEF answer
<1>10. Apply(d, op).answer # "refused"
  BY <1>8, <1>9
<1>11. CASE AlreadyIn(d, op)
  <2>1. new = d
    BY <1>8, <1>11
  <2>2. op.ids \subseteq d.value
    BY <1>4, <1>11 DEF AlreadyIn
  <2> QED
    BY <1>10, <2>1, <2>2
<1>12. CASE ~AlreadyIn(d, op) /\ answer = "duplicate"
  <2>1. new = d
    BY <1>8, <1>12
  <2>2. op.ids \subseteq d.value
    BY <1>4, <1>9, <1>12
  <2> QED
    BY <1>10, <2>1, <2>2
<1>13. CASE ~AlreadyIn(d, op) /\ answer = "committed"
  <2> DEFINE c == Commit(d, op, "committed")
  <2>1. d.state # "unreadable"
    BY <1>1 DEF RowsSound, EmptyRows
  <2>2. /\ c.value = IF op.method = "merge" /\ Readable(d) THEN d.value \cup op.val
                     ELSE op.val
        /\ c.receipt.op = op
        /\ c.barrier = IF Kind = "progress" /\ op.method = "set"
                       THEN [kind |-> "progress_reset", rev |-> op.rev,
                             ids |-> op.ids, at |-> op.at]
                       ELSE d.barrier
        /\ c.merged = IF op.method = "merge" THEN d.merged \cup op.ids
                      ELSE IF Kind = "progress" THEN {} ELSE d.merged
    BY <1>1, <2>1, CommitLeaves
  <2> HIDE DEF c
  <2>3. ~Readable(d) => d.value = {}
    BY <1>1 DEF RowsSound, Readable, EmptyRows
  <2>4. c.value = d.value \cup op.ids
    BY <1>1, <2>2, <2>3
  <2>5. c.barrier = NoBarrier /\ c.merged \subseteq c.value
    BY <1>4, <2>2, <2>4
  <2>6. c.value \subseteq UNION {s.ids : s \in ops}
    BY <1>2, <1>4, <2>4
  <2>7. RowsKept(c, ops)
    BY <2>2, <2>4, <2>5, <2>6 DEF RowsKept
  <2>8. new = c
    BY <1>8, <1>13 DEF c
  <2> QED
    BY <1>10, <2>4, <2>7, <2>8
<1>14. CASE ~AlreadyIn(d, op) /\ answer = "merged_stale"
  <2> DEFINE c == Commit(d, op, "merged_stale")
  <2>1. /\ c.value = d.value \cup op.val
        /\ c.receipt.op = d.receipt.op
        /\ c.barrier = d.barrier
        /\ c.merged = d.merged \cup op.ids
    BY <1>1, <1>9, <1>14, StaleLeaves
  <2> HIDE DEF c
  <2>2. c.value = d.value \cup op.ids
    BY <1>1, <2>1
  <2>3. c.value \subseteq UNION {s.ids : s \in ops}
    BY <1>2, <1>4, <2>2
  <2>4. RowsKept(c, ops)
    BY <1>3, <1>4, <1>9, <1>14, <2>1, <2>2, <2>3 DEF RowsKept
  <2>5. new = c
    BY <1>8, <1>14 DEF c
  <2> QED
    BY <1>10, <2>2, <2>4, <2>5
<1> QED
  BY <1>9, <1>11, <1>12, <1>13, <1>14

\* Either way: the rows say what the operation says, and all they said before;
\* nothing is refused.
LEMMA ApplyKeeps ==
  ASSUME OneMethod, NEW raw \in Origins, NEW ops, AllFrom(ops, raw),
         NEW d, RowsMade(d, raw), RowsKept(d, ops),
         NEW op, MadeFrom(op, raw), MadeOf(op, ops)
  PROVE  LET new == Apply(d, op).rows IN
         /\ Apply(d, op).answer # "refused"
         /\ RowsKept(new, ops)
         /\ InRows(op, new)
         /\ \A x : MadeFrom(x, raw) /\ InRows(x, d) => InRows(x, new)
<1>1. op.method \in {"set", "merge"}
  BY AllOne
<1> DEFINE new == Apply(d, op).rows
<1>2. CASE op.method = "set"
  <2>1. op \in ops
    BY <1>2 DEF MadeOf
  <2>2. /\ Apply(d, op).answer # "refused" /\ RowsKept(new, ops)
        /\ new # EmptyRows /\ Outdone(op, new.receipt.op)
        /\ d # EmptyRows => Outdone(d.receipt.op, new.receipt.op)
    BY <1>2, <2>1, ApplySet
  <2>3. RowsMade(new, raw)
    BY ApplyMade
  <2> HIDE DEF new
  <2>4. ASSUME NEW x, MadeFrom(x, raw), InRows(x, d)
        PROVE  InRows(x, new)
    <3>1. x.method = "set" /\ d # EmptyRows
      BY <1>2, <2>4, AllOne, NothingSaid
    <3>2. MadeFrom(d.receipt.op, raw) /\ MadeFrom(new.receipt.op, raw)
      BY <2>2, <2>3, <3>1 DEF RowsMade
    <3>3. Outdone(x, d.receipt.op)
      BY <2>4, <3>1 DEF InRows
    <3>4. Outdone(x, new.receipt.op)
      BY <2>2, <2>4, <3>1, <3>2, <3>3, OutdoneAgain
    <3> QED
      BY <3>1, <3>4 DEF InRows
  <2>5. InRows(op, new)
    BY <1>2, <2>2 DEF InRows
  <2> QED
    BY <2>2, <2>4, <2>5 DEF new
<1>3. CASE op.method = "merge"
  <2>1. /\ Apply(d, op).answer # "refused" /\ RowsKept(new, ops)
        /\ op.ids \subseteq new.value /\ d.value \subseteq new.value
    BY <1>3, ApplyMerge
  <2> HIDE DEF new
  <2>2. ASSUME NEW x, MadeFrom(x, raw), InRows(x, d)
        PROVE  InRows(x, new)
    <3>1. x.method = "merge"
      BY <1>3, <2>2, AllOne
    <3> QED
      BY <2>1, <2>2, <3>1 DEF InRows
  <2>3. InRows(op, new)
    BY <1>3, <2>1 DEF InRows
  <2> QED
    BY <2>1, <2>2, <2>3 DEF new
<1> QED
  BY <1>1, <1>2, <1>3

-----------------------------------------------------------------------------
(***************************************************************************)
(* It is kept by every action.                                             *)
(***************************************************************************)
LEMMA TaskKeptPut ==
  ASSUME NEW ts, DOMAIN ts = Procs, NEW ops, NEW d, TasksKept(ts, ops, d),
         NEW p \in Procs, NEW t, TaskKept(t, ops, d)
  PROVE  TasksKept([ts EXCEPT ![p] = t], ops, d)
  BY DEF TasksKept

LEMMA TaskKeptGoes ==
  ASSUME NEW ts \in [Procs -> Tasks], NEW ops, NEW d, TasksKept(ts, ops, d),
         NEW p \in Procs, NEW step \in Steps,
         step \notin Refusing, step = "clean" => InRows(ts[p].op, d)
  PROVE  TasksKept([ts EXCEPT ![p].step = step], ops, d)
<1> DEFINE t == [ts[p] EXCEPT !.step = step]
<1>1. ts[p] \in Tasks /\ TaskKept(ts[p], ops, d)
  BY DEF TasksKept
<1>2. t.step = step /\ t.op = ts[p].op
  BY <1>1 DEF Tasks
<1>3. t.journaled = ts[p].journaled
  BY <1>1 DEF Tasks
<1> HIDE DEF t
<1>4. t.journaled => MadeOf(t.op, ops)
  <2>1. ts[p].journaled => MadeOf(ts[p].op, ops)
    BY <1>1 DEF TaskKept
  <2> QED
    BY <1>2, <1>3, <2>1
<1>5. TaskKept(t, ops, d)
  BY <1>2, <1>4 DEF TaskKept
<1>6. TasksKept([ts EXCEPT ![p] = t], ops, d)
  BY <1>5, TaskKeptPut
<1>7. [ts EXCEPT ![p].step = step] = [ts EXCEPT ![p] = t]
  BY DEF t
<1> QED
  BY <1>6, <1>7

\* Tasks that start, end, or have the journal in hand.
LEMMA TaskKeptAt ==
  ASSUME NEW ops, NEW d
  PROVE  /\ TaskKept(Idle, ops, d)
         /\ TaskKept([Idle EXCEPT !.step = "down"], ops, d)
         /\ \A x : TaskKept([Idle EXCEPT !.step = "put", !.op = x], ops, d)
         /\ \A t : t.step = "apply" /\ MadeOf(t.op, ops) => TaskKept(t, ops, d)
<1>1. \A t : t.step = "apply" /\ MadeOf(t.op, ops) => TaskKept(t, ops, d)
  BY DEF TaskKept, Refusing
<1>2. TaskKept(Idle, ops, d)
  BY DEF TaskKept, Refusing, Idle
<1>3. TaskKept([Idle EXCEPT !.step = "down"], ops, d)
  BY DEF TaskKept, Refusing, Idle
<1>4. ASSUME NEW x
      PROVE  TaskKept([Idle EXCEPT !.step = "put", !.op = x], ops, d)
  BY DEF TaskKept, Refusing, Idle
<1> QED
  BY <1>1, <1>2, <1>3, <1>4

LEMMA KeptMoves ==
  ASSUME NEW raw \in Origins, AllMade(raw), Kept, NEW p \in Procs
  PROVE  /\ task \in [Procs -> Tasks] /\ TasksKept(task, published, db)
         /\ Finish(p) => TasksKept(task', published, db)
         /\ \A step \in Steps :
              /\ Goto(p, step) /\ step \notin Refusing
              /\ step = "clean" => InRows(task[p].op, db)
              => TasksKept(task', published, db)
<1>1. task \in [Procs -> Tasks] /\ TasksKept(task, published, db)
  BY DEF AllMade, TasksMade, Kept
<1>2. Finish(p) => TasksKept(task', published, db)
  <2>1. TasksKept([task EXCEPT ![p] = Idle], published, db)
    BY <1>1, TaskKeptAt, TaskKeptPut
  <2> QED
    BY <2>1 DEF Finish
<1>3. ASSUME NEW step \in Steps, Goto(p, step), step \notin Refusing,
             step = "clean" => InRows(task[p].op, db)
      PROVE  TasksKept(task', published, db)
  BY <1>1, <1>3, TaskKeptGoes DEF Goto
<1> QED
  BY <1>1, <1>2, <1>3

\* Steps that publish nothing and leave the journal and the rows.
LEMMA KeptStill ==
  ASSUME Kept, journal' = journal, db' = db, published' = published,
         markers' \subseteq markers, TasksKept(task', published, db)
  PROVE  Kept'
  BY DEF Kept, MarkersKept

LEMMA QueueingKept ==
  ASSUME NEW raw \in Origins, AllMade(raw), Kept, NEW p \in Procs,
         \/ \E method \in Methods, now \in Readings : Submit(p, method, now)
         \/ \E now \in Readings : Allocate(p, now)
         \/ Take(p) \/ RetryHeld(p) \/ Crash(p) \/ Start(p)
  PROVE  Kept'
<1>1. task \in [Procs -> Tasks] /\ TasksKept(task, published, db)
  BY KeptMoves
<1>2. \/ task' = task
      \/ \E x : task' = [task EXCEPT ![p] = [Idle EXCEPT !.step = "put", !.op = x]]
      \/ task' = [task EXCEPT ![p] = [Idle EXCEPT !.step = "down"]]
      \/ task' = [task EXCEPT ![p] = Idle]
  BY DEF Submit, Allocate, Take, RetryHeld, Crash, Start, Finish
<1>3. \E t : /\ task' = task \/ task' = [task EXCEPT ![p] = t]
             /\ TaskKept(t, published, db)
  <2>1. /\ TaskKept(Idle, published, db)
        /\ TaskKept([Idle EXCEPT !.step = "down"], published, db)
        /\ \A x : TaskKept([Idle EXCEPT !.step = "put", !.op = x], published, db)
    BY TaskKeptAt
  <2> QED
    BY <1>2, <2>1
<1>4. TasksKept(task', published, db)
  <2>1. PICK t : /\ task' = task \/ task' = [task EXCEPT ![p] = t]
                 /\ TaskKept(t, published, db)
    BY <1>3
  <2>2. TasksKept([task EXCEPT ![p] = t], published, db)
    BY <1>1, <2>1, TaskKeptPut
  <2> QED
    BY <1>1, <2>1, <2>2
<1>5. journal' = journal /\ db' = db /\ published' = published /\ markers' = markers
  BY DEF Submit, Allocate, Take, RetryHeld, Crash, Start, files
<1> QED
  BY <1>4, <1>5, KeptStill

LEMMA WorkingKept ==
  ASSUME NEW raw \in Origins, AllMade(raw), Kept, NEW p \in Procs,
         \/ PutSuperseded(p) \/ PutAgain(p) \/ PutMark(p) \/ Replay(p)
         \/ ApplyBusy(p) \/ Sweep(p) \/ CleanFails(p)
  PROVE  Kept'
<1>1. /\ task \in [Procs -> Tasks] /\ TasksKept(task, published, db)
      /\ Finish(p) => TasksKept(task', published, db)
  BY KeptMoves
<1>2. CASE PutSuperseded(p) \/ ApplyBusy(p) \/ CleanFails(p)
  <2>1. TasksKept(task', published, db)
    BY <1>1, <1>2 DEF PutSuperseded, ApplyBusy, CleanFails
  <2>2. journal' = journal /\ db' = db /\ published' = published /\ markers' = markers
    BY <1>2 DEF PutSuperseded, ApplyBusy, CleanFails, files
  <2> QED
    BY <2>1, <2>2, KeptStill
<1>3. CASE Sweep(p)
  <2>1. TasksKept(task', published, db)
    BY <1>1, <1>3 DEF Sweep
  <2>2. journal' = journal /\ db' = db /\ published' = published /\ markers' \subseteq markers
    BY <1>3 DEF Sweep
  <2> QED
    BY <2>1, <2>2, KeptStill
<1>4. CASE PutMark(p)
  <2>1. TasksKept(task', published, db)
    <3>1. Goto(p, "replace")
      BY <1>4 DEF PutMark
    <3> QED
      BY <3>1, KeptMoves DEF Steps, Refusing
  <2>2. /\ journal' = journal /\ db' = db /\ published' = published
        /\ markers' = {m \in markers : m.inc # Resolution(p).op}
                      \cup {Marker("prepared", Resolution(p).op, journal)}
    BY <1>4 DEF PutMark
  <2>3. MarkersKept(markers', published)
    <3>1. MarkersKept(markers, published) /\ (journal = NoOp \/ MadeOf(journal, published))
      BY DEF Kept
    <3> DEFINE m == Marker("prepared", Resolution(p).op, journal)
    <3>2. m.phase = "prepared" /\ m.prev = journal
      BY DEF Marker
    <3>3. \A n \in markers' : n \in markers \/ n = m
      BY <2>2
    <3> HIDE DEF m
    <3> QED
      BY <3>1, <3>2, <3>3 DEF MarkersKept
  <2> QED
    BY <2>1, <2>2, <2>3 DEF Kept
<1>5. CASE PutAgain(p) \/ Replay(p)
  <2>1. \E t : /\ task' = [task EXCEPT ![p] = t]
               /\ t.step = "apply" /\ t.op = journal /\ journal # NoOp
    <3>1. CASE PutAgain(p)
      <4> DEFINE t == [task[p] EXCEPT !.step = "apply", !.prev = journal,
                                      !.journaled = TRUE]
      <4>1. task[p] \in Tasks /\ journal = task[p].op
        BY <1>1, <3>1 DEF PutAgain
      <4>2. t.step = "apply" /\ t.op = journal
        BY <4>1 DEF Tasks
      <4>3. task' = [task EXCEPT ![p] = t]
        BY <3>1 DEF PutAgain
      <4>4. journal # NoOp
        <5>1. task[p].step = "put"
          BY <3>1 DEF PutAgain
        <5>2. task[p].op \in Operation
          BY <5>1, AtWork
        <5> QED
          BY <4>1, <5>2, NoOperation
      <4> HIDE DEF t
      <4> QED
        BY <4>2, <4>3, <4>4
    <3>2. CASE Replay(p)
      <4> DEFINE t == [Idle EXCEPT !.step = "apply", !.op = journal,
                                   !.journaled = TRUE, !.replay = TRUE]
      <4>1. t.step = "apply" /\ t.op = journal
        BY DEF Idle
      <4>2. task' = [task EXCEPT ![p] = t] /\ journal # NoOp
        BY <3>2 DEF Replay
      <4> HIDE DEF t
      <4> QED
        BY <4>1, <4>2
    <3> QED
      BY <1>5, <3>1, <3>2
  <2>2. TasksKept(task', published, db)
    <3>1. PICK t : /\ task' = [task EXCEPT ![p] = t]
                   /\ t.step = "apply" /\ t.op = journal /\ journal # NoOp
      BY <2>1
    <3>2. MadeOf(t.op, published)
      BY <3>1 DEF Kept
    <3>3. TaskKept(t, published, db)
      BY <3>1, <3>2, TaskKeptAt
    <3>4. TasksKept([task EXCEPT ![p] = t], published, db)
      BY <1>1, <3>3, TaskKeptPut
    <3> QED
      BY <3>1, <3>4
  <2>3. journal' = journal /\ db' = db /\ published' = published /\ markers' = markers
    BY <1>5 DEF PutAgain, Replay, files
  <2> QED
    BY <2>2, <2>3, KeptStill
<1> QED
  BY <1>2, <1>3, <1>4, <1>5

\* What put leaves in the journal says what was there and what was put.
LEMMA PutSays ==
  ASSUME OneMethod, NEW raw \in Origins, AllMade(raw), Kept, NEW p \in Procs,
         task[p].step \in {"put", "replace"},
         NEW new, new = Resolution(p).op,
         NEW more, more = published \cup {task[p].op}
  PROVE  MadeOf(new, more) /\ AllSaid(more, new, db)
<1>1. /\ MadeFrom(task[p].op, raw) /\ MadeFrom(new, raw)
      /\ journal # NoOp => MadeFrom(journal, raw)
      /\ AllFrom(published, raw)
  BY AtWork, ResolutionMade DEF AllMade
<1>2. /\ MadeOf(new, more) /\ Outdone(task[p].op, new)
      /\ journal # NoOp => Outdone(journal, new)
  <2>1. CASE journal = NoOp
    <3>1. new = task[p].op
      BY <2>1 DEF Resolution
    <3>2. Outdone(new, new)
      BY DEF Outdone
    <3> QED
      BY <2>1, <3>1, <3>2 DEF MadeOf
  <2>2. CASE journal # NoOp
    <3>1. new = Resolve(journal, task[p].op).op
      BY <2>2 DEF Resolution
    <3>2. MadeOf(journal, more) /\ task[p].op \in more
      BY <2>2, MadeOfMore DEF Kept
    <3> QED
      BY <1>1, <2>2, <3>1, <3>2, ResolveKeeps
  <2> QED
    BY <2>1, <2>2
<1>3. ASSUME NEW s \in more
      PROVE  Outdone(s, new) \/ InRows(s, db)
  <2>1. CASE s = task[p].op
    BY <1>2, <2>1
  <2>2. CASE s \in published /\ Outdone(s, journal)
    <3>1. MadeFrom(s, raw)
      BY <1>1, <2>2 DEF AllFrom
    <3>2. journal # NoOp
      BY <2>2, <3>1, NothingSaid
    <3> QED
      BY <1>1, <1>2, <2>2, <3>1, <3>2, OutdoneAgain
  <2>3. CASE s \in published /\ InRows(s, db)
    BY <2>3
  <2> QED
    BY <2>1, <2>2, <2>3 DEF Kept, AllSaid
<1> QED
  BY <1>2, <1>3 DEF AllSaid

LEMMA PutKept ==
  ASSUME OneMethod, NEW raw \in Origins, AllMade(raw), Kept, NEW p \in Procs,
         PutReplace(p) \/ PutFails(p)
  PROVE  Kept'
<1>1. /\ task \in [Procs -> Tasks] /\ TasksKept(task, published, db)
      /\ task[p].step \in {"put", "replace"}
  BY KeptMoves DEF PutReplace, PutFails, ReadyToReplace
<1>2. db' = db /\ markers' = markers
  BY DEF PutReplace, PutFails
<1>3. PICK new : new = Resolution(p).op
  OBVIOUS
<1> DEFINE more == published \cup {task[p].op}
<1>4. MadeOf(new, more) /\ AllSaid(more, new, db)
  BY <1>1, <1>3, PutSays
<1>5. /\ RowsKept(db, more) /\ MarkersKept(markers, more) /\ TasksKept(task, more, db)
  BY MadeOfMore DEF Kept, MarkersKept, TasksKept
<1> HIDE DEF more
<1>6. CASE PutFails(p)
  <2>1. TasksKept(task', published, db)
    <3>1. Goto(p, "apply")
      BY <1>6 DEF PutFails
    <3> QED
      BY <3>1, KeptMoves DEF Steps, Refusing
  <2>2. CASE journal' = journal /\ published' = published
    BY <1>2, <2>1, <2>2, KeptStill
  <2>3. CASE journal' = new /\ published' = more
    <3>1. TasksKept(task', more, db)
      BY <2>1, MadeOfMore DEF TasksKept, more
    <3> QED
      BY <1>2, <1>4, <1>5, <2>3, <3>1 DEF Kept
  <2> QED
    BY <1>3, <1>6, <2>2, <2>3 DEF PutFails, more
<1>7. CASE PutReplace(p)
  <2>1. journal' = new /\ published' = more
    BY <1>3, <1>7 DEF PutReplace, more
  <2> DEFINE t == [task[p] EXCEPT !.step = "apply", !.op = new, !.prev = journal,
                                  !.journaled = TRUE]
  <2>2. task' = [task EXCEPT ![p] = t]
    BY <1>7, <2>1 DEF PutReplace
  <2>3. t.step = "apply" /\ t.op = new
    BY <1>1 DEF Tasks
  <2> HIDE DEF t
  <2>4. TaskKept(t, more, db)
    BY <1>4, <2>3, TaskKeptAt
  <2>5. TasksKept(task', more, db)
    BY <1>1, <1>5, <2>2, <2>4, TaskKeptPut
  <2> QED
    BY <1>2, <1>4, <1>5, <2>1, <2>5 DEF Kept
<1> QED
  BY <1>6, <1>7

LEMMA ApplyDoneKept ==
  ASSUME OneMethod, NEW raw \in Origins, AllMade(raw), Kept, NEW p \in Procs, ApplyDone(p)
  PROVE  Kept'
<1>1. /\ task \in [Procs -> Tasks] /\ TasksKept(task, published, db)
      /\ task[p].step = "apply" /\ task[p] \in Tasks
  BY KeptMoves DEF ApplyDone, Applying
<1>2. PICK op : op = task[p].op
  OBVIOUS
<1>3. MadeFrom(op, raw) /\ AllFrom(published, raw) /\ RowsMade(db, raw)
  BY <1>1, <1>2, AtWork DEF AllMade
<1>4. PICK more : more = published'
  OBVIOUS
<1>5. /\ more = published \/ more = published \cup {op}
      /\ MadeOf(op, more)
  <2>1. CASE task[p].journaled
    <3>1. published' = published
      BY <2>1 DEF ApplyDone
    <3>2. MadeOf(task[p].op, published)
      BY <1>1, <2>1 DEF TasksKept, TaskKept
    <3> QED
      BY <1>2, <1>4, <3>1, <3>2
  <2>2. CASE ~task[p].journaled
    <3>1. published' = published \cup {op}
      BY <1>2, <2>2 DEF ApplyDone
    <3> QED
      BY <1>4, <3>1 DEF MadeOf
  <2> QED
    BY <2>1, <2>2
<1>6. published \subseteq more /\ AllFrom(more, raw)
  BY <1>3, <1>5 DEF AllFrom
<1>7. PICK new : new = Apply(db, op).rows
  OBVIOUS
<1>8. /\ RowsKept(new, more) /\ InRows(op, new)
      /\ \A x : MadeFrom(x, raw) /\ InRows(x, db) => InRows(x, new)
  <2>1. RowsKept(db, more)
    BY <1>6, MadeOfMore DEF Kept
  <2> QED
    BY <1>3, <1>5, <1>6, <1>7, <2>1, ApplyKeeps
<1>9. db' = new /\ journal' = journal /\ markers' = markers
  BY <1>2, <1>7 DEF ApplyDone
<1>10. TasksKept(task, more, new)
  <2>1. ASSUME NEW q \in Procs
        PROVE  TaskKept(task[q], more, new)
    <3>1. TaskKept(task[q], published, db)
      BY <1>1 DEF TasksKept
    <3>2. TaskKept(task[q], more, db)
      BY <1>6, <3>1, MadeOfMore
    <3>3. task[q].step = "clean" => InRows(task[q].op, new)
      <4>1. ASSUME task[q].step = "clean"
            PROVE  InRows(task[q].op, new)
        <5>1. MadeFrom(task[q].op, raw)
          BY <4>1, AtWork
        <5>2. InRows(task[q].op, db)
          BY <3>1, <4>1 DEF TaskKept
        <5> QED
          BY <1>8, <5>1, <5>2
      <4> QED
        BY <4>1
    <3> QED
      BY <3>2, <3>3 DEF TaskKept
  <2> QED
    BY <2>1 DEF TasksKept
<1>11. TasksKept(task', more, new)
  <2>1. CASE Goto(p, "clean")
    <3>1. InRows(task[p].op, new) /\ "clean" \in Steps /\ "clean" \notin Refusing
      BY <1>2, <1>8 DEF Steps, Refusing
    <3>2. TasksKept([task EXCEPT ![p].step = "clean"], more, new)
      BY <1>1, <1>10, <3>1, TaskKeptGoes
    <3> QED
      BY <2>1, <3>2 DEF Goto
  <2>2. CASE Finish(p)
    <3>1. TasksKept([task EXCEPT ![p] = Idle], more, new)
      BY <1>1, <1>10, TaskKeptAt, TaskKeptPut
    <3> QED
      BY <2>2, <3>1 DEF Finish
  <2> QED
    BY <2>1, <2>2 DEF ApplyDone
<1>12. AllSaid(more, journal, new)
  <2>1. ASSUME NEW s \in more
        PROVE  Outdone(s, journal) \/ InRows(s, new)
    <3>1. CASE s = op
      BY <1>8, <3>1
    <3>2. CASE s \in published
      <4>1. MadeFrom(s, raw)
        BY <1>3, <3>2 DEF AllFrom
      <4>2. Outdone(s, journal) \/ InRows(s, db)
        BY <3>2 DEF Kept, AllSaid
      <4> QED
        BY <1>8, <4>1, <4>2
    <3> QED
      BY <1>5, <3>1, <3>2
  <2> QED
    BY <2>1 DEF AllSaid
<1>13. /\ journal = NoOp \/ MadeOf(journal, more)
       /\ MarkersKept(markers, more)
  BY <1>6, MadeOfMore DEF Kept, MarkersKept
<1> QED
  BY <1>4, <1>8, <1>9, <1>11, <1>12, <1>13 DEF Kept

\* The journal is removed when the rows say what it says.
LEMMA CleanKept ==
  ASSUME OneMethod, NEW raw \in Origins, AllMade(raw), Kept, NEW p \in Procs, Clean(p)
  PROVE  Kept'
<1>1. /\ Finish(p) => TasksKept(task', published, db)
      /\ Goto(p, "sweep") => TasksKept(task', published, db)
      /\ TasksKept(task, published, db)
  BY KeptMoves DEF Steps, Refusing
<1>2. /\ task[p].step = "clean" /\ TasksKept(task', published, db)
      /\ db' = db /\ published' = published /\ markers' = markers
  BY <1>1 DEF Clean
<1>3. CASE journal # task[p].op
  <2>1. journal' = journal
    BY <1>3 DEF Clean
  <2> QED
    BY <1>2, <2>1, KeptStill
<1>4. CASE journal = task[p].op
  <2>1. journal' = NoOp
    BY <1>4 DEF Clean
  <2>2. MadeFrom(journal, raw) /\ InRows(journal, db) /\ RowsMade(db, raw)
    BY <1>1, <1>2, <1>4, AtWork DEF TasksKept, TaskKept, AllMade
  <2>3. ASSUME NEW s \in published
        PROVE  InRows(s, db)
    <3>1. MadeFrom(s, raw)
      BY DEF AllMade, AllFrom
    <3>2. Outdone(s, journal) \/ InRows(s, db)
      BY DEF Kept, AllSaid
    <3> QED
      BY <2>2, <3>1, <3>2, InRowsAgain
  <2>4. AllSaid(published, NoOp, db)
    BY <2>3 DEF AllSaid
  <2> QED
    BY <1>2, <2>1, <2>4 DEF Kept
<1> QED
  BY <1>3, <1>4

\* Nothing is refused, so nothing is rejected or restored.
LEMMA NothingRefused ==
  ASSUME OneMethod, NEW raw \in Origins, AllMade(raw), Kept, NEW p \in Procs,
         \/ ApplyRefused(p) \/ Reject(p) \/ Drop(p) \/ Restore(p) \/ Unmark(p)
         \/ RejectFails(p)
  PROVE  FALSE
<1>1. TaskKept(task[p], published, db)
  BY DEF Kept, TasksKept
<1>2. ASSUME ApplyRefused(p)
      PROVE  FALSE
  <2>1. task[p].step = "apply" /\ Apply(db, task[p].op).answer = "refused"
    BY <1>2 DEF ApplyRefused, Applying, Answer
  <2>2. PICK op : op = task[p].op
    OBVIOUS
  <2>3. /\ op \in Operation /\ op.ids # {} /\ RowsSound(db)
        /\ MadeFrom(op, raw) /\ RowsMade(db, raw)
    BY <2>1, <2>2, AtWork DEF MadeFrom, AllMade, RowsMade
  <2>4. Ordering(db, op) # "refused"
    BY <2>3, OrderingIs
  <2>5. Refused = {}
    BY DEF OneMethod
  <2>6. Apply(db, op).answer \in {"duplicate", "superseded", Ordering(db, op)}
    BY <2>3, <2>5, ApplyIs
  <2> QED
    BY <2>1, <2>2, <2>4, <2>6
<1>3. ~(Reject(p) \/ Drop(p) \/ Restore(p) \/ Unmark(p) \/ RejectFails(p))
  BY <1>1 DEF TaskKept, Refusing, Reject, Drop, Restore, Unmark, RejectFails
<1> QED
  BY <1>2, <1>3

LEMMA RecoverKept ==
  ASSUME NEW raw \in Origins, AllMade(raw), Kept, NEW p \in Procs,
         NEW m \in markers, Recover(p, m)
  PROVE  Kept'
<1>1. /\ db' = db /\ published' = published /\ task' = task /\ markers' \subseteq markers
      /\ journal' = AfterRecovery(m)
  BY DEF Recover, memory
<1>2. m.phase = "prepared" /\ (m.prev = NoOp \/ MadeOf(m.prev, published))
  BY DEF Kept, MarkersKept
<1>3. TasksKept(task', published, db)
  BY <1>1 DEF Kept
<1>4. CASE journal = NoOp
  <2>1. journal' = m.prev
    BY <1>1, <1>2, <1>4 DEF AfterRecovery
  <2>2. AllSaid(published, m.prev, db)
    <3>1. ASSUME NEW s \in published
          PROVE  InRows(s, db)
      <4>1. MadeFrom(s, raw)
        BY DEF AllMade, AllFrom
      <4> QED
        BY <1>4, <4>1, NothingSaid DEF Kept, AllSaid
    <3> QED
      BY <3>1 DEF AllSaid
  <2> QED
    BY <1>1, <1>2, <1>3, <2>1, <2>2 DEF Kept, MarkersKept
<1>5. CASE journal # NoOp
  <2>1. journal' = journal
    BY <1>1, <1>2, <1>5 DEF AfterRecovery
  <2> QED
    BY <1>1, <1>3, <2>1, KeptStill
<1> QED
  BY <1>4, <1>5

\* A game's own journal outdoes the one there: its revision is above it.
LEMMA IntentKept ==
  ASSUME SyncBounds, OneMethod, NumbersTyped, NEW raw \in Origins, AllMade(raw), Kept,
         NEW p \in Procs, NEW now \in Readings, Intent(p, now)
  PROVE  Kept'
<1> DEFINE revision == NextRevision(Later(Later(lastRev[p] + 1, now), journal.rev), now)
<1>1. journal.rev < revision /\ revision \in Nat /\ journal.rev \in Nat
  <2>1. now \in Nat /\ journal.rev \in Nat /\ clock \in Nat /\ lastRev[p] + 1 \in Nat
    <3>1. now \in Nat
      BY DEF SyncBounds
    <3> QED
      BY <3>1, AtWork DEF NumbersTyped
  <2>2. PICK a \in Nat : a = Later(lastRev[p] + 1, now)
    BY <2>1, LaterNat
  <2>3. PICK b \in Nat : b = Later(a, journal.rev) /\ journal.rev <= b
    BY <2>1, LaterNat
  <2>4. PICK c \in Nat : c = Later(clock, b) /\ b <= c
    BY <2>1, LaterNat
  <2>5. PICK e \in Nat : e = Later(c + 1, now) /\ c + 1 <= e
    <3>1. PICK k \in Nat : k = c + 1
      BY <2>4
    <3> QED
      BY <2>1, <3>1, LaterNat
  <2>6. revision = e
    BY <2>2, <2>3, <2>4, <2>5 DEF NextRevision
  <2> HIDE DEF revision
  <2> QED
    BY <2>1, <2>3, <2>4, <2>5, <2>6
<1> DEFINE op == [method |-> "set", rev |-> revision, ids |-> {count + 1},
                  at |-> now, val |-> {count + 1}]
<1>2. /\ Intents /\ journal' = op
      /\ markers' = IF journal = NoOp THEN markers
                    ELSE markers \cup {Marker("prepared", op, journal)}
      /\ published' = published \cup {op}
      /\ db' = db /\ task' = task
  BY DEF Intent
<1>3. op.method = "set" /\ op.rev = revision
  OBVIOUS
<1> HIDE DEF revision, op
<1> DEFINE more == published \cup {op}
<1>4. /\ RowsKept(db, more) /\ TasksKept(task, more, db) /\ MarkersKept(markers, more)
      /\ journal = NoOp \/ MadeOf(journal, more)
  BY MadeOfMore DEF Kept, TasksKept, MarkersKept
<1>5. MadeOf(op, more)
  BY DEF MadeOf
<1> HIDE DEF more
<1>6. MarkersKept(markers', more)
  <2> DEFINE m == Marker("prepared", op, journal)
  <2>1. m.phase = "prepared" /\ m.prev = journal
    BY DEF Marker
  <2>2. \A n \in markers' : n \in markers \/ n = m
    BY <1>2
  <2> HIDE DEF m
  <2> QED
    BY <1>4, <2>1, <2>2 DEF MarkersKept
<1>7. AllSaid(more, op, db)
  <2>1. Outdone(op, op)
    BY DEF Outdone
  <2>2. ASSUME NEW s \in published
        PROVE  Outdone(s, op) \/ InRows(s, db)
    <3>1. MadeFrom(s, raw) /\ s.rev \in Nat
      BY DEF AllMade, AllFrom, MadeFrom, Operation
    <3>2. CASE InRows(s, db)
      BY <3>2
    <3>3. CASE Outdone(s, journal)
      <4>1. journal # NoOp
        BY <3>1, <3>3, NothingSaid
      <4>2. s.method = "set"
        BY <1>2, <3>1 DEF OneMethod, MadeFrom, Chosen
      <4>3. s = journal \/ Before(s, journal)
        BY <3>3, <4>2 DEF Outdone
      <4>4. s.rev <= journal.rev
        BY <1>1, <3>1, <4>3 DEF Before
      <4>5. s.rev < op.rev
        BY <1>1, <1>3, <3>1, <4>4
      <4> QED
        BY <4>2, <4>5 DEF Outdone, Before
    <3> QED
      BY <3>2, <3>3 DEF Kept, AllSaid
  <2> QED
    BY <2>1, <2>2 DEF AllSaid, more
<1>8. published' = more
  BY <1>2 DEF more
<1> QED
  BY <1>2, <1>4, <1>5, <1>6, <1>7, <1>8 DEF Kept

LEMMA KeptStep ==
  ASSUME SyncBounds, OneMethod, SyncInv, Kept, [Next]_vars
  PROVE  Kept'
<1>1. PICK raw \in Origins : AllMade(raw)
  BY DEF SyncInv
<1>2. NumbersTyped
  BY DEF SyncInv
<1>3. CASE UNCHANGED vars
  <2>1. TasksKept(task', published, db)
    BY <1>3 DEF vars, memory, Kept
  <2> QED
    BY <1>3, <2>1, KeptStill DEF vars, files
<1>4. ASSUME NEW p \in Procs,
             \/ \E method \in Methods, now \in Readings : Submit(p, method, now)
             \/ \E now \in Readings : Intent(p, now)
      PROVE  Kept'
  BY <1>1, <1>2, <1>4, QueueingKept, IntentKept
<1>5. ASSUME NEW p \in Procs, Write(p)
      PROVE  Kept'
  <2>1. CASE (\E now \in Readings : Allocate(p, now)) \/ Take(p)
    BY <1>1, <2>1, QueueingKept
  <2>2. CASE PutSuperseded(p) \/ PutAgain(p) \/ PutMark(p) \/ Sweep(p)
    BY <1>1, <2>2, WorkingKept
  <2>3. CASE PutReplace(p)
    BY <1>1, <2>3, PutKept
  <2>4. CASE ApplyDone(p)
    BY <1>1, <2>4, ApplyDoneKept
  <2>5. CASE Clean(p)
    BY <1>1, <2>5, CleanKept
  <2>6. CASE ApplyRefused(p) \/ Reject(p) \/ Drop(p) \/ Restore(p) \/ Unmark(p)
    BY <1>1, <2>6, NothingRefused
  <2> QED
    BY <1>5, <2>1, <2>2, <2>3, <2>4, <2>5, <2>6 DEF Write
<1>6. ASSUME NEW p \in Procs, Retry(p)
      PROVE  Kept'
  <2>1. CASE Start(p) \/ RetryHeld(p)
    BY <1>1, <2>1, QueueingKept
  <2>2. CASE Replay(p)
    BY <1>1, <2>2, WorkingKept
  <2>3. ASSUME NEW m \in markers, Recover(p, m)
        PROVE  Kept'
    BY <1>1, <2>3, RecoverKept
  <2> QED
    BY <1>6, <2>1, <2>2, <2>3 DEF Retry
<1>7. ASSUME NEW p \in Procs, Fails(p)
      PROVE  Kept'
  <2>1. CASE PutFails(p)
    BY <1>1, <2>1, PutKept
  <2>2. CASE ApplyBusy(p) \/ CleanFails(p)
    BY <1>1, <2>2, WorkingKept
  <2>3. CASE RejectFails(p)
    BY <1>1, <2>3, NothingRefused
  <2>4. CASE Crash(p)
    BY <1>1, <2>4, QueueingKept
  <2> QED
    BY <1>7, <2>1, <2>2, <2>3, <2>4 DEF Fails
<1> QED
  BY <1>3, <1>4, <1>5, <1>6, <1>7 DEF Next

\* Where nothing is refused and users do one thing, what any published
\* operation says stays said, in the journal or the rows, whatever the number
\* of processes that race, fail, die and retry.
THEOREM KeptInductive ==
  ASSUME SyncBounds, OneMethod
  PROVE  Spec => [](SyncInv /\ Kept)
<1>1. Init => Kept
  <2>1. ASSUME Init
        PROVE  Kept
    <3>1. TasksKept(task, published, db)
      BY <2>1, TaskKeptAt DEF Init, TasksKept
    <3> QED
      BY <2>1, <3>1 DEF Init, Kept, RowsKept, MarkersKept, AllSaid
  <2> QED
    BY <2>1
<1>2. SyncInv /\ Kept /\ [Next]_vars => SyncInv' /\ Kept'
  BY KeptStep, SyncStep
<1>3. Init => SyncInv
  BY SyncInitial
<1> QED
  BY <1>1, <1>2, <1>3, PTL DEF Spec

\* Which operations stand, and where they are, follows from it.
LEMMA StandingKept ==
  ASSUME OneMethod, NEW raw \in Origins, AllMade(raw), Kept, NEW x \in Standing
  PROVE  /\ x \in published /\ MadeFrom(x, raw) /\ x.val = x.ids
         /\ x.ids \subseteq journal.ids \/ x.val \subseteq db.value
<1>1. /\ x \in published /\ MadeFrom(x, raw) /\ x.val = x.ids /\ AllFrom(published, raw)
      /\ MaybeFrom(journal, raw) /\ RowsMade(db, raw)
  BY DEF Standing, AllMade, AllFrom, MadeFrom
<1>2. Outdone(x, journal) \/ InRows(x, db)
  BY <1>1 DEF Kept, AllSaid
<1>3. x.method \in {"set", "merge"}
  BY <1>1, AllOne
<1>4. CASE x.method = "merge"
  BY <1>1, <1>2, <1>4 DEF Outdone, InRows
<1>5. CASE x.method = "set"
  <2>1. ASSUME NEW s \in published
        PROVE  Outdone(s, x)
    <3>1. s.method = "set"
      BY <1>1, <1>5, AllOne DEF AllFrom
    <3>2. s.ids \cap Refused = {}
      BY DEF OneMethod
    <3> QED
      BY <3>1, <3>2 DEF Standing, Outdone
  <2>2. CASE Outdone(x, journal)
    <3>1. journal # NoOp
      BY <1>1, <2>2, NothingSaid
    <3>2. MadeFrom(journal, raw) /\ MadeOf(journal, published)
      BY <1>1, <3>1 DEF MaybeFrom, Kept
    <3>3. journal.method = "set"
      BY <1>1, <1>5, <3>2, AllOne
    <3>4. journal \in published
      BY <3>2, <3>3 DEF MadeOf
    <3>5. Outdone(journal, x)
      BY <2>1, <3>4
    <3>6. x = journal
      BY <1>1, <1>5, <2>2, <3>2, <3>3, <3>5, SetsOrdered
    <3> QED
      BY <1>1, <2>2, <3>6
  <2>3. CASE InRows(x, db)
    <3>1. db # EmptyRows
      BY <1>1, <2>3, NothingSaid
    <3>2. MadeFrom(db.receipt.op, raw)
      BY <1>1, <3>1 DEF RowsMade
    <3>3. db.receipt.op.method = "set"
      BY <1>1, <1>5, <3>2, AllOne
    <3>4. db.receipt.op \in published /\ db.receipt.op.val = db.value
      BY <3>1, <3>3 DEF Kept, RowsKept
    <3>5. Outdone(db.receipt.op, x) /\ Outdone(x, db.receipt.op)
      BY <1>5, <2>1, <2>3, <3>4 DEF InRows
    <3>6. x = db.receipt.op
      BY <1>1, <1>5, <3>2, <3>3, <3>5, SetsOrdered
    <3> QED
      BY <1>1, <3>4, <3>6
  <2> QED
    BY <1>2, <2>2, <2>3
<1> QED
  BY <1>3, <1>4, <1>5

\* What stands is in the journal or in the database at every moment.
THEOREM StandingStays ==
  ASSUME SyncBounds, OneMethod
  PROVE  Spec => []StandingIsSomewhere
<1>1. ASSUME SyncInv, Kept
      PROVE  StandingIsSomewhere
  <2>1. PICK raw \in Origins : AllMade(raw)
    BY <1>1 DEF SyncInv
  <2> QED
    BY <1>1, <2>1, StandingKept DEF StandingIsSomewhere
<1>2. Spec => [](SyncInv /\ Kept)
  BY KeptInductive
<1> QED
  BY <1>1, <1>2, PTL

\* At rest the database has exactly what the published operations amount to:
\* the value of the last replacement, or the union of all merges.
THEOREM NothingLost ==
  ASSUME SyncBounds, OneMethod
  PROVE  Spec => []NothingIsLost
<1>1. ASSUME SyncInv, Kept, journal = NoOp
      PROVE  db.value = UNION {x.val : x \in Standing}
  <2>1. PICK raw \in Origins : AllMade(raw)
    BY <1>1 DEF SyncInv
  <2>2. AllFrom(published, raw) /\ RowsMade(db, raw) /\ RowsKept(db, published)
    BY <1>1, <2>1 DEF AllMade, Kept
  <2>3. ASSUME NEW x \in Standing
        PROVE  x.val \subseteq db.value
    <3>1. /\ MadeFrom(x, raw) /\ x.val = x.ids
          /\ x.ids \subseteq journal.ids \/ x.val \subseteq db.value
      BY <1>1, <2>1, StandingKept
    <3>2. x.ids # {} /\ journal.ids = {}
      BY <1>1, <3>1 DEF MadeFrom, NoOp
    <3> QED
      BY <3>1, <3>2
  <2>4. ASSUME NEW v \in db.value
        PROVE  \E x \in Standing : v \in x.val
    <3>1. db # EmptyRows
      BY DEF EmptyRows
    <3>2. MadeFrom(db.receipt.op, raw)
      BY <2>2, <3>1 DEF RowsMade
    <3>3. CASE db.receipt.op.method = "set"
      <4> DEFINE w == db.receipt.op
      <4>1. w \in published /\ w.val = db.value
        BY <2>2, <3>1, <3>3 DEF RowsKept
      <4>2. ASSUME NEW s \in published
            PROVE  s = w \/ Before(s, w)
        <5>1. MadeFrom(s, raw)
          BY <2>2 DEF AllFrom
        <5>2. s.method = "set"
          BY <1>1, <3>2, <3>3, <5>1, AllOne
        <5>3. InRows(s, db)
          BY <1>1, <5>1, NothingSaid DEF Kept, AllSaid
        <5> QED
          BY <5>2, <5>3 DEF InRows, Outdone
      <4>3. w.ids \cap Refused = {}
        BY DEF OneMethod
      <4> HIDE DEF w
      <4>4. w \in Standing
        BY <4>1, <4>2, <4>3 DEF Standing
      <4> QED
        BY <4>1, <4>4
    <3>4. CASE db.receipt.op.method = "merge"
      <4>1. db.value \subseteq UNION {s.ids : s \in published}
        BY <2>2, <3>1, <3>4 DEF RowsKept
      <4>2. PICK x \in published : v \in x.ids
        BY <4>1
      <4>3. MadeFrom(x, raw) /\ x.val = x.ids
        BY <2>2 DEF AllFrom, MadeFrom
      <4>4. \A s \in published : s.method = "merge"
        BY <1>1, <2>2, <3>2, <3>4, AllOne DEF AllFrom
      <4>5. x.ids \cap Refused = {}
        BY DEF OneMethod
      <4>6. x \in Standing
        BY <4>4, <4>5 DEF Standing
      <4> QED
        BY <4>2, <4>3, <4>6
    <3>5. db.receipt.op.method \in {"set", "merge"}
      BY <1>1, <3>2, AllOne
    <3> QED
      BY <3>3, <3>4, <3>5
  <2> QED
    BY <2>3, <2>4
<1>2. SyncInv /\ Kept => NothingIsLost
  BY <1>1 DEF NothingIsLost, AtRest, Settled
<1>3. Spec => [](SyncInv /\ Kept)
  BY KeptInductive
<1> QED
  BY <1>2, <1>3, PTL

=============================================================================
