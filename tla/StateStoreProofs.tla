-------------------------- MODULE StateStoreProofs --------------------------
(***************************************************************************)
(* Proofs about StateStore and StateStoreFaults, for every set of          *)
(* operations, every kind of key and every set of refused ids.             *)
(***************************************************************************)
EXTENDS StateStoreFaults, TLAPS

\* On operations users make the order is strict and total: revisions first,
\* then the single id of each.
LEMMA OpsOrder ==
  ASSUME NEW a \in Ops, NEW b \in Ops, NEW c \in Ops
  PROVE  /\ ~Before(a, a)
         /\ a # b => Before(a, b) \/ Before(b, a)
         /\ ~(Before(a, b) /\ Before(b, a))
         /\ Before(a, b) /\ Before(b, c) => Before(a, c)
         /\ SameOrder(a, b) => a = b
<1>1. PICK i \in Ids, j \in Ids, k \in Ids : a.ids = {i} /\ b.ids = {j} /\ c.ids = {k}
  BY OpsAssumption
<1>2. i \in Nat /\ j \in Nat /\ k \in Nat
  BY IdsAssumption
<1>3. a.rev \in Nat /\ b.rev \in Nat /\ c.rev \in Nat
  BY OpsAssumption DEF Operation
<1>4. ASSUME NEW m \in Nat, NEW n \in Nat
      PROVE  IdBefore({m}, {n}) <=> m < n
  BY DEF IdBefore
<1>5. /\ IdBefore({i}, {i}) <=> i < i
      /\ IdBefore({i}, {j}) <=> i < j
      /\ IdBefore({j}, {i}) <=> j < i
      /\ IdBefore({j}, {k}) <=> j < k
      /\ IdBefore({i}, {k}) <=> i < k
  BY <1>2, <1>4
<1>6. a # b => i # j
  BY <1>1, OpsAssumption
<1>7. SameOrder(a, b) => a = b
  BY OpsAssumption DEF SameOrder
<1> QED
  BY <1>1, <1>2, <1>3, <1>5, <1>6, <1>7 DEF Before


\* What one call of apply_state_operation does in a state of the invariant:
\* nothing; or it commits an operation newer than all accepted ones; or it
\* folds an older merge, newer than every replacement, into a merged row.
LEMMA ApplyCases ==
  ASSUME IndInv, NEW op \in Ops
  PROVE  \/ /\ Apply(rows, op).rows = rows
            /\ Apply(rows, op).answer \notin {"committed", "merged_stale"}
         \/ /\ Apply(rows, op) = [rows |-> Commit(rows, op, "committed"),
                                  answer |-> "committed"]
            /\ \A a \in accepted : Before(a, op)
         \/ /\ Apply(rows, op) = [rows |-> Commit(rows, op, "merged_stale"),
                                  answer |-> "merged_stale"]
            /\ op.method = "merge"
            /\ op \notin accepted
            /\ accepted # {}
            /\ Before(op, rows.receipt.op)
            /\ \A s \in accepted : s.method = "set" => Before(s, op)
<1> USE DEF IndInv
<1>1. CASE AlreadyIn(rows, op)
  BY <1>1 DEF Apply
<1>2. CASE ~AlreadyIn(rows, op)
  <2>1. PICK i \in Ids : op.ids = {i}
    BY OpsAssumption
  <2>2. ForgetOrphans(rows, op) = rows
    <3>1. CASE accepted = {}
      <4>1. rows = EmptyRows
        BY <3>1 DEF EmptyWhenNothingAccepted
      <4>2. ~(op.ids \subseteq rows.merged)
        BY <2>1, <4>1 DEF EmptyRows
      <4>3. rows.merged \ op.ids = rows.merged
        BY <4>1 DEF EmptyRows
      <4> QED
        BY <4>1, <4>2, <4>3 DEF ForgetOrphans, EmptyRows, Readable
    <3>2. CASE accepted # {}
      BY <3>2 DEF RowIsReference, ForgetOrphans, Readable
    <3> QED
      BY <3>1, <3>2
  <2>3. CASE BarrierSupersedes(op, rows.barrier)
    BY <1>2, <2>2, <2>3 DEF Apply
  <2>4. CASE ~BarrierSupersedes(op, rows.barrier)
    <3>1. Repair(rows, op) = rows
      <4>1. CASE accepted = {}
        BY <4>1 DEF EmptyWhenNothingAccepted, EmptyRows, NoReceipt, Repair
      <4>2. CASE accepted # {}
        BY <4>2 DEF ReceiptIsNewest, RowIsReference, Readable, Repair
      <4> QED
        BY <4>1, <4>2
    <3> DEFINE answer == Ordering(rows, op)
    <3>2. Apply(rows, op) =
            IF answer \in {"conflict", "duplicate", "superseded"}
            THEN [rows |-> rows, answer |-> answer]
            ELSE IF op.ids \cap Refused # {}
            THEN [rows |-> rows, answer |-> "refused"]
            ELSE [rows |-> Commit(rows, op, answer), answer |-> answer]
      BY <1>2, <2>2, <2>4, <3>1 DEF Apply
    <3>3. CASE accepted = {}
      <4>1. answer = "committed"
        BY <3>3 DEF EmptyWhenNothingAccepted, EmptyRows, NoReceipt, Ordering
      <4> QED
        BY <3>2, <3>3, <4>1
    <3>4. CASE accepted # {}
      <4> DEFINE prior == rows.receipt.op
      <4>1. /\ rows.receipt.kind = "operation"
            /\ prior \in accepted
            /\ \A a \in accepted : a = prior \/ Before(a, prior)
        BY <3>4 DEF ReceiptIsNewest
      <4>2. prior \in Ops /\ accepted \subseteq Ops
        BY <4>1 DEF TypeOK
      <4>3. \A s \in accepted : s.method = "set" /\ op.method = "merge" => Before(s, op)
        <5> SUFFICES ASSUME NEW s \in accepted, s.method = "set", op.method = "merge"
                     PROVE  Before(s, op)
          OBVIOUS
        <5>1. Kind = "progress"
          BY OpsAssumption
        <5>2. PICK r \in accepted :
                /\ rows.barrier = [kind |-> "progress_reset", rev |-> r.rev,
                                   ids |-> r.ids, at |-> r.at]
                /\ r.method = "set"
                /\ \A o \in accepted : o.method = "set" => o = r \/ Before(o, r)
          BY <5>1 DEF BarrierIsNewestReset
        <5>3. ~Before(op, r)
          BY <2>4, <5>2 DEF BarrierSupersedes, Before
        <5>4. Before(r, op)
          BY <5>2, <5>3, <4>2, OpsOrder
        <5> QED
          BY <5>2, <5>4, <4>2, OpsOrder
      <4>4. op.method = "merge" => op \notin accepted
        <5> SUFFICES ASSUME op.method = "merge", op \in accepted
                     PROVE  FALSE
          OBVIOUS
        <5>1. op \in InForce
          BY <4>3 DEF InForce
        <5>2. AlreadyIn(rows, op)
          BY <3>4, <5>1 DEF MergedAreInForce, AlreadyIn, Readable, RowIsReference
        <5> QED
          BY <1>2, <5>2
      <4>5. answer = IF SameOrder(op, prior)
                     THEN IF op = prior THEN "duplicate" ELSE "conflict"
                     ELSE IF Before(op, prior)
                     THEN IF op.method = "merge" /\ prior.method = "merge"
                          THEN "merged_stale" ELSE "superseded"
                     ELSE "committed"
        BY <4>1 DEF Ordering, NoReceipt
      <4>6. CASE answer \in {"duplicate", "conflict", "superseded"}
        BY <3>2, <4>6
      <4>7. CASE answer = "merged_stale"
        <5>1. op.method = "merge" /\ Before(op, prior)
          BY <4>5, <4>7
        <5> QED
          BY <3>2, <3>4, <4>3, <4>4, <4>7, <5>1
      <4>8. CASE answer = "committed"
        <5>1. ~SameOrder(op, prior) /\ ~Before(op, prior)
          BY <4>5, <4>8
        <5>2. op # prior
          BY <5>1 DEF SameOrder
        <5>3. Before(prior, op)
          BY <5>1, <5>2, <4>2, OpsOrder
        <5>4. \A a \in accepted : Before(a, op)
          BY <4>1, <4>2, <5>3, OpsOrder
        <5> QED
          BY <3>2, <4>8, <5>4
      <4> QED
        BY <4>5, <4>6, <4>7, <4>8
    <3> QED
      BY <3>3, <3>4
  <2> QED
    BY <2>3, <2>4
<1> QED
  BY <1>1, <1>2


\* The rows a commit leaves.
LEMMA CommitLeaves ==
  ASSUME NEW d \in Rows, NEW op \in Ops
  PROVE  LET new == Commit(d, op, "committed") IN
         /\ new \in Rows
         /\ new.state = "valid"
         /\ new.value = IF op.method = "merge" /\ Readable(d) THEN d.value \cup op.val
                        ELSE op.val
         /\ new.at \in {d.at, op.at}
         /\ new.receipt = [kind |-> "operation", op |-> op, value |-> new.value]
         /\ new.barrier = IF Kind = "progress" /\ op.method = "set"
                          THEN [kind |-> "progress_reset", rev |-> op.rev,
                                ids |-> op.ids, at |-> op.at]
                          ELSE d.barrier
         /\ new.merged = IF op.method = "merge"
                         THEN (IF d.state = "unreadable" THEN {} ELSE d.merged) \cup op.ids
                         ELSE IF Kind = "progress" THEN {} ELSE d.merged
<1> DEFINE new == Commit(d, op, "committed")
<1>1. op \in Operation
  BY OpsAssumption
<1> DEFINE written == WriteRow(d, op)
<1>2. /\ written = [d EXCEPT !.state = "valid", !.value = written.value, !.at = written.at,
                             !.merged = written.merged]
      /\ written.value = IF op.method = "merge" /\ Readable(d) THEN d.value \cup op.val
                         ELSE op.val
      /\ written.merged = IF op.method = "merge" /\ d.state = "unreadable" THEN {}
                          ELSE d.merged
      /\ written.at \in {d.at, op.at}
  BY <1>1 DEF WriteRow, Rows, Later
<1>3. written \in Rows
  BY <1>1, <1>2 DEF Rows, Operation
<1>4. written.state = "valid" /\ written.barrier = d.barrier
  BY <1>2 DEF Rows
<1> HIDE DEF written
<1> DEFINE stamped == InsertReceipt(written, "operation", op)
<1>5. /\ stamped = [written EXCEPT !.receipt = stamped.receipt, !.barrier = stamped.barrier]
      /\ stamped.receipt = [kind |-> "operation", op |-> op, value |-> written.value]
      /\ stamped.barrier = IF Kind = "progress" /\ op.method = "set"
                           THEN [kind |-> "progress_reset", rev |-> op.rev,
                                 ids |-> op.ids, at |-> op.at]
                           ELSE d.barrier
  BY <1>3, <1>4 DEF InsertReceipt, Rows
<1>6. stamped.receipt \in Receipts /\ stamped.barrier \in Barriers
  BY <1>1, <1>3, <1>5 DEF Receipts, Barriers, Operation, Rows
<1>7. stamped \in Rows
  BY <1>3, <1>5, <1>6 DEF Rows
<1>8. new = [stamped EXCEPT !.merged =
               IF op.method = "merge" THEN stamped.merged \cup op.ids
               ELSE IF Kind = "progress" THEN {} ELSE stamped.merged]
  BY DEF Commit, written
<1> HIDE DEF stamped, new
<1>9. /\ stamped.merged = written.merged /\ stamped.state = "valid"
      /\ stamped.value = written.value /\ stamped.at = written.at
  BY <1>3, <1>4, <1>5 DEF Rows
<1>10. new \in Rows
  BY <1>1, <1>7, <1>8 DEF Rows, Operation
<1>11. /\ new.state = stamped.state /\ new.value = stamped.value /\ new.at = stamped.at
       /\ new.receipt = stamped.receipt /\ new.barrier = stamped.barrier
       /\ new.merged = IF op.method = "merge" THEN stamped.merged \cup op.ids
                       ELSE IF Kind = "progress" THEN {} ELSE stamped.merged
  BY <1>7, <1>8 DEF Rows
<1>12. new.merged = IF op.method = "merge"
                    THEN (IF d.state = "unreadable" THEN {} ELSE d.merged) \cup op.ids
                    ELSE IF Kind = "progress" THEN {} ELSE d.merged
  BY <1>2, <1>9, <1>11
<1>13. /\ new \in Rows
       /\ new.state = "valid"
       /\ new.value = IF op.method = "merge" /\ Readable(d) THEN d.value \cup op.val
                      ELSE op.val
       /\ new.at \in {d.at, op.at}
       /\ new.receipt = [kind |-> "operation", op |-> op, value |-> new.value]
       /\ new.barrier = IF Kind = "progress" /\ op.method = "set"
                        THEN [kind |-> "progress_reset", rev |-> op.rev,
                              ids |-> op.ids, at |-> op.at]
                        ELSE d.barrier
  BY <1>2, <1>5, <1>9, <1>10, <1>11
<1> QED
  BY <1>12, <1>13 DEF new

\* Folding an older merge into a readable row.
LEMMA StaleLeaves ==
  ASSUME NEW d \in Rows, NEW op \in Ops, op.method = "merge", Readable(d)
  PROVE  LET new == Commit(d, op, "merged_stale") IN
         /\ new \in Rows
         /\ new.state = "valid"
         /\ new.value = d.value \cup op.val
         /\ new.at \in {d.at, op.at}
         /\ new.receipt = [d.receipt EXCEPT !.value = new.value]
         /\ new.barrier = d.barrier
         /\ new.merged = d.merged \cup op.ids
<1>1. op \in Operation
  BY OpsAssumption
<1> DEFINE written == WriteRow(d, op)
<1>2. /\ written = [d EXCEPT !.state = "valid", !.value = d.value \cup op.val,
                             !.at = written.at]
      /\ written.at \in {d.at, op.at}
  BY <1>1 DEF WriteRow, Rows, Later, Readable
<1> HIDE DEF written
<1> DEFINE new == Commit(d, op, "merged_stale")
<1>3. new = [[written EXCEPT !.receipt.value = written.value]
               EXCEPT !.merged = written.merged \cup op.ids]
  BY <1>2 DEF Commit, written, Rows
<1> HIDE DEF new
<1>4. /\ new.state = "valid"
      /\ new.value = d.value \cup op.val
      /\ new.receipt = [d.receipt EXCEPT !.value = new.value]
      /\ new.barrier = d.barrier
      /\ new.merged = d.merged \cup op.ids
      /\ new.at = written.at
      /\ new \in [state : {"valid"}, value : {new.value}, at : {new.at},
                  receipt : {new.receipt}, merged : {new.merged}, barrier : {new.barrier}]
  BY <1>2, <1>3 DEF Rows
<1>5. d.receipt \in Receipts /\ new.value \in SUBSET Levels
  BY <1>1, <1>4 DEF Rows, Operation
<1>6. new.receipt \in Receipts
  BY <1>4, <1>5 DEF Receipts
<1>7. new.at \in Nat /\ new.barrier \in Barriers /\ new.merged \in SUBSET Ids
  BY <1>1, <1>2, <1>4 DEF Rows, Operation
<1>8. new \in Rows
  BY <1>4, <1>5, <1>6, <1>7 DEF Rows
<1> QED
  BY <1>2, <1>4, <1>8 DEF new

\* In a state of the invariant a row that cannot be read is not there, so a
\* commit joins with its (empty) value all the same.
LEMMA CommittedRows ==
  ASSUME IndInv, NEW op \in Ops
  PROVE  LET new == Commit(rows, op, "committed") IN
         /\ new \in Rows
         /\ new.state = "valid"
         /\ new.value = IF op.method = "merge" THEN rows.value \cup op.val ELSE op.val
         /\ new.receipt = [kind |-> "operation", op |-> op, value |-> new.value]
         /\ new.barrier = IF Kind = "progress" /\ op.method = "set"
                          THEN [kind |-> "progress_reset", rev |-> op.rev,
                                ids |-> op.ids, at |-> op.at]
                          ELSE rows.barrier
         /\ new.merged = IF op.method = "merge" THEN rows.merged \cup op.ids
                         ELSE IF Kind = "progress" THEN {} ELSE rows.merged
<1> DEFINE new == Commit(rows, op, "committed")
<1>1. rows \in Rows
  BY DEF IndInv, TypeOK
<1>2. rows.state # "unreadable" /\ (~Readable(rows) => rows.value = {})
  BY DEF IndInv, RowIsReference, EmptyWhenNothingAccepted, EmptyRows, Readable
<1>3. /\ new \in Rows
      /\ new.state = "valid"
      /\ new.value = IF op.method = "merge" /\ Readable(rows) THEN rows.value \cup op.val
                     ELSE op.val
      /\ new.receipt = [kind |-> "operation", op |-> op, value |-> new.value]
      /\ new.barrier = IF Kind = "progress" /\ op.method = "set"
                       THEN [kind |-> "progress_reset", rev |-> op.rev,
                             ids |-> op.ids, at |-> op.at]
                       ELSE rows.barrier
      /\ new.merged = IF op.method = "merge"
                      THEN (IF rows.state = "unreadable" THEN {} ELSE rows.merged) \cup op.ids
                      ELSE IF Kind = "progress" THEN {} ELSE rows.merged
  BY <1>1, CommitLeaves
<1> HIDE DEF new
<1>4. new.value = IF op.method = "merge" THEN rows.value \cup op.val ELSE op.val
  BY <1>2, <1>3
<1>5. new.merged = IF op.method = "merge" THEN rows.merged \cup op.ids
                   ELSE IF Kind = "progress" THEN {} ELSE rows.merged
  BY <1>2, <1>3
<1> QED
  BY <1>3, <1>4, <1>5 DEF new


-----------------------------------------------------------------------------
\* What an accepted operation does to the set of operations in force: a merge
\* newer than every replacement joins it, a newest replacement ends it.
LEMMA MergeJoinsForce ==
  ASSUME NEW op \in Ops, op.method = "merge", accepted' = accepted \cup {op},
         \A s \in accepted : s.method = "set" => Before(s, op)
  PROVE  /\ InForce' = InForce \cup {op}
         /\ UNION {o.val : o \in InForce'} = (UNION {o.val : o \in InForce}) \cup op.val
<1>1. ASSUME NEW x \in accepted'
      PROVE  x \in InForce' <=> x \in InForce \cup {op}
  <2>1. CASE x = op
    BY <1>1, <2>1 DEF InForce
  <2>2. CASE x # op
    BY <1>1, <2>2 DEF InForce
  <2> QED
    BY <2>1, <2>2
<1>2. InForce' \subseteq accepted' /\ InForce \cup {op} \subseteq accepted'
  BY DEF InForce
<1>3. InForce' = InForce \cup {op}
  BY <1>1, <1>2
<1> QED
  BY <1>3

LEMMA ReplacementEndsForce ==
  ASSUME accepted \subseteq Ops, NEW op \in Ops, op.method = "set",
         accepted' = accepted \cup {op}, \A a \in accepted : Before(a, op)
  PROVE  /\ InForce' = {op}
         /\ UNION {o.val : o \in InForce'} = op.val
<1>1. op \in InForce'
  BY DEF InForce
<1>2. ASSUME NEW x \in InForce'
      PROVE  x = op
  <2>1. x \in accepted \cup {op} /\ (op = x \/ Before(op, x))
    BY <1>2 DEF InForce
  <2>2. x \in accepted => ~Before(op, x)
    BY OpsOrder
  <2> QED
    BY <2>1, <2>2
<1>3. InForce' = {op}
  BY <1>1, <1>2
<1> QED
  BY <1>3


\* The component receipts follow the merges in force when op joins them.
LEMMA MergedAfterMerge ==
  ASSUME MergedAreInForce, NEW op \in Ops, op.method = "merge",
         rows'.merged = rows.merged \cup op.ids, InForce' = InForce \cup {op}
  PROVE  MergedAreInForce'
<1> SUFFICES ASSUME NEW o \in Ops
             PROVE  o.ids \subseteq rows'.merged <=> o.method = "merge" /\ o \in InForce'
  BY DEF MergedAreInForce
<1>1. PICK i \in Ids, j \in Ids : o.ids = {i} /\ op.ids = {j}
  BY OpsAssumption
<1>2. i = j <=> o = op
  BY <1>1, OpsAssumption
<1>3. o.ids \subseteq rows'.merged <=> o.ids \subseteq rows.merged \/ o = op
  BY <1>1, <1>2
<1> QED
  BY <1>3 DEF MergedAreInForce

\* An accepted commit preserves the invariant.
LEMMA CommitPreserves ==
  ASSUME IndInv, NEW op \in Ops, \A a \in accepted : Before(a, op),
         rows' = Commit(rows, op, "committed"), accepted' = accepted \cup {op}
  PROVE  IndInv'
<1> USE DEF IndInv
<1>1. /\ rows' \in Rows
      /\ rows'.state = "valid"
      /\ rows'.value = IF op.method = "merge" THEN rows.value \cup op.val ELSE op.val
      /\ rows'.receipt = [kind |-> "operation", op |-> op, value |-> rows'.value]
      /\ rows'.barrier = IF Kind = "progress" /\ op.method = "set"
                         THEN [kind |-> "progress_reset", rev |-> op.rev,
                               ids |-> op.ids, at |-> op.at]
                         ELSE rows.barrier
      /\ rows'.merged = IF op.method = "merge" THEN rows.merged \cup op.ids
                        ELSE IF Kind = "progress" THEN {} ELSE rows.merged
  BY CommittedRows
<1>2. TypeOK'
  BY <1>1 DEF TypeOK
<1>3. op.method \in {"set", "merge"} /\ accepted \subseteq Ops
  BY OpsAssumption DEF Operation, TypeOK
<1>4. ReceiptIsNewest'
  BY <1>1 DEF ReceiptIsNewest
<1>5. EmptyWhenNothingAccepted'
  BY DEF EmptyWhenNothingAccepted
<1>6. CASE op.method = "merge"
  <2>1. /\ InForce' = InForce \cup {op}
        /\ UNION {o.val : o \in InForce'} = (UNION {o.val : o \in InForce}) \cup op.val
    BY <1>6, MergeJoinsForce
  <2>2. RowIsReference'
    BY <1>1, <1>6, <2>1 DEF RowIsReference
  <2>3. MergedAreInForce'
    BY <1>1, <1>6, <2>1, MergedAfterMerge
  <2>4. rows'.barrier = rows.barrier
    BY <1>1, <1>6
  <2>5. BarrierIsNewestReset'
    BY <1>6, <2>4 DEF BarrierIsNewestReset
  <2> QED
    BY <1>2, <1>4, <1>5, <2>2, <2>3, <2>5
<1>7. CASE op.method = "set"
  <2>1. InForce' = {op} /\ UNION {o.val : o \in InForce'} = op.val
    BY <1>3, <1>7, ReplacementEndsForce
  <2>2. RowIsReference'
    BY <1>1, <1>7, <2>1 DEF RowIsReference
  <2>3. MergedAreInForce'
    <3> SUFFICES ASSUME NEW o \in Ops
                 PROVE  ~(o.ids \subseteq rows'.merged)
      BY <1>7, <2>1 DEF MergedAreInForce
    <3>1. CASE Kind = "progress"
      <4>1. rows'.merged = {}
        BY <1>1, <1>7, <3>1
      <4> QED
        BY <4>1, OpsAssumption
    <3>2. CASE Kind # "progress"
      <4>1. rows'.merged = rows.merged
        BY <1>1, <1>7, <3>2
      <4>2. o.method # "merge"
        BY <3>2, OpsAssumption
      <4> QED
        BY <4>1, <4>2 DEF MergedAreInForce
    <3> QED
      BY <3>1, <3>2
  <2>4. BarrierIsNewestReset'
    <3>1. CASE Kind = "progress"
      BY <1>1, <1>7, <3>1 DEF BarrierIsNewestReset
    <3>2. CASE Kind # "progress"
      BY <1>1, <3>2 DEF BarrierIsNewestReset
    <3> QED
      BY <3>1, <3>2
  <2> QED
    BY <1>2, <1>4, <1>5, <2>2, <2>3, <2>4
<1> QED
  BY <1>3, <1>6, <1>7

\* So does folding in an older merge.
LEMMA StaleMergePreserves ==
  ASSUME IndInv, NEW op \in Ops, op.method = "merge", accepted # {},
         Before(op, rows.receipt.op),
         \A s \in accepted : s.method = "set" => Before(s, op),
         rows' = Commit(rows, op, "merged_stale"), accepted' = accepted \cup {op}
  PROVE  IndInv'
<1> USE DEF IndInv
<1>1. /\ rows' \in Rows
      /\ rows'.state = "valid"
      /\ rows'.value = rows.value \cup op.val
      /\ rows'.receipt = [rows.receipt EXCEPT !.value = rows'.value]
      /\ rows'.barrier = rows.barrier
      /\ rows'.merged = rows.merged \cup op.ids
  <2>1. rows \in Rows /\ Readable(rows)
    BY DEF TypeOK, RowIsReference, Readable
  <2> QED
    BY <2>1, StaleLeaves
<1>2. TypeOK'
  BY <1>1 DEF TypeOK
<1>3. /\ InForce' = InForce \cup {op}
      /\ UNION {o.val : o \in InForce'} = (UNION {o.val : o \in InForce}) \cup op.val
  BY MergeJoinsForce
<1>4. RowIsReference'
  BY <1>1, <1>3 DEF RowIsReference
<1>5. EmptyWhenNothingAccepted'
  BY DEF EmptyWhenNothingAccepted
<1>6. ReceiptIsNewest'
  <2>1. rows.receipt \in Receipts
    BY DEF TypeOK, Rows
  <2>2. /\ rows'.receipt.kind = rows.receipt.kind
        /\ rows'.receipt.op = rows.receipt.op
        /\ rows'.receipt.value = rows'.value
    BY <1>1, <2>1 DEF Receipts
  <2> QED
    BY <2>2 DEF ReceiptIsNewest
<1>7. MergedAreInForce'
  BY <1>1, <1>3, MergedAfterMerge
<1>8. BarrierIsNewestReset'
  BY <1>1 DEF BarrierIsNewestReset
<1> QED
  BY <1>2, <1>4, <1>5, <1>6, <1>7, <1>8

\* The invariant is inductive.
THEOREM Inductive == Spec => []IndInv
<1>1. Init => IndInv
  <2> SUFFICES ASSUME Init
               PROVE  IndInv
    OBVIOUS
  <2>1. rows = EmptyRows /\ accepted = {} /\ InForce = {}
    BY DEF Init, InForce
  <2>2. NoReceipt \in Receipts /\ NoBarrier \in Barriers
    BY DEF Receipts, Barriers, NoReceipt, NoBarrier
  <2>3. TypeOK
    BY <2>1, <2>2 DEF TypeOK, Rows, EmptyRows
  <2>4. RowIsReference
    BY <2>1 DEF RowIsReference, EmptyRows
  <2>5. EmptyWhenNothingAccepted /\ ReceiptIsNewest
    BY <2>1 DEF EmptyWhenNothingAccepted, ReceiptIsNewest
  <2>6. MergedAreInForce
    <3> SUFFICES ASSUME NEW o \in Ops
                 PROVE  ~(o.ids \subseteq rows.merged)
      BY <2>1 DEF MergedAreInForce
    <3> QED
      BY <2>1, OpsAssumption DEF EmptyRows
  <2>7. BarrierIsNewestReset
    BY <2>1 DEF BarrierIsNewestReset, EmptyRows
  <2> QED
    BY <2>3, <2>4, <2>5, <2>6, <2>7 DEF IndInv
<1>2. IndInv /\ [Next]_vars => IndInv'
  <2> SUFFICES ASSUME IndInv, [Next]_vars
               PROVE  IndInv'
    OBVIOUS
  <2>1. CASE UNCHANGED vars
    BY <2>1 DEF vars, IndInv, TypeOK, RowIsReference, InForce, EmptyWhenNothingAccepted,
                ReceiptIsNewest, MergedAreInForce, BarrierIsNewestReset
  <2>2. ASSUME NEW op \in Ops, Deliver(op)
        PROVE  IndInv'
    <3>1. CASE /\ Apply(rows, op).rows = rows
               /\ Apply(rows, op).answer \notin {"committed", "merged_stale"}
      BY <2>1, <2>2, <3>1 DEF Deliver, vars
    <3>2. CASE /\ Apply(rows, op) = [rows |-> Commit(rows, op, "committed"),
                                     answer |-> "committed"]
               /\ \A a \in accepted : Before(a, op)
      <4>1. rows' = Commit(rows, op, "committed") /\ accepted' = accepted \cup {op}
        BY <2>2, <3>2 DEF Deliver
      <4> QED
        BY <3>2, <4>1, CommitPreserves
    <3>3. CASE /\ Apply(rows, op) = [rows |-> Commit(rows, op, "merged_stale"),
                                     answer |-> "merged_stale"]
               /\ op.method = "merge"
               /\ op \notin accepted
               /\ accepted # {}
               /\ Before(op, rows.receipt.op)
               /\ \A s \in accepted : s.method = "set" => Before(s, op)
      <4>1. rows' = Commit(rows, op, "merged_stale") /\ accepted' = accepted \cup {op}
        BY <2>2, <3>3 DEF Deliver
      <4> QED
        BY <3>3, <4>1, StaleMergePreserves
    <3> QED
      BY <3>1, <3>2, <3>3, ApplyCases
  <2> QED
    BY <2>1, <2>2 DEF Next
<1> QED
  BY <1>1, <1>2, PTL DEF Spec

\* Whatever is delivered, each table holds rows of its columns' types.
THEOREM TypeCorrect == Spec => []TypeOK
<1>1. IndInv => TypeOK
  BY DEF IndInv
<1> QED
  BY <1>1, Inductive, PTL

\* Whatever the order and the number of deliveries, the row is the reference
\* value of the accepted operations.
THEOREM Correct == Spec => []RowIsReference
<1>1. IndInv => RowIsReference
  BY DEF IndInv
<1> QED
  BY <1>1, Inductive, PTL

\* Applying an accepted operation again, however late, changes nothing.
THEOREM Replay == Spec => ReplayIsHarmless
<1>1. IndInv => \A op \in accepted : Deliver(op) => rows' = rows
  <2> SUFFICES ASSUME IndInv, NEW op \in accepted, Deliver(op)
               PROVE  rows' = rows
    OBVIOUS
  <2>1. op \in Ops
    BY DEF IndInv, TypeOK
  <2>2. ~Before(op, op)
    BY <2>1, OpsOrder
  <2>3. Apply(rows, op).rows = rows
    BY <2>1, <2>2, ApplyCases
  <2> QED
    BY <2>3 DEF Deliver
<1> QED
  BY <1>1, Inductive, PTL DEF ReplayIsHarmless

-----------------------------------------------------------------------------
(***************************************************************************)
(* With rows that are lost or garbled, repairs, direct writes and the      *)
(* deletion of a save slot.                                                *)
(***************************************************************************)
\* Before an operation is ordered, what the receipts say of a row that is gone
\* is forgotten, and nothing else is changed.
LEMMA KnownRows ==
  ASSUME FaultIndInv, NEW op \in Ops
  PROVE  Repair(ForgetOrphans(rows, op), op) = IF Readable(rows) THEN rows ELSE Invalidate(rows)
<1>1. rows \in Rows
  BY DEF FaultIndInv, FaultTypeOK, TypeOK
<1>2. ReceiptIsSound
  BY DEF FaultIndInv
<1>3. CASE Readable(rows)
  <2>1. ForgetOrphans(rows, op) = rows
    BY <1>3 DEF ForgetOrphans
  <2>2. Repair(rows, op) = rows
    BY <1>2, <1>3 DEF Repair, ReceiptIsSound
  <2> QED
    BY <1>3, <2>1, <2>2
<1>4. CASE ~Readable(rows)
  <2> DEFINE kept == ForgetOrphans(rows, op)
  <2>1. /\ kept = [rows EXCEPT !.merged = kept.merged]
        /\ kept.merged \subseteq rows.merged
    BY <1>1, <1>4 DEF ForgetOrphans, Rows
  <2>2. ~Readable(kept) /\ kept.receipt = rows.receipt
    BY <1>1, <1>4, <2>1 DEF Readable, Rows
  <2> HIDE DEF kept
  <2>3. CASE rows.receipt.kind = "none"
    <3>1. rows.receipt = NoReceipt /\ rows.merged = {} /\ kept.merged = {}
      BY <1>2, <2>1, <2>3 DEF ReceiptIsSound
    <3>2. Repair(kept, op) = kept
      BY <2>2, <2>3 DEF Repair
    <3>3. kept = Invalidate(rows)
      BY <1>1, <2>1, <3>1 DEF Invalidate, Rows
    <3> QED
      BY <1>4, <3>2, <3>3 DEF kept
  <2>4. CASE rows.receipt.kind # "none"
    <3>1. Repair(kept, op) = [kept EXCEPT !.receipt = NoReceipt, !.merged = {}]
      BY <2>2, <2>4 DEF Repair
    <3>2. [kept EXCEPT !.receipt = NoReceipt, !.merged = {}] = Invalidate(rows)
      BY <1>1, <2>1 DEF Invalidate, Rows
    <3> QED
      BY <1>4, <3>1, <3>2 DEF kept
  <2> QED
    BY <2>3, <2>4
<1> QED
  BY <1>3, <1>4

\* What one call of apply_state_operation does to a row that accidents may
\* have befallen.
LEMMA FaultCases ==
  ASSUME FaultIndInv, NEW op \in Ops
  PROVE  LET known == IF Readable(rows) THEN rows ELSE Invalidate(rows)
             result == Apply(rows, op) IN
         \/ AlreadyIn(rows, op) /\ result = [rows |-> rows, answer |-> "duplicate"]
         \/ result = [rows |-> ForgetOrphans(rows, op), answer |-> "superseded"]
         \/ result = [rows |-> known, answer |-> "superseded"]
         \/ /\ result = [rows |-> rows, answer |-> "duplicate"]
            /\ Readable(rows)
            /\ rows.receipt.kind = "operation" /\ rows.receipt.op = op
         \/ result = [rows |-> rows, answer |-> "refused"]
         \/ /\ result = [rows |-> Commit(known, op, "committed"), answer |-> "committed"]
            /\ ~BarrierSupersedes(op, rows.barrier)
            /\ ~AlreadyIn(rows, op)
            /\ \/ known.receipt.kind = "none"
               \/ /\ known.receipt.kind = "operation" /\ op # known.receipt.op
                  /\ ~Before(op, known.receipt.op)
               \/ known.receipt.kind = "baseline" /\ op.at > known.receipt.op.at
         \/ /\ result = [rows |-> Commit(rows, op, "merged_stale"), answer |-> "merged_stale"]
            /\ Readable(rows) /\ op.method = "merge"
            /\ rows.receipt.kind = "operation" /\ Before(op, rows.receipt.op)
            /\ ~BarrierSupersedes(op, rows.barrier)
            /\ ~AlreadyIn(rows, op)
<1> DEFINE known == IF Readable(rows) THEN rows ELSE Invalidate(rows)
<1> DEFINE kept == ForgetOrphans(rows, op)
<1> DEFINE answer == Ordering(known, op)
<1>1. rows \in Rows
  BY DEF FaultIndInv, FaultTypeOK, TypeOK
<1>2. ReceiptIsSound
  BY DEF FaultIndInv
<1>3. Repair(kept, op) = known
  BY KnownRows
<1>4. kept.barrier = rows.barrier
  BY <1>1 DEF ForgetOrphans, Rows
<1>5. known.receipt \in Receipts
  BY <1>1 DEF Invalidate, Rows, Receipts, NoReceipt
<1>6. ~Readable(rows) => known.receipt.kind = "none"
  BY <1>1 DEF Invalidate, Rows, NoReceipt
<1>7. known.receipt.kind = "operation" => known.receipt.op \in Ops
  BY <1>2, <1>6 DEF ReceiptIsSound
<1>8. CASE AlreadyIn(rows, op)
  BY <1>8 DEF Apply
<1>9. CASE ~AlreadyIn(rows, op) /\ BarrierSupersedes(op, rows.barrier)
  <2>1. Apply(rows, op) = [rows |-> kept, answer |-> "superseded"]
    BY <1>4, <1>9 DEF Apply
  <2> QED
    BY <2>1
<1>10. CASE ~AlreadyIn(rows, op) /\ ~BarrierSupersedes(op, rows.barrier)
  <2>1. Apply(rows, op) =
          IF answer = "conflict" THEN [rows |-> rows, answer |-> answer]
          ELSE IF answer \in {"duplicate", "superseded"}
          THEN [rows |-> known, answer |-> answer]
          ELSE IF op.ids \cap Refused # {} THEN [rows |-> rows, answer |-> "refused"]
          ELSE [rows |-> Commit(known, op, answer), answer |-> answer]
    BY <1>3, <1>4, <1>10 DEF Apply
  <2>2. known.receipt.kind = "operation" /\ SameOrder(op, known.receipt.op)
          => op = known.receipt.op
    BY <1>7, OpsOrder
  <2>3. \/ answer = "superseded"
        \/ /\ answer = "duplicate"
           /\ known.receipt.kind = "operation" /\ known.receipt.op = op
        \/ /\ answer = "merged_stale"
           /\ op.method = "merge" /\ known.receipt.kind = "operation"
           /\ Before(op, known.receipt.op)
        \/ /\ answer = "committed"
           /\ \/ known.receipt.kind = "none"
              \/ /\ known.receipt.kind = "operation" /\ op # known.receipt.op
                 /\ ~Before(op, known.receipt.op)
              \/ known.receipt.kind = "baseline" /\ op.at > known.receipt.op.at
    <3> HIDE DEF known
    <3>1. known.receipt.kind \in {"none", "operation", "baseline"}
      BY <1>5 DEF Receipts
    <3>2. CASE known.receipt.kind = "none"
      BY <3>2 DEF Ordering
    <3>3. CASE known.receipt.kind = "operation"
      BY <2>2, <3>3 DEF Ordering, SameOrder
    <3>4. CASE known.receipt.kind = "baseline"
      BY <3>4 DEF Ordering
    <3> QED
      BY <3>1, <3>2, <3>3, <3>4
  <2> HIDE DEF answer
  <2>4. CASE answer = "superseded"
    BY <2>1, <2>4
  <2>5. CASE answer = "duplicate"
    BY <1>6, <2>1, <2>3, <2>5
  <2>6. CASE answer = "merged_stale"
    BY <1>6, <1>10, <2>1, <2>3, <2>6
  <2>7. CASE answer = "committed"
    BY <1>10, <2>1, <2>3, <2>7
  <2> QED
    BY <2>3, <2>4, <2>5, <2>6, <2>7
<1> QED
  BY <1>8, <1>9, <1>10

\* A step that at most forgets the receipts of a row that is gone.
LEMMA OrphansPreserve ==
  ASSUME FaultIndInv, NEW gone \in SUBSET Ids,
         \/ rows' = rows
         \/ /\ ~Readable(rows)
            /\ \/ rows' = Invalidate(rows)
               \/ rows' = [rows EXCEPT !.merged = rows.merged \ gone],
         UNCHANGED <<accepted, clock, loaded, damage, base>>,
         last' \in Replies
  PROVE  FaultIndInv'
<1>1. rows \in Rows
  BY DEF FaultIndInv, FaultTypeOK, TypeOK
<1>2. NoReceipt \in Receipts
  BY DEF Receipts, NoReceipt
<1>3. /\ rows' \in Rows
      /\ rows'.state = rows.state /\ rows'.value = rows.value /\ rows'.at = rows.at
      /\ rows'.barrier = rows.barrier
      /\ rows'.receipt \in {rows.receipt, NoReceipt}
      /\ rows'.merged \subseteq rows.merged
      /\ rows'.receipt = NoReceipt => rows'.merged = {} \/ rows'.receipt = rows.receipt
  BY <1>1, <1>2 DEF Rows, Invalidate
<1>4. FaultTypeOK'
  BY <1>3 DEF FaultIndInv, FaultTypeOK, TypeOK
<1>5. NoReceipt.kind = "none" /\ NoReceipt.op.rev = 0
  BY DEF NoReceipt, NoOp
<1>6. ReceiptIsSound'
  BY <1>3, <1>5 DEF FaultIndInv, ReceiptIsSound, Readable
<1>7. ComponentsArePresent'
  BY <1>3 DEF FaultIndInv, ComponentsArePresent, Readable
<1>8. TimesAreReached'
  <2>1. clock \in Nat
    BY DEF FaultIndInv, FaultTypeOK
  <2> QED
    BY <1>3, <1>5, <2>1 DEF FaultIndInv, TimesAreReached
<1>9. AccidentsAreCounted'
  BY <1>3, <1>5 DEF FaultIndInv, AccidentsAreCounted, Readable
<1>10. OnlySlotsAreDeleted'
  BY <1>3 DEF FaultIndInv, OnlySlotsAreDeleted
<1>11. NoResurrection'
  BY <1>3, <1>5 DEF FaultIndInv, NoResurrection, Readable
<1> QED
  BY <1>4, <1>6, <1>7, <1>8, <1>9, <1>10, <1>11 DEF FaultIndInv

\* A commit of an operation no barrier forbids.
LEMMA FaultCommitPreserves ==
  ASSUME FaultIndInv, NEW op \in Ops, FaultBounds, Later(op.at, op.rev) <= clock,
         ~BarrierSupersedes(op, rows.barrier),
         rows' = Commit(IF Readable(rows) THEN rows ELSE Invalidate(rows), op, "committed"),
         accepted' = accepted \cup {op}, UNCHANGED <<clock, loaded, damage, base>>,
         last' = [op |-> op, answer |-> "committed"]
  PROVE  FaultIndInv'
<1> DEFINE known == IF Readable(rows) THEN rows ELSE Invalidate(rows)
<1>1. rows \in Rows /\ clock \in Nat
  BY DEF FaultIndInv, FaultTypeOK, TypeOK
<1>2. NoReceipt \in Receipts
  BY DEF Receipts, NoReceipt
<1>3. /\ known \in Rows
      /\ known.state = rows.state /\ known.value = rows.value /\ known.at = rows.at
      /\ known.barrier = rows.barrier
      /\ known.merged = IF Readable(rows) THEN rows.merged ELSE {}
  BY <1>1, <1>2 DEF Rows, Invalidate
<1> HIDE DEF known
<1>4. /\ rows' \in Rows
      /\ rows'.state = "valid"
      /\ rows'.value = IF op.method = "merge" /\ Readable(rows) THEN rows.value \cup op.val
                       ELSE op.val
      /\ rows'.at \in {rows.at, op.at}
      /\ rows'.receipt = [kind |-> "operation", op |-> op, value |-> rows'.value]
      /\ rows'.barrier = IF Kind = "progress" /\ op.method = "set"
                         THEN [kind |-> "progress_reset", rev |-> op.rev,
                               ids |-> op.ids, at |-> op.at]
                         ELSE rows.barrier
      /\ rows'.merged = IF op.method = "merge"
                        THEN (IF Readable(rows) THEN rows.merged ELSE {}) \cup op.ids
                        ELSE IF Kind = "progress" THEN {} ELSE known.merged
  <2>1. Readable(known) <=> Readable(rows)
    BY <1>3 DEF Readable
  <2>2. known.merged = IF op.method = "merge" /\ known.state = "unreadable" THEN {}
                       ELSE known.merged
    BY <1>3 DEF Readable
  <2>3. rows' = Commit(known, op, "committed")
    BY DEF known
  <2>4. /\ rows' \in Rows
        /\ rows'.state = "valid"
        /\ rows'.value = IF op.method = "merge" /\ Readable(known)
                         THEN known.value \cup op.val ELSE op.val
        /\ rows'.at \in {known.at, op.at}
        /\ rows'.receipt = [kind |-> "operation", op |-> op, value |-> rows'.value]
        /\ rows'.barrier = IF Kind = "progress" /\ op.method = "set"
                           THEN [kind |-> "progress_reset", rev |-> op.rev,
                                 ids |-> op.ids, at |-> op.at]
                           ELSE known.barrier
        /\ rows'.merged = IF op.method = "merge"
                          THEN (IF known.state = "unreadable" THEN {} ELSE known.merged)
                               \cup op.ids
                          ELSE IF Kind = "progress" THEN {} ELSE known.merged
    BY <1>3, <2>3, CommitLeaves
  <2> QED
    BY <1>3, <2>1, <2>2, <2>4
<1>5. op \in Operation /\ op.method \in {"set", "merge"} /\ op.rev \in Nat /\ op.at \in Nat
  BY OpsAssumption DEF Operation
<1>6. Readable(rows')
  BY <1>4 DEF Readable
<1>7. FaultTypeOK'
  BY <1>4 DEF Replies, FaultIndInv, FaultTypeOK, TypeOK
<1>8. ReceiptIsSound'
  BY <1>4 DEF ReceiptIsSound
<1>9. ComponentsArePresent'
  <2>1. Kind # "progress" => op.method = "set"
    BY OpsAssumption
  <2>2. Kind # "progress" => rows'.merged = {}
    BY <1>3, <1>4, <2>1 DEF FaultIndInv, ComponentsArePresent
  <2>3. ASSUME NEW o \in accepted', o.ids \subseteq rows'.merged
        PROVE  o.val \subseteq rows'.value
    <3>1. o \in Ops
      BY DEF FaultIndInv, FaultTypeOK, TypeOK
    <3>2. PICK i \in Ids, j \in Ids : o.ids = {i} /\ op.ids = {j}
      BY <3>1, OpsAssumption
    <3>3. op.method = "merge"
      BY <1>4, <1>5, <2>1, <2>2, <2>3, <3>2
    <3>4. CASE o = op
      BY <1>4, <3>4
    <3>5. CASE o # op
      <4>1. o \in accepted /\ i # j
        BY <3>1, <3>2, <3>5, OpsAssumption
      <4>2. Readable(rows) /\ o.ids \subseteq rows.merged
        BY <1>4, <2>3, <3>2, <3>3, <4>1
      <4> QED
        BY <1>4, <3>3, <4>1, <4>2 DEF FaultIndInv, ComponentsArePresent
    <3> QED
      BY <3>4, <3>5
  <2> QED
    BY <2>2, <2>3 DEF ComponentsArePresent
<1>10. TimesAreReached'
  BY <1>1, <1>4, <1>5 DEF FaultIndInv, TimesAreReached, Later
<1>11. AccidentsAreCounted'
  BY <1>4, <1>6 DEF AccidentsAreCounted
<1>12. OnlySlotsAreDeleted'
  BY <1>4 DEF FaultIndInv, OnlySlotsAreDeleted
<1>13. NoResurrection'
  <2> SUFFICES ASSUME rows'.barrier.kind = "slot_delete"
               PROVE  ~Before(op, rows'.barrier)
    BY <1>4 DEF NoResurrection
  <2>1. rows'.barrier = rows.barrier
    BY <1>4
  <2> QED
    BY <2>1 DEF BarrierSupersedes
<1> QED
  BY <1>7, <1>8, <1>9, <1>10, <1>11, <1>12, <1>13 DEF FaultIndInv

\* Folding an older merge into a row that can be read.
LEMMA FaultStalePreserves ==
  ASSUME FaultIndInv, NEW op \in Ops, Later(op.at, op.rev) <= clock,
         Readable(rows), op.method = "merge", rows.receipt.kind # "none",
         rows' = Commit(rows, op, "merged_stale"),
         accepted' = accepted \cup {op}, UNCHANGED <<clock, loaded, damage, base>>,
         last' = [op |-> op, answer |-> "merged_stale"]
  PROVE  FaultIndInv'
<1>1. rows \in Rows /\ clock \in Nat /\ rows.receipt \in Receipts
  BY DEF FaultIndInv, FaultTypeOK, TypeOK, Rows
<1>2. /\ rows' \in Rows
      /\ rows'.state = "valid"
      /\ rows'.value = rows.value \cup op.val
      /\ rows'.at \in {rows.at, op.at}
      /\ rows'.receipt = [rows.receipt EXCEPT !.value = rows'.value]
      /\ rows'.barrier = rows.barrier
      /\ rows'.merged = rows.merged \cup op.ids
  BY <1>1, StaleLeaves
<1>3. /\ rows'.receipt.kind = rows.receipt.kind /\ rows'.receipt.op = rows.receipt.op
      /\ rows'.receipt.value = rows'.value
  BY <1>1, <1>2 DEF Receipts
<1>4. op.rev \in Nat /\ op.at \in Nat
  BY OpsAssumption DEF Operation
<1>5. Readable(rows')
  BY <1>2 DEF Readable
<1>6. FaultTypeOK'
  BY <1>2 DEF Replies, FaultIndInv, FaultTypeOK, TypeOK
<1>7. ReceiptIsSound'
  BY <1>2, <1>3, <1>5 DEF FaultIndInv, ReceiptIsSound
<1>8. ComponentsArePresent'
  <2>1. Kind = "progress"
    BY OpsAssumption
  <2>2. ASSUME NEW o \in accepted', o.ids \subseteq rows'.merged
        PROVE  o.val \subseteq rows'.value
    <3>1. o \in Ops
      BY DEF FaultIndInv, FaultTypeOK, TypeOK
    <3>2. PICK i \in Ids, j \in Ids : o.ids = {i} /\ op.ids = {j}
      BY <3>1, OpsAssumption
    <3>3. CASE o = op
      BY <1>2, <3>3
    <3>4. CASE o # op
      <4>1. o \in accepted /\ i # j
        BY <3>1, <3>2, <3>4, OpsAssumption
      <4>2. o.ids \subseteq rows.merged
        BY <1>2, <2>2, <3>2, <4>1
      <4> QED
        BY <1>2, <4>1, <4>2 DEF FaultIndInv, ComponentsArePresent
    <3> QED
      BY <3>3, <3>4
  <2> QED
    BY <2>1, <2>2 DEF ComponentsArePresent
<1>9. TimesAreReached'
  BY <1>1, <1>2, <1>3, <1>4 DEF FaultIndInv, TimesAreReached, Later
<1>10. AccidentsAreCounted'
  BY <1>2, <1>5 DEF AccidentsAreCounted
<1>11. OnlySlotsAreDeleted'
  BY <1>2 DEF FaultIndInv, OnlySlotsAreDeleted
<1>12. NoResurrection'
  BY <1>2, <1>3 DEF FaultIndInv, NoResurrection
<1> QED
  BY <1>6, <1>7, <1>8, <1>9, <1>10, <1>11, <1>12 DEF FaultIndInv

\* The rows a direct write leaves: whatever was written, its value and its time
\* are the baseline.
LEMMA BaselineLeaves ==
  ASSUME NEW d \in Rows, NEW method \in {"set", "merge"}, d.state = "valid",
         d.receipt.op.rev \in Nat
  PROVE  LET new == WriteBaseline(d, method)
             rev == new.receipt.op.rev IN
         /\ new \in Rows
         /\ new.state = "valid" /\ new.value = d.value /\ new.at = d.at
         /\ new.merged = d.merged
         /\ new.receipt.kind = "baseline" /\ new.receipt.value = d.value
         /\ new.receipt.op.at = d.at
         /\ d.at <= rev
         /\ d.receipt.op.rev < d.at => rev = d.at
         /\ new.barrier = IF Kind = "progress" /\ method = "set"
                          THEN [kind |-> "progress_baseline", rev |-> rev,
                                ids |-> {}, at |-> d.at]
                          ELSE d.barrier
<1> DEFINE rev == IF d.receipt.kind = "none" THEN d.at ELSE Later(d.at, d.receipt.op.rev + 1)
<1> DEFINE op == BaselineOp(d, method, rev)
<1>1. rev \in Nat /\ d.at <= rev /\ (d.receipt.op.rev < d.at => rev = d.at)
  BY DEF Rows, Later
<1> HIDE DEF rev
<1>2. op = [method |-> method, rev |-> rev, ids |-> {}, at |-> d.at, val |-> d.value]
  BY DEF BaselineOp
<1>3. op \in Operation
  BY <1>1, <1>2 DEF Operation, Rows
<1> HIDE DEF op
<1> DEFINE new == InsertReceipt(d, "baseline", op)
<1>4. WriteBaseline(d, method) = new
  BY DEF WriteBaseline, rev, op
<1>5. /\ new = [d EXCEPT !.receipt = new.receipt, !.barrier = new.barrier]
      /\ new.receipt = [kind |-> "baseline", op |-> op, value |-> d.value]
      /\ new.barrier = IF Kind = "progress" /\ method = "set"
                       THEN [kind |-> "progress_baseline", rev |-> rev,
                             ids |-> {}, at |-> d.at]
                       ELSE d.barrier
  BY <1>2 DEF InsertReceipt, Rows
<1>6. new.receipt \in Receipts /\ new.barrier \in Barriers
  BY <1>1, <1>3, <1>5 DEF Receipts, Barriers, Rows
<1> HIDE DEF new
<1>7. /\ new \in Rows
      /\ new.state = "valid" /\ new.value = d.value /\ new.at = d.at
      /\ new.merged = d.merged
  BY <1>5, <1>6 DEF Rows
<1>8. /\ new.receipt.kind = "baseline" /\ new.receipt.value = d.value
      /\ new.receipt.op.at = d.at /\ new.receipt.op.rev = rev
  BY <1>2, <1>5
<1> QED
  BY <1>1, <1>4, <1>5, <1>7, <1>8

\* A direct write of the repository stamps its row, its receipt and the barrier
\* it may leave with the time it happens.
LEMMA DirectLeaves ==
  ASSUME FaultIndInv, FaultBounds, NEW val \in Directs, DirectWrite(val)
  PROVE  /\ clock \in Nat /\ clock' = clock + 1 /\ clock' \in Nat /\ clock' \in 0..MaxTime
         /\ rows' \in Rows
         /\ rows'.state = "valid" /\ rows'.at = clock'
         /\ rows'.merged = rows.merged
         /\ rows'.receipt.kind = "baseline" /\ rows'.receipt.value = rows'.value
         /\ rows'.receipt.op.at = clock' /\ rows'.receipt.op.rev = clock'
         /\ \/ rows'.barrier = rows.barrier
            \/ /\ Kind = "progress" /\ rows'.barrier.kind = "progress_baseline"
               /\ rows'.barrier.rev = clock' /\ rows'.barrier.at = clock'
         /\ base'.val = rows'.value
         /\ base' \in [at : Never..MaxTime, val : SUBSET Levels]
         /\ Kind = "progress" =>
              \/ /\ base'.at = clock' /\ rows'.barrier.kind = "progress_baseline"
                 /\ rows'.barrier.at = clock'
              \/ /\ base'.at = IF ResetSince THEN Never ELSE base.at
                 /\ rows'.barrier = rows.barrier
<1>1. /\ rows \in Rows /\ clock \in Nat /\ clock' = clock + 1
      /\ clock' \in Nat /\ clock' \in 0..MaxTime
      /\ base.at \in Never..MaxTime /\ Never \in Never..MaxTime /\ clock' \in Never..MaxTime
  BY DEF FaultIndInv, FaultTypeOK, TypeOK, DirectWrite, FaultBounds, Never
<1>2. rows.receipt.op.rev \in Nat /\ rows.receipt.op.rev <= clock
  <2>1. rows.receipt.op \in Operation \cup {NoOp}
    BY <1>1 DEF Rows, Receipts
  <2> QED
    BY <2>1 DEF Operation, NoOp, FaultIndInv, TimesAreReached
<1>3. PICK value \in SUBSET Levels, method \in {"set", "merge"} :
        /\ rows' = WriteBaseline([rows EXCEPT !.state = "valid", !.value = value,
                                              !.at = clock'], method)
        /\ base'.val \in {value, rows'.value}
        /\ \/ method = "set" /\ base' = [at |-> clock', val |-> base'.val]
           \/ /\ method = "merge"
              /\ base' = [at |-> IF ResetSince THEN Never ELSE base.at, val |-> base'.val]
  <2>1. val \in SUBSET Levels
    BY DEF FaultBounds
  <2>2. CASE /\ rows' = DirectSet(rows, val, clock')
             /\ base' = [at |-> clock', val |-> val]
    BY <2>1, <2>2 DEF DirectSet
  <2>3. CASE /\ rows' = DirectMerge(rows, val, clock')
             /\ base' = [at |-> IF ResetSince THEN Never ELSE base.at, val |-> rows'.value]
    <3> DEFINE value == IF Readable(rows) THEN rows.value \cup val ELSE val
    <3>1. value \in SUBSET Levels
      BY <1>1, <2>1 DEF Rows
    <3> QED
      BY <2>3, <3>1 DEF DirectMerge
  <2> QED
    BY <2>2, <2>3 DEF DirectWrite
<1> DEFINE d == [rows EXCEPT !.state = "valid", !.value = value, !.at = clock']
<1>4. /\ d \in Rows /\ d.state = "valid" /\ d.at = clock' /\ d.value = value
      /\ d.receipt = rows.receipt /\ d.merged = rows.merged /\ d.barrier = rows.barrier
  BY <1>1 DEF Rows
<1>5. rows' = WriteBaseline(d, method)
  BY <1>3
<1> HIDE DEF d
<1> DEFINE new == WriteBaseline(d, method)
<1>6. /\ new \in Rows
      /\ new.state = "valid" /\ new.value = d.value /\ new.at = d.at
      /\ new.merged = d.merged
      /\ new.receipt.kind = "baseline" /\ new.receipt.value = d.value
      /\ new.receipt.op.at = d.at
      /\ d.receipt.op.rev < d.at => new.receipt.op.rev = d.at
      /\ new.barrier = IF Kind = "progress" /\ method = "set"
                       THEN [kind |-> "progress_baseline", rev |-> new.receipt.op.rev,
                             ids |-> {}, at |-> d.at]
                       ELSE d.barrier
  BY <1>2, <1>4, BaselineLeaves
<1> HIDE DEF new
<1>7. new.receipt.op.rev = clock'
  BY <1>1, <1>2, <1>4, <1>6
<1>8. /\ rows' \in Rows
      /\ rows'.state = "valid" /\ rows'.value = d.value /\ rows'.at = clock'
      /\ rows'.merged = rows.merged
      /\ rows'.receipt.kind = "baseline" /\ rows'.receipt.value = d.value
      /\ rows'.receipt.op.at = clock' /\ rows'.receipt.op.rev = clock'
      /\ \/ rows'.barrier = rows.barrier
         \/ /\ Kind = "progress" /\ rows'.barrier.kind = "progress_baseline"
            /\ rows'.barrier.rev = clock' /\ rows'.barrier.at = clock'
  BY <1>4, <1>5, <1>6, <1>7 DEF new
<1>9. base'.val = rows'.value /\ base'.val \in SUBSET Levels
  BY <1>3, <1>4, <1>8
<1>10. base' \in [at : Never..MaxTime, val : SUBSET Levels]
  BY <1>1, <1>3, <1>9
<1>11. Kind = "progress" =>
         \/ /\ base'.at = clock' /\ rows'.barrier.kind = "progress_baseline"
            /\ rows'.barrier.at = clock'
         \/ /\ base'.at = IF ResetSince THEN Never ELSE base.at
            /\ rows'.barrier = rows.barrier
  BY <1>3, <1>4, <1>5, <1>6 DEF new
<1> QED
  BY <1>1, <1>8, <1>9, <1>10, <1>11

LEMMA DirectPreserves ==
  ASSUME FaultIndInv, FaultBounds, NEW val \in Directs, DirectWrite(val)
  PROVE  FaultIndInv'
<1>1. /\ clock \in Nat /\ clock' = clock + 1 /\ clock' \in Nat /\ clock' \in 0..MaxTime
      /\ rows' \in Rows
      /\ rows'.state = "valid" /\ rows'.at = clock'
      /\ rows'.merged = rows.merged
      /\ rows'.receipt.kind = "baseline" /\ rows'.receipt.value = rows'.value
      /\ rows'.receipt.op.at = clock' /\ rows'.receipt.op.rev = clock'
      /\ \/ rows'.barrier = rows.barrier
         \/ /\ rows'.barrier.kind = "progress_baseline"
            /\ rows'.barrier.rev = clock' /\ rows'.barrier.at = clock'
      /\ base' \in [at : Never..MaxTime, val : SUBSET Levels]
  BY DirectLeaves
<1>2. /\ accepted' = {} /\ last' \in Replies /\ UNCHANGED <<loaded, damage>>
  BY DEF DirectWrite, NoCall, Replies
<1>3. FaultTypeOK'
  BY <1>1, <1>2 DEF FaultIndInv, FaultTypeOK, TypeOK
<1>4. ReceiptIsSound'
  BY <1>1 DEF ReceiptIsSound
<1>5. ComponentsArePresent'
  BY <1>1, <1>2 DEF FaultIndInv, ComponentsArePresent
<1>6. TimesAreReached'
  <2>1. rows.barrier.rev \in Nat
    BY DEF FaultIndInv, FaultTypeOK, TypeOK, Rows, Barriers
  <2> QED
    BY <1>1, <2>1 DEF FaultIndInv, TimesAreReached
<1>7. AccidentsAreCounted'
  BY <1>1 DEF AccidentsAreCounted, Readable
<1>8. OnlySlotsAreDeleted'
  BY <1>1, <1>2 DEF FaultIndInv, OnlySlotsAreDeleted
<1>9. NoResurrection'
  BY <1>1 DEF NoResurrection
<1> QED
  BY <1>3, <1>4, <1>5, <1>6, <1>7, <1>8, <1>9 DEF FaultIndInv

\* A row is lost or garbled.
LEMMA DamagePreserves ==
  ASSUME FaultIndInv, FaultBounds, NEW kind \in {"lost", "garbled"}, Damage(kind)
  PROVE  FaultIndInv'
<1>1. /\ rows \in Rows /\ damage \in Nat /\ damage < MaxDamage /\ damage' = damage + 1
      /\ damage' \in 0..MaxDamage
  BY DEF FaultIndInv, FaultTypeOK, TypeOK, Damage, FaultBounds
<1>2. /\ rows' \in Rows
      /\ rows'.state \in {"absent", "unreadable"} /\ rows'.at \in {0, rows.at}
      /\ rows'.receipt = rows.receipt /\ rows'.merged = rows.merged
      /\ rows'.barrier = rows.barrier
  <2>1. CASE kind = "lost"
    <3>1. rows' = [rows EXCEPT !.state = "absent", !.value = {}, !.at = 0]
      BY <2>1 DEF Damage, DeleteRow
    <3> QED
      BY <1>1, <3>1 DEF Rows
  <2>2. CASE kind = "garbled"
    <3>1. rows' = [rows EXCEPT !.state = "unreadable", !.value = {}]
      BY <2>2 DEF Damage
    <3> QED
      BY <1>1, <3>1 DEF Rows
  <2> QED
    BY <2>1, <2>2
<1>3. ~Readable(rows') /\ last' \in Replies /\ UNCHANGED <<accepted, clock, loaded, base>>
  BY <1>2 DEF Readable, Damage, NoCall, Replies
<1>4. FaultTypeOK'
  BY <1>1, <1>2, <1>3 DEF FaultIndInv, FaultTypeOK, TypeOK
<1>5. ReceiptIsSound'
  BY <1>2, <1>3 DEF FaultIndInv, ReceiptIsSound
<1>6. ComponentsArePresent'
  BY <1>2, <1>3 DEF FaultIndInv, ComponentsArePresent
<1>7. TimesAreReached'
  <2>1. clock \in Nat
    BY DEF FaultIndInv, FaultTypeOK
  <2> QED
    BY <1>2, <1>3, <2>1 DEF FaultIndInv, TimesAreReached
<1>8. AccidentsAreCounted'
  BY <1>1 DEF AccidentsAreCounted
<1>9. OnlySlotsAreDeleted'
  BY <1>2, <1>3 DEF FaultIndInv, OnlySlotsAreDeleted
<1>10. NoResurrection'
  BY <1>3 DEF NoResurrection
<1> QED
  BY <1>4, <1>5, <1>6, <1>7, <1>8, <1>9, <1>10 DEF FaultIndInv

\* The row and its receipts are deleted; for a slot a barrier is left behind.
LEMMA DeletionPreserves ==
  ASSUME FaultIndInv,
         \/ rows' = DeleteRow(Invalidate(rows))
         \/ Kind = "slot" /\ rows' = QuarantineSlot(rows, clock),
         loaded' \subseteq loaded, last' \in Replies,
         UNCHANGED <<accepted, clock, damage, base>>
  PROVE  FaultIndInv'
<1>1. rows \in Rows /\ clock \in Nat
  BY DEF FaultIndInv, FaultTypeOK, TypeOK
<1>2. NoReceipt \in Receipts /\ NoReceipt.kind = "none" /\ NoReceipt.op.rev = 0
  BY DEF Receipts, NoReceipt, NoOp
<1> DEFINE gone == DeleteRow(Invalidate(rows))
<1>3. /\ gone \in Rows
      /\ gone.state = "absent" /\ gone.at = 0 /\ gone.receipt = NoReceipt
      /\ gone.merged = {} /\ gone.barrier = rows.barrier
  BY <1>1, <1>2 DEF DeleteRow, Invalidate, Rows
<1>4. /\ rows' \in Rows
      /\ rows'.state = "absent" /\ rows'.at = 0 /\ rows'.receipt = NoReceipt
      /\ rows'.merged = {}
      /\ \/ rows'.barrier = rows.barrier
         \/ Kind = "slot" /\ rows'.barrier.kind = "slot_delete"
  <2>1. CASE rows' = gone
    BY <1>3, <2>1
  <2>2. CASE Kind = "slot" /\ rows' = QuarantineSlot(rows, clock)
    <3> DEFINE barrier == [kind |-> "slot_delete", ids |-> {}, at |-> clock,
                           rev |-> Later(clock, HighWater(rows) + 1)]
    <3>1. rows.receipt.op.rev \in Nat /\ rows.barrier.rev \in Nat
      <4>1. rows.receipt.op \in Operation \cup {NoOp} /\ rows.barrier \in Barriers
        BY <1>1 DEF Rows, Receipts
      <4> QED
        BY <4>1 DEF Operation, NoOp, Barriers
    <3>2. barrier \in Barriers
      BY <1>1, <3>1 DEF Barriers, Later, HighWater
    <3>3. rows' = [gone EXCEPT !.barrier = barrier]
      BY <2>2 DEF QuarantineSlot
    <3>4. barrier.kind = "slot_delete"
      OBVIOUS
    <3> HIDE DEF gone, barrier
    <3> QED
      BY <1>3, <2>2, <3>2, <3>3, <3>4 DEF Rows
  <2> QED
    BY <2>1, <2>2
<1> HIDE DEF gone
<1>5. FaultTypeOK'
  BY <1>4 DEF FaultIndInv, FaultTypeOK, TypeOK
<1>6. ReceiptIsSound'
  BY <1>2, <1>4 DEF ReceiptIsSound
<1>7. ComponentsArePresent'
  BY <1>4 DEF ComponentsArePresent, Readable
<1>8. TimesAreReached'
  BY <1>1, <1>2, <1>4 DEF FaultIndInv, TimesAreReached
<1>9. AccidentsAreCounted'
  BY <1>2, <1>4 DEF AccidentsAreCounted
<1>10. OnlySlotsAreDeleted'
  BY <1>4 DEF FaultIndInv, OnlySlotsAreDeleted
<1>11. NoResurrection'
  BY <1>4 DEF NoResurrection, Readable
<1> QED
  BY <1>5, <1>6, <1>7, <1>8, <1>9, <1>10, <1>11 DEF FaultIndInv

\* A status query repairs the receipt, which was right.
LEMMA RepairIsIdle ==
  ASSUME FaultIndInv
  PROVE  RepairReceipt(rows) = IF Readable(rows) THEN rows ELSE Invalidate(rows)
<1>1. rows \in Rows /\ rows.receipt \in Receipts
  BY DEF FaultIndInv, FaultTypeOK, TypeOK, Rows
<1>2. ReceiptIsSound
  BY DEF FaultIndInv
<1>3. CASE rows.receipt.kind = "none"
  <2>1. rows = Invalidate(rows)
    BY <1>1, <1>2, <1>3 DEF ReceiptIsSound, Invalidate, Rows
  <2> QED
    BY <1>3, <2>1 DEF RepairReceipt
<1>4. CASE rows.receipt.kind # "none" /\ Readable(rows)
  <2>1. [rows EXCEPT !.receipt.value = rows.value] = rows
    BY <1>1, <1>2, <1>4 DEF ReceiptIsSound, Rows, Receipts
  <2> QED
    BY <1>4, <2>1 DEF RepairReceipt
<1>5. CASE rows.receipt.kind # "none" /\ ~Readable(rows)
  BY <1>5 DEF RepairReceipt
<1> QED
  BY <1>3, <1>4, <1>5

\* One application of a journaled operation.
LEMMA ApplyPreserves ==
  ASSUME FaultIndInv, FaultBounds, NEW op \in Ops, ApplyOperation(op)
  PROVE  FaultIndInv'
<1> DEFINE known == IF Readable(rows) THEN rows ELSE Invalidate(rows)
<1> DEFINE result == Apply(rows, op)
<1>1. /\ Later(op.at, op.rev) <= clock
      /\ rows' = result.rows
      /\ accepted' = IF result.answer \in {"committed", "merged_stale"}
                     THEN accepted \cup {op} ELSE accepted
      /\ last' = [op |-> op, answer |-> result.answer]
      /\ UNCHANGED <<clock, loaded, damage, base>>
  BY DEF ApplyOperation, Deliver
<1>2. \/ /\ result.answer \in {"duplicate", "superseded", "refused"}
         /\ result.rows \in {rows, known, ForgetOrphans(rows, op)}
      \/ /\ result = [rows |-> Commit(known, op, "committed"), answer |-> "committed"]
         /\ ~BarrierSupersedes(op, rows.barrier)
      \/ /\ result = [rows |-> Commit(rows, op, "merged_stale"), answer |-> "merged_stale"]
         /\ Readable(rows) /\ op.method = "merge"
         /\ rows.receipt.kind # "none"
  BY FaultCases
<1> HIDE DEF result
<1>3. CASE /\ result.answer \in {"duplicate", "superseded", "refused"}
           /\ result.rows \in {rows, known, ForgetOrphans(rows, op)}
  <2>1. /\ accepted' = accepted
        /\ last' \in Replies
    BY <1>1, <1>3 DEF Replies
  <2>2. \E gone \in SUBSET Ids :
          \/ ForgetOrphans(rows, op) = rows
          \/ /\ ~Readable(rows)
             /\ ForgetOrphans(rows, op) = [rows EXCEPT !.merged = rows.merged \ gone]
    <3>1. op.ids \in SUBSET Ids /\ rows \in Rows /\ rows.merged \in SUBSET Ids
      BY OpsAssumption DEF Operation, FaultIndInv, FaultTypeOK, TypeOK, Rows
    <3>2. CASE Readable(rows)
      BY <3>2 DEF ForgetOrphans
    <3>3. CASE ~Readable(rows) /\ op.method = "set"
      BY <3>1, <3>3 DEF ForgetOrphans
    <3>4. CASE ~Readable(rows) /\ op.method # "set" /\ op.ids \subseteq rows.merged
      <4>1. rows.merged \ rows.merged = {}
        OBVIOUS
      <4>2. ForgetOrphans(rows, op) = [rows EXCEPT !.merged = rows.merged \ rows.merged]
        BY <3>4, <4>1 DEF ForgetOrphans
      <4> QED
        BY <3>1, <3>4, <4>2
    <3>5. CASE ~Readable(rows) /\ op.method # "set" /\ ~(op.ids \subseteq rows.merged)
      <4>1. ForgetOrphans(rows, op) = rows
        BY <3>1, <3>5 DEF ForgetOrphans, Rows
      <4> QED
        BY <4>1
    <3> QED
      BY <3>2, <3>3, <3>4, <3>5
  <2>3. PICK gone \in SUBSET Ids :
          \/ rows' = rows
          \/ /\ ~Readable(rows)
             /\ \/ rows' = Invalidate(rows)
                \/ rows' = [rows EXCEPT !.merged = rows.merged \ gone]
    BY <1>1, <1>3, <2>2
  <2> QED
    BY <1>1, <2>1, <2>3, OrphansPreserve
<1>4. CASE /\ result = [rows |-> Commit(known, op, "committed"), answer |-> "committed"]
           /\ ~BarrierSupersedes(op, rows.barrier)
  <2>1. /\ rows' = Commit(known, op, "committed") /\ accepted' = accepted \cup {op}
        /\ last' = [op |-> op, answer |-> "committed"]
    BY <1>1, <1>4
  <2> QED
    BY <1>1, <1>4, <2>1, FaultCommitPreserves
<1>5. CASE /\ result = [rows |-> Commit(rows, op, "merged_stale"), answer |-> "merged_stale"]
           /\ Readable(rows) /\ op.method = "merge"
           /\ rows.receipt.kind # "none"
  <2>1. /\ rows' = Commit(rows, op, "merged_stale") /\ accepted' = accepted \cup {op}
        /\ last' = [op |-> op, answer |-> "merged_stale"]
    BY <1>1, <1>5
  <2> QED
    BY <1>1, <1>5, <2>1, FaultStalePreserves
<1> QED
  BY <1>2, <1>3, <1>4, <1>5

\* The initial rows, and each step.
LEMMA FaultInitial ==
  ASSUME FaultInit, FaultBounds
  PROVE  FaultIndInv
<1>1. /\ rows = EmptyRows /\ accepted = {} /\ clock = 1 /\ loaded = {} /\ damage = 0
      /\ last \in Replies /\ base.at = Never /\ base = [at |-> Never, val |-> {}]
  BY DEF FaultInit, Init, NoCall, Replies
<1>2. NoReceipt \in Receipts /\ NoBarrier \in Barriers
  BY DEF Receipts, Barriers, NoReceipt, NoBarrier
<1>3. EmptyRows \in Rows
  BY <1>2 DEF EmptyRows, Rows
<1>4. /\ rows.state = "absent" /\ rows.at = 0 /\ rows.receipt = NoReceipt
      /\ rows.merged = {} /\ rows.barrier = NoBarrier
  BY <1>1 DEF EmptyRows
<1>5. /\ NoReceipt.kind = "none" /\ NoReceipt.op.rev = 0
      /\ NoBarrier.kind = "none" /\ NoBarrier.rev = 0
  BY DEF NoReceipt, NoOp, NoBarrier
<1>6. FaultTypeOK
  BY <1>1, <1>3 DEF FaultTypeOK, TypeOK, FaultBounds, Never
<1>7. ReceiptIsSound /\ ComponentsArePresent /\ AccidentsAreCounted
  BY <1>1, <1>4, <1>5 DEF ReceiptIsSound, ComponentsArePresent, AccidentsAreCounted
<1>8. TimesAreReached /\ OnlySlotsAreDeleted /\ NoResurrection
  BY <1>1, <1>4, <1>5 DEF TimesAreReached, OnlySlotsAreDeleted, NoResurrection
<1> QED
  BY <1>6, <1>7, <1>8 DEF FaultIndInv

\* A step that leaves the rows as they are.
LEMMA RowsUntouched ==
  ASSUME FaultIndInv, UNCHANGED <<rows, accepted, damage, base>>, last' \in Replies,
         clock' \in Nat, clock <= clock', clock' \in 0..MaxTime,
         loaded' \in SUBSET (SUBSET Levels), loaded' # {} => Kind = "slot"
  PROVE  FaultIndInv'
<1>1. FaultTypeOK'
  BY DEF FaultIndInv, FaultTypeOK, TypeOK
<1>2. ReceiptIsSound'
  BY DEF FaultIndInv, ReceiptIsSound, Readable
<1>3. ComponentsArePresent'
  BY DEF FaultIndInv, ComponentsArePresent, Readable
<1>4. TimesAreReached'
  <2>1. rows.at \in Nat /\ rows.barrier.rev \in Nat /\ rows.receipt.op.rev \in Nat
    <3>1. /\ rows.receipt.op \in Operation \cup {NoOp} /\ rows.barrier \in Barriers
          /\ rows.at \in Nat
      BY DEF FaultIndInv, FaultTypeOK, TypeOK, Rows, Receipts
    <3> QED
      BY <3>1 DEF Operation, NoOp, Barriers
  <2>2. clock \in Nat
    BY DEF FaultIndInv, FaultTypeOK
  <2> QED
    BY <2>1, <2>2 DEF FaultIndInv, TimesAreReached
<1>5. AccidentsAreCounted' /\ OnlySlotsAreDeleted' /\ NoResurrection'
  BY DEF FaultIndInv, AccidentsAreCounted, OnlySlotsAreDeleted, NoResurrection, Readable
<1> QED
  BY <1>1, <1>2, <1>3, <1>4, <1>5 DEF FaultIndInv

LEMMA FaultStep ==
  ASSUME FaultIndInv, FaultBounds, [FaultNext]_faultVars
  PROVE  FaultIndInv'
<1>1. /\ rows \in Rows /\ clock \in Nat /\ clock \in 0..MaxTime
      /\ loaded \in SUBSET (SUBSET Levels) /\ (loaded # {} => Kind = "slot")
      /\ last \in Replies /\ NoCall \in Replies
  BY DEF FaultIndInv, FaultTypeOK, TypeOK, OnlySlotsAreDeleted, NoCall, Replies
<1>2. CASE UNCHANGED faultVars
  BY <1>1, <1>2, RowsUntouched DEF faultVars
<1>3. CASE Tick
  BY <1>1, <1>3, RowsUntouched DEF Tick, FaultBounds
<1>4. ASSUME NEW op \in Ops, ApplyOperation(op)
      PROVE  FaultIndInv'
  BY <1>4, ApplyPreserves
<1>5. ASSUME NEW val \in Directs, DirectWrite(val)
      PROVE  FaultIndInv'
  BY <1>5, DirectPreserves
<1>6. ASSUME NEW kind \in {"lost", "garbled"}, Damage(kind)
      PROVE  FaultIndInv'
  BY <1>6, DamagePreserves
<1>7. CASE ReadUnreadable
  <2>1. \/ rows' = DeleteRow(Invalidate(rows))
        \/ Kind = "slot" /\ rows' = QuarantineSlot(rows, clock)
    BY <1>7 DEF ReadUnreadable, DropUnreadable
  <2> QED
    BY <1>1, <1>7, <2>1, DeletionPreserves DEF ReadUnreadable
<1>8. CASE QueryReceipt
  <2>1. rows' = IF Readable(rows) THEN rows ELSE Invalidate(rows)
    BY <1>8, RepairIsIdle DEF QueryReceipt
  <2>2. {} \in SUBSET Ids
    OBVIOUS
  <2> QED
    BY <1>1, <1>8, <2>1, <2>2, OrphansPreserve DEF QueryReceipt
<1>9. CASE LoadSlot
  <2>1. loaded' \in SUBSET (SUBSET Levels) /\ Kind = "slot"
    BY <1>1, <1>9 DEF LoadSlot, Rows
  <2> QED
    BY <1>1, <1>9, <2>1, RowsUntouched DEF LoadSlot
<1>10. CASE Quarantine
  <2>1. CASE rows' = QuarantineSlot(rows, clock)
    BY <1>1, <1>10, <2>1, DeletionPreserves DEF Quarantine
  <2>2. CASE rows' = rows
    BY <1>1, <1>10, <2>2, RowsUntouched DEF Quarantine
  <2> QED
    BY <1>10, <2>1, <2>2 DEF Quarantine
<1> QED
  BY <1>2, <1>3, <1>4, <1>5, <1>6, <1>7, <1>8, <1>9, <1>10 DEF FaultNext

-----------------------------------------------------------------------------
\* With accidents, repairs and direct writes too, the invariant is inductive.
THEOREM FaultInductive ==
  ASSUME FaultBounds
  PROVE  FaultSpec => []FaultIndInv
<1>1. FaultInit => FaultIndInv
  BY FaultInitial
<1>2. FaultIndInv /\ [FaultNext]_faultVars => FaultIndInv'
  BY FaultStep
<1> QED
  BY <1>1, <1>2, PTL DEF FaultSpec

\* The tables hold rows of their columns' types and every answer is one the
\* writer knows: an operation is never met with two payloads.
THEOREM FaultTypeCorrect ==
  ASSUME FaultBounds
  PROVE  FaultSpec => []FaultTypeOK
<1>1. FaultIndInv => FaultTypeOK
  BY DEF FaultIndInv
<1> QED
  BY <1>1, FaultInductive, PTL

\* Without an accident, a receipt has a row and names its value.
THEOREM ReceiptIsTrue ==
  ASSUME FaultBounds
  PROVE  FaultSpec => []ReceiptDescribesRow
<1>1. FaultIndInv => ReceiptDescribesRow
  BY DEF FaultIndInv, ReceiptIsSound, AccidentsAreCounted, ReceiptDescribesRow
<1> QED
  BY <1>1, FaultInductive, PTL

\* Whatever is replayed after a slot was deleted as unusable, and whatever
\* accidents follow, no operation older than the deletion brings it back.
THEOREM DeletedStaysDeleted ==
  ASSUME FaultBounds
  PROVE  FaultSpec => []NoResurrection
<1>1. FaultIndInv => NoResurrection
  BY DEF FaultIndInv
<1> QED
  BY <1>1, FaultInductive, PTL

\* The step that leaves an operation in "last" has applied it.
LEMMA LastIsApplied ==
  ASSUME FaultNext, NEW op \in Ops, last'.op = op
  PROVE  ApplyOperation(op)
<1>1. op # NoOp
  BY OpsAssumption DEF NoOp
<1>2. last' # NoCall
  BY <1>1 DEF NoCall
<1>3. ASSUME NEW other \in Ops, ApplyOperation(other)
      PROVE  ApplyOperation(op)
  <2>1. last'.op = other
    BY <1>3 DEF ApplyOperation
  <2> QED
    BY <1>3, <2>1
<1> QED
  BY <1>2, <1>3 DEF FaultNext, Tick, DirectWrite, Damage, ReadUnreadable, Quarantine,
     QueryReceipt, LoadSlot

\* An answer of "duplicate" is only given to an operation whose effect is in
\* the row, however many rows were lost and receipts outlived them.
THEOREM DuplicatesAreTrue ==
  ASSUME FaultBounds
  PROVE  FaultSpec => DuplicateIsPresent
<1>1. ASSUME FaultIndInv, FaultNext, NEW op \in accepted,
             last' = [op |-> op, answer |-> "duplicate"]
      PROVE  Readable(rows') /\ op.val \subseteq rows'.value
  <2>1. op \in Ops
    BY <1>1 DEF FaultIndInv, FaultTypeOK, TypeOK
  <2>2. ApplyOperation(op)
    BY <1>1, <2>1, LastIsApplied
  <2>3. rows' = Apply(rows, op).rows /\ Apply(rows, op).answer = "duplicate"
    BY <1>1, <2>2 DEF ApplyOperation, Deliver
  <2>4. \/ AlreadyIn(rows, op) /\ rows' = rows
        \/ /\ rows' = rows /\ Readable(rows)
           /\ rows.receipt.kind = "operation" /\ rows.receipt.op = op
    BY <1>1, <2>1, <2>3, FaultCases
  <2>5. CASE AlreadyIn(rows, op) /\ rows' = rows
    BY <1>1, <2>5 DEF AlreadyIn, FaultIndInv, ComponentsArePresent
  <2>6. CASE /\ rows' = rows /\ Readable(rows)
             /\ rows.receipt.kind = "operation" /\ rows.receipt.op = op
    BY <1>1, <2>6 DEF FaultIndInv, ReceiptIsSound
  <2> QED
    BY <2>4, <2>5, <2>6
<1>2. FaultIndInv /\ [FaultNext]_faultVars =>
        [\A op \in accepted : last' = [op |-> op, answer |-> "duplicate"]
           => Readable(rows') /\ op.val \subseteq rows'.value]_faultVars
  BY <1>1
<1> QED
  BY <1>2, FaultInductive, PTL DEF FaultSpec, DuplicateIsPresent

\* While no accident has happened, a row that is not there has nothing said of
\* it, and applying an operation forgets nothing.
LEMMA NothingToForget ==
  ASSUME FaultIndInv, damage = 0, NEW op \in Ops
  PROVE  /\ (IF Readable(rows) THEN rows ELSE Invalidate(rows)) = rows
         /\ ForgetOrphans(rows, op) = rows
<1>1. rows \in Rows
  BY DEF FaultIndInv, FaultTypeOK, TypeOK
<1>2. ~Readable(rows) => rows.receipt = NoReceipt /\ rows.merged = {}
  BY DEF FaultIndInv, ReceiptIsSound, AccidentsAreCounted
<1>3. ~Readable(rows) => Invalidate(rows) = rows
  BY <1>1, <1>2 DEF Invalidate, Rows
<1>4. CASE Readable(rows)
  BY <1>4 DEF ForgetOrphans
<1>5. CASE ~Readable(rows)
  <2>1. rows.merged \ op.ids = rows.merged /\ (op.ids \subseteq rows.merged => rows.merged = {})
    BY <1>2, <1>5
  <2>2. ForgetOrphans(rows, op) = [rows EXCEPT !.merged = rows.merged]
    BY <1>2, <1>5, <2>1 DEF ForgetOrphans
  <2> QED
    BY <1>1, <1>3, <1>5, <2>2 DEF Rows
<1> QED
  BY <1>3, <1>4, <1>5

\* An operation no barrier forbids is later than the resets accepted before
\* it, and than the replacement the value goes back to unless one was.
LEMMA BarrierAllows ==
  ASSUME BarrierIsOfBase, accepted \subseteq Ops, NEW op \in Ops, base.at \in Never..MaxTime,
         ~BarrierSupersedes(op, rows.barrier)
  PROVE  /\ op.method = "merge" => \A s \in accepted : s.method = "set" => Before(s, op)
         /\ ~ResetSince => op.at > base.at
<1>1. op.at \in Nat
  BY OpsAssumption DEF Operation
<1>2. ASSUME NEW r \in accepted, r.method = "set", op.method = "merge"
      PROVE  Before(r, op)
  <2>1. PICK s \in accepted :
          /\ s.method = "set"
          /\ rows.barrier = [kind |-> "progress_reset", rev |-> s.rev,
                             ids |-> s.ids, at |-> s.at]
          /\ \A o \in accepted : o.method = "set" => o = s \/ Before(o, s)
    BY <1>2 DEF BarrierIsOfBase, ResetSince
  <2>2. ~Before(op, s)
    BY <2>1 DEF BarrierSupersedes, Before
  <2>3. s \in Ops /\ r \in Ops /\ s # op
    BY <1>2, <2>1
  <2>4. Before(s, op)
    BY <2>2, <2>3, OpsOrder
  <2> QED
    BY <1>2, <2>1, <2>3, <2>4, OpsOrder
<1>3. ASSUME ~ResetSince, base.at = Never
      PROVE  op.at > base.at
  BY <1>1, <1>3 DEF Never
<1>4. ASSUME ~ResetSince, base.at # Never
      PROVE  op.at > base.at
  <2>1. rows.barrier.kind = "progress_baseline" /\ rows.barrier.at = base.at
    BY <1>4 DEF BarrierIsOfBase
  <2>2. ~(op.at <= base.at)
    BY <2>1 DEF BarrierSupersedes
  <2> QED
    BY <1>1, <2>2 DEF Never
<1> QED
  BY <1>2, <1>3, <1>4

\* A commit while no accident has happened.
LEMMA CommitFollows ==
  ASSUME FaultIndInv, BaselineIndInv, RowFollowsBaseline, damage = 0, Kind = "progress",
         NEW op \in Ops,
         ~BarrierSupersedes(op, rows.barrier),
         \/ rows.receipt.kind = "none"
         \/ /\ rows.receipt.kind = "operation" /\ op # rows.receipt.op
            /\ ~Before(op, rows.receipt.op)
         \/ rows.receipt.kind = "baseline",
         rows' = Commit(rows, op, "committed"), accepted' = accepted \cup {op},
         UNCHANGED <<damage, base>>
  PROVE  BaselineIndInv' /\ RowFollowsBaseline'
<1>1. /\ rows \in Rows /\ accepted \subseteq Ops /\ base.at \in Never..MaxTime
      /\ rows.state # "unreadable"
  BY DEF FaultIndInv, FaultTypeOK, TypeOK, AccidentsAreCounted
<1>2. /\ ReceiptIsNewest /\ BarrierIsOfBase
      /\ accepted = {} => rows.receipt.kind # "operation"
      /\ ~Readable(rows) => rows.value = {}
  BY DEF BaselineIndInv
<1>3. /\ rows.value = (UNION {o.val : o \in InForce}) \cup (IF ResetSince THEN {} ELSE base.val)
      /\ \A o \in accepted :
           \/ o.at > base.at
           \/ \E s \in accepted : s.method = "set" /\ Before(s, o)
  BY DEF RowFollowsBaseline, FaultIndInv, OnlySlotsAreDeleted
<1>4. /\ rows'.state = "valid"
      /\ rows'.value = IF op.method = "merge" /\ Readable(rows) THEN rows.value \cup op.val
                       ELSE op.val
      /\ rows'.receipt = [kind |-> "operation", op |-> op, value |-> rows'.value]
      /\ rows'.barrier = IF op.method = "set"
                         THEN [kind |-> "progress_reset", rev |-> op.rev,
                               ids |-> op.ids, at |-> op.at]
                         ELSE rows.barrier
  BY <1>1, CommitLeaves
<1>5. \A a \in accepted : Before(a, op)
  <2>1. CASE accepted = {}
    BY <2>1
  <2>2. CASE accepted # {}
    <3>1. /\ rows.receipt.op \in accepted /\ op # rows.receipt.op
          /\ ~Before(op, rows.receipt.op)
          /\ \A a \in accepted : a = rows.receipt.op \/ Before(a, rows.receipt.op)
      BY <1>2, <2>2 DEF ReceiptIsNewest
    <3>2. Before(rows.receipt.op, op)
      BY <1>1, <3>1, OpsOrder
    <3> QED
      BY <1>1, <3>1, <3>2, OpsOrder
  <2> QED
    BY <2>1, <2>2
<1>6. op.method \in {"set", "merge"}
  BY OpsAssumption DEF Operation
<1>7. ~ResetSince => op.at > base.at
  BY <1>1, <1>2, BarrierAllows
<1>8. ReceiptIsNewest' /\ accepted' # {} /\ Readable(rows')
  BY <1>4, <1>5 DEF ReceiptIsNewest, Readable
<1>9. \A o \in accepted' :
        \/ o.at > base'.at
        \/ \E s \in accepted' : s.method = "set" /\ Before(s, o)
  BY <1>3, <1>5, <1>7 DEF ResetSince
<1>10. BarrierIsOfBase' /\ rows'.value = (UNION {o.val : o \in InForce'})
                                         \cup (IF ResetSince' THEN {} ELSE base'.val)
  <2>1. CASE op.method = "set"
    <3>1. ResetSince'
      BY <2>1 DEF ResetSince
    <3>2. UNION {o.val : o \in InForce'} = op.val
      BY <1>1, <1>5, <2>1, ReplacementEndsForce
    <3>3. BarrierIsOfBase'
      BY <1>4, <1>5, <2>1, <3>1 DEF BarrierIsOfBase
    <3> QED
      BY <1>4, <2>1, <3>1, <3>2, <3>3
  <2>2. CASE op.method = "merge"
    <3>1. ResetSince' <=> ResetSince
      BY <2>2 DEF ResetSince
    <3>2. UNION {o.val : o \in InForce'} = (UNION {o.val : o \in InForce}) \cup op.val
      BY <1>5, <2>2, MergeJoinsForce
    <3>3. BarrierIsOfBase'
      <4>1. rows'.barrier = rows.barrier
        BY <1>4, <2>2
      <4> QED
        BY <1>2, <2>2, <3>1, <4>1 DEF BarrierIsOfBase, ResetSince
    <3>4. rows'.value = rows.value \cup op.val
      BY <1>2, <1>4, <2>2
    <3> QED
      BY <1>3, <3>1, <3>2, <3>3, <3>4
  <2> QED
    BY <1>6, <2>1, <2>2
<1> QED
  BY <1>8, <1>9, <1>10 DEF BaselineIndInv, RowFollowsBaseline

\* An older merge folded in while no accident has happened.
LEMMA StaleFollows ==
  ASSUME FaultIndInv, BaselineIndInv, RowFollowsBaseline, damage = 0, Kind = "progress",
         NEW op \in Ops, op.method = "merge",
         ~BarrierSupersedes(op, rows.barrier), Readable(rows),
         rows.receipt.kind = "operation", Before(op, rows.receipt.op),
         rows' = Commit(rows, op, "merged_stale"), accepted' = accepted \cup {op},
         UNCHANGED <<damage, base>>
  PROVE  BaselineIndInv' /\ RowFollowsBaseline'
<1>1. /\ rows \in Rows /\ rows.receipt \in Receipts
      /\ accepted \subseteq Ops /\ base.at \in Never..MaxTime
  BY DEF FaultIndInv, FaultTypeOK, TypeOK, Rows
<1>2. ReceiptIsNewest /\ BarrierIsOfBase /\ accepted # {}
  BY DEF BaselineIndInv
<1>3. /\ rows.value = (UNION {o.val : o \in InForce}) \cup (IF ResetSince THEN {} ELSE base.val)
      /\ \A o \in accepted :
           \/ o.at > base.at
           \/ \E s \in accepted : s.method = "set" /\ Before(s, o)
  BY DEF RowFollowsBaseline, FaultIndInv, OnlySlotsAreDeleted
<1>4. /\ rows'.state = "valid"
      /\ rows'.value = rows.value \cup op.val
      /\ rows'.receipt = [rows.receipt EXCEPT !.value = rows'.value]
      /\ rows'.barrier = rows.barrier
  BY <1>1, StaleLeaves
<1>5. /\ rows'.receipt.kind = rows.receipt.kind /\ rows'.receipt.op = rows.receipt.op
      /\ rows'.receipt.value = rows'.value
  BY <1>1, <1>4 DEF Receipts
<1>6. /\ \A s \in accepted : s.method = "set" => Before(s, op)
      /\ ~ResetSince => op.at > base.at
  BY <1>1, <1>2, BarrierAllows
<1>7. ReceiptIsNewest' /\ accepted' # {} /\ Readable(rows')
  BY <1>2, <1>4, <1>5 DEF ReceiptIsNewest, Readable
<1>8. \A o \in accepted' :
        \/ o.at > base'.at
        \/ \E s \in accepted' : s.method = "set" /\ Before(s, o)
  BY <1>3, <1>6 DEF ResetSince
<1>9. ResetSince' <=> ResetSince
  BY DEF ResetSince
<1>10. BarrierIsOfBase'
  BY <1>2, <1>4, <1>9 DEF BarrierIsOfBase, ResetSince
<1>11. UNION {o.val : o \in InForce'} = (UNION {o.val : o \in InForce}) \cup op.val
  BY <1>6, MergeJoinsForce
<1>12. rows'.value = (UNION {o.val : o \in InForce'})
                     \cup (IF ResetSince' THEN {} ELSE base'.val)
  BY <1>3, <1>4, <1>9, <1>11
<1> QED
  BY <1>7, <1>8, <1>10, <1>12 DEF BaselineIndInv, RowFollowsBaseline

\* A direct write begins the history anew.
LEMMA DirectFollows ==
  ASSUME FaultIndInv, FaultBounds, BaselineIndInv, damage = 0, Kind = "progress",
         NEW val \in Directs, DirectWrite(val)
  PROVE  BaselineIndInv' /\ RowFollowsBaseline'
<1>1. /\ accepted' = {} /\ ~ResetSince' /\ InForce' = {}
  BY DEF DirectWrite, ResetSince, InForce
<1>2. /\ rows'.state = "valid" /\ rows'.receipt.kind = "baseline"
      /\ base'.val = rows'.value
      /\ \/ /\ base'.at = clock' /\ rows'.barrier.kind = "progress_baseline"
            /\ rows'.barrier.at = clock'
         \/ /\ base'.at = IF ResetSince THEN Never ELSE base.at
            /\ rows'.barrier = rows.barrier
  BY DirectLeaves
<1>3. BarrierIsOfBase
  BY DEF BaselineIndInv
<1>4. BarrierIsOfBase'
  BY <1>1, <1>2, <1>3 DEF BarrierIsOfBase
<1>5. ReceiptIsNewest' /\ Readable(rows')
  BY <1>1, <1>2 DEF ReceiptIsNewest, Readable
<1>6. rows'.value = (UNION {o.val : o \in InForce'}) \cup base'.val
  BY <1>1, <1>2
<1> QED
  BY <1>1, <1>2, <1>4, <1>5, <1>6 DEF BaselineIndInv, RowFollowsBaseline

\* Nothing of what a row follows is touched.
LEMMA FollowsUntouched ==
  ASSUME BaselineIndInv, RowFollowsBaseline, UNCHANGED <<rows, accepted, damage, base>>
  PROVE  BaselineIndInv' /\ RowFollowsBaseline'
<1>1. (InForce' = InForce) /\ (ResetSince' <=> ResetSince)
  BY DEF InForce, ResetSince
<1>2. BaselineIndInv'
  BY <1>1 DEF BaselineIndInv, ReceiptIsNewest, BarrierIsOfBase, Readable
<1>3. RowFollowsBaseline'
  BY <1>1 DEF RowFollowsBaseline
<1> QED
  BY <1>2, <1>3

LEMMA FollowsStep ==
  ASSUME FaultIndInv, FaultBounds, BaselineIndInv, RowFollowsBaseline,
         Kind = "progress", [FaultNext]_faultVars
  PROVE  BaselineIndInv' /\ RowFollowsBaseline'
<1> SUFFICES ASSUME damage' = 0
             PROVE  BaselineIndInv' /\ RowFollowsBaseline'
  BY DEF BaselineIndInv, RowFollowsBaseline
<1>1. damage \in Nat /\ rows \in Rows
  BY DEF FaultIndInv, FaultTypeOK, TypeOK, FaultBounds
<1>2. ASSUME NEW kind \in {"lost", "garbled"}, Damage(kind)
      PROVE  FALSE
  BY <1>1, <1>2 DEF Damage
<1>3. UNCHANGED damage /\ damage = 0
  BY <1>2 DEF FaultNext, faultVars, Tick, ApplyOperation, DirectWrite, ReadUnreadable,
     Quarantine, QueryReceipt, LoadSlot
<1>4. ASSUME NEW op \in Ops, ApplyOperation(op)
      PROVE  BaselineIndInv' /\ RowFollowsBaseline'
  <2> DEFINE result == Apply(rows, op)
  <2>1. /\ rows' = result.rows /\ UNCHANGED base
        /\ accepted' = IF result.answer \in {"committed", "merged_stale"}
                       THEN accepted \cup {op} ELSE accepted
    BY <1>4 DEF ApplyOperation, Deliver
  <2>2. \/ result.answer \in {"duplicate", "superseded", "refused"} /\ result.rows = rows
        \/ /\ result = [rows |-> Commit(rows, op, "committed"), answer |-> "committed"]
           /\ ~BarrierSupersedes(op, rows.barrier)
           /\ \/ rows.receipt.kind = "none"
              \/ /\ rows.receipt.kind = "operation" /\ op # rows.receipt.op
                 /\ ~Before(op, rows.receipt.op)
              \/ rows.receipt.kind = "baseline"
        \/ /\ result = [rows |-> Commit(rows, op, "merged_stale"),
                        answer |-> "merged_stale"]
           /\ Readable(rows) /\ op.method = "merge"
           /\ rows.receipt.kind = "operation" /\ Before(op, rows.receipt.op)
           /\ ~BarrierSupersedes(op, rows.barrier)
    BY <1>3, NothingToForget, FaultCases
  <2> HIDE DEF result
  <2>3. CASE result.answer \in {"duplicate", "superseded", "refused"} /\ result.rows = rows
    BY <1>3, <2>1, <2>3, FollowsUntouched
  <2>4. CASE /\ result = [rows |-> Commit(rows, op, "committed"), answer |-> "committed"]
             /\ ~BarrierSupersedes(op, rows.barrier)
             /\ \/ rows.receipt.kind = "none"
                \/ /\ rows.receipt.kind = "operation" /\ op # rows.receipt.op
                   /\ ~Before(op, rows.receipt.op)
                \/ rows.receipt.kind = "baseline"
    <3>1. rows' = Commit(rows, op, "committed") /\ accepted' = accepted \cup {op}
      BY <2>1, <2>4
    <3> QED
      BY <1>3, <2>1, <2>4, <3>1, CommitFollows
  <2>5. CASE /\ result = [rows |-> Commit(rows, op, "merged_stale"),
                          answer |-> "merged_stale"]
             /\ Readable(rows) /\ op.method = "merge"
             /\ rows.receipt.kind = "operation" /\ Before(op, rows.receipt.op)
             /\ ~BarrierSupersedes(op, rows.barrier)
    <3>1. rows' = Commit(rows, op, "merged_stale") /\ accepted' = accepted \cup {op}
      BY <2>1, <2>5
    <3> QED
      BY <1>3, <2>1, <2>5, <3>1, StaleFollows
  <2> QED
    BY <2>2, <2>3, <2>4, <2>5
<1>5. ASSUME NEW val \in Directs, DirectWrite(val)
      PROVE  BaselineIndInv' /\ RowFollowsBaseline'
  BY <1>3, <1>5, DirectFollows
<1>6. CASE ReadUnreadable
  BY <1>3, <1>6 DEF ReadUnreadable, FaultIndInv, AccidentsAreCounted
<1>7. CASE QueryReceipt
  <2>1. rows.receipt.kind # "none" => Readable(rows)
    BY <1>3 DEF FaultIndInv, AccidentsAreCounted
  <2>2. RepairReceipt(rows) = rows
    BY <2>1, RepairIsIdle DEF RepairReceipt
  <2> QED
    BY <1>3, <1>7, <2>2, FollowsUntouched DEF QueryReceipt
<1>8. CASE Quarantine
  BY <1>8 DEF Quarantine, FaultIndInv, OnlySlotsAreDeleted
<1>9. CASE UNCHANGED <<rows, accepted, base>>
  BY <1>3, <1>9, FollowsUntouched
<1> QED
  BY <1>2, <1>4, <1>5, <1>6, <1>7, <1>8, <1>9 DEF FaultNext, faultVars, Tick, LoadSlot

\* Without an accident a progress row (which is never deleted) is the direct
\* write it goes back to, or the last reset since, joined with the accepted
\* merges that came after; and no operation from before a direct replacement is
\* among them unless a reset accepted since came first.
THEOREM RowFollows ==
  ASSUME FaultBounds, Kind = "progress"
  PROVE  FaultSpec => []RowFollowsBaseline
<1>1. FaultInit => BaselineIndInv /\ RowFollowsBaseline
  <2> SUFFICES ASSUME FaultInit
               PROVE  BaselineIndInv /\ RowFollowsBaseline
    OBVIOUS
  <2>1. /\ rows = EmptyRows /\ accepted = {} /\ base = [at |-> Never, val |-> {}]
        /\ InForce = {} /\ ~ResetSince
    BY DEF FaultInit, Init, InForce, ResetSince
  <2>2. rows.receipt.kind = "none" /\ rows.value = {}
    BY <2>1 DEF EmptyRows, NoReceipt
  <2>3. BaselineIndInv
    BY <2>1, <2>2 DEF BaselineIndInv, ReceiptIsNewest, BarrierIsOfBase
  <2>4. RowFollowsBaseline
    BY <2>1, <2>2 DEF RowFollowsBaseline
  <2> QED
    BY <2>3, <2>4
<1>2. FaultIndInv /\ BaselineIndInv /\ RowFollowsBaseline /\ [FaultNext]_faultVars
        => (BaselineIndInv /\ RowFollowsBaseline)'
  BY FollowsStep
<1> QED
  BY <1>1, <1>2, FaultInductive, PTL DEF FaultSpec

\* Revisions and times of the rows of a key are numbers.
LEMMA RowNumbers ==
  ASSUME NEW d \in Rows
  PROVE  /\ d.at \in Nat /\ d.receipt.op.rev \in Nat /\ d.receipt.op.at \in Nat
         /\ d.barrier.rev \in Nat /\ d.barrier.at \in Nat
<1>1. d.receipt.op \in Operation \cup {NoOp} /\ d.barrier \in Barriers /\ d.at \in Nat
  BY DEF Rows, Receipts
<1> QED
  BY <1>1 DEF Operation, NoOp, Barriers

\* The revision of an operation that is committed is not below those of the
\* receipt and of the barrier it replaces.
LEMMA CommitsRise ==
  ASSUME FaultIndInv, RevisionsFollowTime, NEW op \in Ops,
         ~BarrierSupersedes(op, rows.barrier),
         \/ rows.receipt.kind = "none"
         \/ rows.receipt.kind = "operation" /\ ~Before(op, rows.receipt.op)
         \/ rows.receipt.kind = "baseline" /\ op.at > rows.receipt.op.at
  PROVE  rows.receipt.op.rev <= op.rev /\ rows.barrier.rev <= op.rev
<1>1. rows \in Rows
  BY DEF FaultIndInv, FaultTypeOK, TypeOK
<1>2. op.rev \in Nat /\ op.at \in Nat /\ op.at <= op.rev
  BY OpsAssumption DEF Operation, RevisionsFollowTime
<1>3. rows.receipt.op.rev <= op.rev
  <2>1. CASE rows.receipt.kind = "none"
    BY <1>2, <2>1 DEF FaultIndInv, ReceiptIsSound, NoReceipt, NoOp
  <2>2. CASE rows.receipt.kind = "operation" /\ ~Before(op, rows.receipt.op)
    BY <1>1, <1>2, <2>2, RowNumbers DEF Before
  <2>3. CASE rows.receipt.kind = "baseline" /\ op.at > rows.receipt.op.at
    BY <1>1, <1>2, <2>3, RowNumbers DEF FaultIndInv, TimesAreReached
  <2> QED
    BY <2>1, <2>2, <2>3
<1>4. rows.barrier.rev <= op.rev
  <2>1. CASE rows.barrier.kind = "none"
    BY <1>2, <2>1 DEF FaultIndInv, TimesAreReached
  <2>2. CASE rows.barrier.kind = "progress_baseline"
    <3>1. ~(op.at <= rows.barrier.at)
      BY <2>2 DEF BarrierSupersedes
    <3> QED
      BY <1>1, <1>2, <2>2, <3>1, RowNumbers DEF FaultIndInv, TimesAreReached
  <2>3. CASE rows.barrier.kind \notin {"none", "progress_baseline"}
    <3>1. ~Before(op, rows.barrier)
      BY <2>3 DEF BarrierSupersedes
    <3> QED
      BY <1>1, <1>2, <3>1, RowNumbers DEF Before
  <2> QED
    BY <2>1, <2>2, <2>3
<1> QED
  BY <1>3, <1>4

\* What the largest revision of a key does in a step.
LEMMA HighWaterStep ==
  ASSUME FaultIndInv, FaultBounds, RevisionsFollowTime, [FaultNext]_faultVars, damage = 0,
         FaultIndInv'
  PROVE  HighWater(rows') >= HighWater(rows)
<1>1. rows \in Rows /\ rows' \in Rows /\ clock \in Nat
  BY DEF FaultIndInv, FaultTypeOK, TypeOK
<1>2. ASSUME rows.receipt.op.rev <= rows'.receipt.op.rev, rows.barrier.rev <= rows'.barrier.rev
      PROVE  HighWater(rows') >= HighWater(rows)
  BY <1>1, <1>2, RowNumbers DEF HighWater, Later
<1>3. ASSUME rows'.receipt = rows.receipt, rows'.barrier = rows.barrier
      PROVE  HighWater(rows') >= HighWater(rows)
  BY <1>1, <1>2, <1>3, RowNumbers
<1>4. ~Readable(rows) => rows = Invalidate(rows)
  <2> SUFFICES ASSUME ~Readable(rows)
               PROVE  rows = Invalidate(rows)
    OBVIOUS
  <2>1. rows.receipt = NoReceipt /\ rows.merged = {}
    BY DEF FaultIndInv, ReceiptIsSound, AccidentsAreCounted
  <2> QED
    BY <1>1, <2>1 DEF Invalidate, Rows
<1>5. ASSUME NEW op \in Ops, ApplyOperation(op)
      PROVE  HighWater(rows') >= HighWater(rows)
  <2> DEFINE result == Apply(rows, op)
  <2>1. rows' = result.rows
    BY <1>5 DEF ApplyOperation, Deliver
  <2>2. \/ result.rows \in {rows, ForgetOrphans(rows, op)}
        \/ /\ result.rows = Commit(rows, op, "committed")
           /\ ~BarrierSupersedes(op, rows.barrier)
           /\ \/ rows.receipt.kind = "none"
              \/ rows.receipt.kind = "operation" /\ ~Before(op, rows.receipt.op)
              \/ rows.receipt.kind = "baseline" /\ op.at > rows.receipt.op.at
        \/ /\ result.rows = Commit(rows, op, "merged_stale")
           /\ Readable(rows) /\ op.method = "merge"
    BY <1>4, FaultCases
  <2> HIDE DEF result
  <2>3. CASE result.rows \in {rows, ForgetOrphans(rows, op)}
    <3>1. rows'.receipt = rows.receipt /\ rows'.barrier = rows.barrier
      BY <1>1, <2>1, <2>3 DEF ForgetOrphans, Rows
    <3> QED
      BY <1>3, <3>1
  <2>4. CASE /\ result.rows = Commit(rows, op, "committed")
             /\ ~BarrierSupersedes(op, rows.barrier)
             /\ \/ rows.receipt.kind = "none"
                \/ rows.receipt.kind = "operation" /\ ~Before(op, rows.receipt.op)
                \/ rows.receipt.kind = "baseline" /\ op.at > rows.receipt.op.at
    <3>1. rows.receipt.op.rev <= op.rev /\ rows.barrier.rev <= op.rev
      BY <2>4, CommitsRise
    <3>2. rows' = Commit(rows, op, "committed")
      BY <2>1, <2>4
    <3>3. /\ rows'.receipt = [kind |-> "operation", op |-> op, value |-> rows'.value]
          /\ rows'.barrier = IF Kind = "progress" /\ op.method = "set"
                             THEN [kind |-> "progress_reset", rev |-> op.rev,
                                   ids |-> op.ids, at |-> op.at]
                             ELSE rows.barrier
      BY <1>1, <3>2, CommitLeaves
    <3>4. rows'.receipt.op = op /\ rows'.barrier.rev \in {rows.barrier.rev, op.rev}
      BY <3>3
    <3>5. rows.barrier.rev <= rows'.barrier.rev
      BY <1>1, <3>1, <3>4, RowNumbers
    <3> QED
      BY <1>2, <3>1, <3>4, <3>5
  <2>5. CASE /\ result.rows = Commit(rows, op, "merged_stale")
             /\ Readable(rows) /\ op.method = "merge"
    <3>1. rows'.receipt = [rows.receipt EXCEPT !.value = rows'.value]
          /\ rows'.barrier = rows.barrier
      BY <1>1, <2>1, <2>5, StaleLeaves
    <3>2. rows.receipt \in Receipts
      BY <1>1 DEF Rows
    <3>3. rows'.receipt.op = rows.receipt.op
      BY <3>1, <3>2 DEF Receipts
    <3> QED
      BY <1>1, <1>2, <3>1, <3>3, RowNumbers
  <2> QED
    BY <2>2, <2>3, <2>4, <2>5
<1>6. ASSUME NEW val \in Directs, DirectWrite(val)
      PROVE  HighWater(rows') >= HighWater(rows)
  <2>1. /\ clock' = clock + 1 /\ rows'.receipt.op.rev = clock'
        /\ \/ rows'.barrier = rows.barrier
           \/ Kind = "progress" /\ rows'.barrier.rev = clock'
    BY <1>6, DirectLeaves
  <2>2. rows.receipt.op.rev <= clock /\ (Kind = "progress" => rows.barrier.rev <= clock)
    BY DEF FaultIndInv, TimesAreReached
  <2> QED
    BY <1>1, <1>2, <2>1, <2>2, RowNumbers
<1>7. ASSUME NEW kind \in {"lost", "garbled"}, Damage(kind)
      PROVE  HighWater(rows') >= HighWater(rows)
  <2>1. rows'.receipt = rows.receipt /\ rows'.barrier = rows.barrier
    BY <1>1, <1>7 DEF Damage, DeleteRow, Rows
  <2> QED
    BY <1>3, <2>1
<1>8. CASE ReadUnreadable
  BY <1>8 DEF ReadUnreadable, FaultIndInv, AccidentsAreCounted
<1>9. CASE QueryReceipt
  <2>1. rows' = rows
    BY <1>4, <1>9, RepairIsIdle DEF QueryReceipt
  <2> QED
    BY <1>3, <2>1
<1>10. CASE Quarantine
  <2>1. CASE rows' = rows
    BY <1>3, <2>1
  <2>2. CASE rows' = QuarantineSlot(rows, clock)
    <3>1. DeleteRow(Invalidate(rows)) \in [state : {"absent"}, value : {{}}, at : {0},
            receipt : {NoReceipt}, merged : {{}}, barrier : {rows.barrier}]
      BY <1>1 DEF DeleteRow, Invalidate, Rows
    <3>2. /\ rows'.barrier.rev = Later(clock, HighWater(rows) + 1)
          /\ rows'.receipt.op.rev = 0
      BY <2>2, <3>1 DEF QuarantineSlot, NoReceipt, NoOp
    <3> QED
      BY <1>1, <3>2, RowNumbers DEF HighWater, Later
  <2> QED
    BY <1>10, <2>1, <2>2 DEF Quarantine
<1>11. CASE UNCHANGED rows
  BY <1>3, <1>11
<1> QED
  BY <1>5, <1>6, <1>7, <1>8, <1>9, <1>10, <1>11 DEF FaultNext, faultVars, Tick, LoadSlot

\* Whatever is applied, written or deleted, the revision from which a lost clock
\* is restored never falls, while no row was damaged.
THEOREM HighWaterNeverFalls ==
  ASSUME FaultBounds, RevisionsFollowTime
  PROVE  FaultSpec => HighWaterKept
<1>1. FaultIndInv /\ FaultIndInv' /\ [FaultNext]_faultVars =>
        [damage = 0 => HighWater(rows') >= HighWater(rows)]_faultVars
  BY HighWaterStep
<1> QED
  BY <1>1, FaultInductive, PTL DEF FaultSpec, HighWaterKept
=============================================================================
