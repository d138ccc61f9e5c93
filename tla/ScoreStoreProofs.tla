-------------------------- MODULE ScoreStoreProofs --------------------------
(***************************************************************************)
(* Proofs about ScoreStore, for any calls of any attempts and requests.    *)
(* The lemmas about the two tables are about ScoreTables and ScoreCalls    *)
(* alone, for the models of the ways a score takes to use them.            *)
(***************************************************************************)
EXTENDS ScoreStore, TLAPS

\* A table has a row or None for each key.
TablesTyped ==
  /\ rows \in [Attempts -> Row \cup {None}]
  /\ receipts \in [Requests -> Receipt \cup {None}]

\* A mutation of an old client that names the row it goes to.
BareHinted(m) == m.bare /\ m.hint # None

\* What a row says was said by a call of its attempt, with this revision and at
\* most this score.
RowIsOfCall(a, row) ==
  row # None => \E n \in Calls : n.att = a /\ n.rev = row.rev /\ n.score <= row.score

\* The score of the call is in a row, or a higher one is, at its revision or a
\* later one.
InTable(m, table) ==
  \E a \in {m.att, Target(m)} :
    /\ table[a] # None /\ table[a].score >= m.score /\ table[a].kind = m.kind
    /\ BareHinted(m) \/ table[a].rev >= m.rev

\* Each row is that of a call of its attempt, and each receipt that of a call
\* whose score is in the table.
TablesSound ==
  /\ TablesTyped
  /\ \A a \in Attempts : RowIsOfCall(a, rows[a])
  /\ \A r \in Requests : receipts[r] # None =>
       receipts[r].of \in Calls /\ InTable(receipts[r].of, rows)

\* The call has made a row, or its row is as new as it is.
Settled(m, table) ==
  \/ \E a \in Attempts : table[a] # None /\ table[a].req = m.req
  \/ /\ table[Target(m)] # None
     /\ IF BareHinted(m) THEN table[Target(m)].score >= m.score
        ELSE table[Target(m)].rev >= m.rev

\* What every state of the store satisfies.
StoreTypeOK == TablesTyped /\ accepted \subseteq Calls

StoreIndInv ==
  /\ StoreTypeOK
  /\ TablesSound
  /\ \A r \in Requests : receipts[r] # None => receipts[r].of \in accepted
  /\ \A m \in accepted : Settled(m, rows) /\ InTable(m, rows)

-----------------------------------------------------------------------------
\* The row of one attempt goes from one state to a later one.
Grown(old, new) ==
  old # None => /\ new # None
                /\ new.rev >= old.rev /\ new.score >= old.score
                /\ new.kind = old.kind /\ new.req = old.req

\* The tables after an accepted call whose row is new, or was raised.
Made(m) == [req |-> m.req, rev |-> m.rev, score |-> m.score, kind |-> m.kind]

RaisedTo(m, rev) == [rows EXCEPT ![Target(m)].score = m.score, ![Target(m)].rev = rev]

\* The ways a call ends.
Refused(m, reply) ==
  reply.rows = rows /\ reply.receipts = receipts /\ reply.answer \in Refusals

Repeated(m, reply) ==
  /\ reply.rows = rows /\ reply.receipts = receipts
  /\ receipts[m.req] # None /\ receipts[m.req].of = m
  /\ reply.answer \notin Refusals /\ reply.score = receipts[m.req].score

Receipted(m, reply) ==
  /\ reply.answer \notin Refusals /\ reply.score \in Nat
  /\ reply.receipts = [receipts EXCEPT ![m.req] = [of |-> m, score |-> reply.score, good |-> TRUE]]

Rebuilt(m, reply) ==
  /\ reply.rows = rows /\ Receipted(m, reply) /\ reply.score = m.score
  /\ rows[m.att] # None /\ rows[m.att].req = m.req
  /\ rows[m.att].kind = m.kind /\ rows[m.att].score = m.score
  /\ rows[m.att].rev = m.rev

Inserted(m, reply) ==
  /\ RowOfRequest(rows, m) = {} /\ Target(m) = m.att /\ rows[m.att] = None
  /\ reply.rows = [rows EXCEPT ![m.att] = Made(m)]
  /\ Receipted(m, reply) /\ reply.score = m.score

Passed(m, reply) ==
  /\ reply.rows = rows /\ Receipted(m, reply) /\ reply.score = rows[m.att].score
  /\ Target(m) = m.att /\ ~BareHinted(m)
  /\ rows[m.att] # None /\ rows[m.att].kind = m.kind
  /\ \/ m.rev < rows[m.att].rev
     \/ m.rev = rows[m.att].rev /\ m.score = rows[m.att].score

Raised(m, reply) ==
  /\ RowOfRequest(rows, m) = {} /\ Receipted(m, reply) /\ reply.score = m.score
  /\ rows[Target(m)] # None /\ rows[Target(m)].kind = m.kind
  /\ rows[Target(m)].score <= m.score
  /\ \/ /\ BareHinted(m)
        /\ reply.rows = RaisedTo(m, rows[Target(m)].rev)
     \/ /\ ~BareHinted(m) /\ Target(m) = m.att
        /\ rows[m.att].rev < m.rev
        /\ reply.rows = RaisedTo(m, m.rev)

\* An accepted call is answered with these rows and a receipt of its own.
LEMMA AcceptIsReceipted ==
  ASSUME NEW m, NEW table, NEW answer, NEW score \in Nat, NEW reply,
         answer \notin Refusals,
         reply = Accept(table, receipts, m, answer, score)
  PROVE  reply.rows = table /\ reply.score = score /\ Receipted(m, reply)
<1>1. /\ reply.rows = table /\ reply.answer = answer /\ reply.score = score
      /\ reply.receipts = [receipts EXCEPT ![m.req] = [of |-> m, score |-> score, good |-> TRUE]]
  BY Zenon DEF Accept, Reply
<1>2. Receipted(m, reply)
  BY <1>1, Zenon DEF Receipted
<1> QED
  BY <1>1, <1>2

\* Every call ends in one of these ways, and none but an insertion and a raise
\* changes a row.
LEMMA RecordCases ==
  ASSUME TablesTyped, NEW m \in Mutation, NEW reply, reply = Record(rows, receipts, m)
  PROVE  \/ Refused(m, reply) \/ Repeated(m, reply) \/ Rebuilt(m, reply)
         \/ Inserted(m, reply) \/ Passed(m, reply) \/ Raised(m, reply)
<1> DEFINE receipt == receipts[m.req]
<1>1. /\ m \in Mutation /\ m.req \in Requests /\ m.att \in Attempts
      /\ m.hint \in Attempts \cup {None} /\ m.rev \in Nat /\ m.score \in Nat
      /\ Target(m) \in Attempts
  BY DEF Mutation, Target
<1>2. CASE receipt # None /\ receipt.of # m
  BY <1>2 DEF Record, Refuse, Reply, Refused, Refusals
<1>3. CASE receipt # None /\ receipt.of = m /\ receipt.good
  BY <1>3 DEF Record, Reply, Repeated, Refusals
<1>4. CASE /\ ~(receipt # None /\ receipt.of # m)
           /\ ~(receipt # None /\ receipt.good)
  <2>1. CASE RowOfRequest(rows, m) # {}
    <3>1. CASE \A a \in RowOfRequest(rows, m) : SameRequest(rows[a], a, m)
      <4>1. reply = Accept(rows, receipts, m, "rebuilt", m.score)
        BY <1>4, <2>1, <3>1 DEF Record
      <4>2. PICK a \in RowOfRequest(rows, m) : SameRequest(rows[a], a, m)
        BY <2>1, <3>1
      <4>3. /\ rows[m.att] # None /\ rows[m.att].req = m.req
            /\ rows[m.att].kind = m.kind /\ rows[m.att].score = m.score
            /\ rows[m.att].rev = m.rev
        BY <4>2 DEF RowOfRequest, SameRequest
      <4>4. Receipted(m, reply)
        BY <1>1, <4>1, AcceptIsReceipted DEF Refusals
      <4> QED
        BY <1>1, <4>1, <4>3, <4>4, AcceptIsReceipted DEF Rebuilt, Refusals
    <3>2. CASE ~(\A a \in RowOfRequest(rows, m) : SameRequest(rows[a], a, m))
      BY <1>4, <2>1, <3>2 DEF Record, Refuse, Reply, Refused, Refusals
    <3> QED
      BY <3>1, <3>2
  <2>2. CASE RowOfRequest(rows, m) = {} /\ HintError(rows, m) # "none"
    <3>1. reply = Refuse(rows, receipts, HintError(rows, m))
      BY <1>4, <2>2 DEF Record
    <3>2. HintError(rows, m) \in Refusals
      BY <2>2 DEF HintError, Refusals
    <3> QED
      BY <3>1, <3>2 DEF Refuse, Reply, Refused
  <2>3. CASE RowOfRequest(rows, m) = {} /\ HintError(rows, m) = "none"
    <3>1. reply = IF rows[Target(m)] = None THEN Insert(rows, receipts, m)
                  ELSE Update(rows, receipts, m)
      BY <1>4, <2>3 DEF Record
    <3>2. m.hint # None => rows[m.hint] # None
      BY <2>3 DEF HintError
    <3>3. ~(m.bare /\ m.hint # None) => Target(m) = m.att
      BY <2>3 DEF HintError, Target
    <3>4. CASE rows[Target(m)] = None
      <4>1. Target(m) = m.att
        BY <3>2, <3>4 DEF Target
      <4>2. reply = Insert(rows, receipts, m)
        BY <3>1, <3>4
      <4>3. Receipted(m, reply)
        BY <1>1, <4>2, AcceptIsReceipted DEF Insert, Refusals
      <4> QED
        BY <1>1, <2>3, <3>4, <4>1, <4>2, <4>3, AcceptIsReceipted DEF Insert, Inserted, Made, Refusals
    <3>5. CASE rows[Target(m)] # None
      <4> DEFINE row == rows[Target(m)]
      <4>1. reply = Update(rows, receipts, m)
        BY <3>1, <3>5
      <4>2. row \in Row /\ row.rev \in Nat /\ row.score \in Nat
        BY <1>1, <3>5 DEF TablesTyped, Row
      <4>3. ASSUME NEW rev, reply = Raise(rows, receipts, m, rev), row.kind = m.kind
            PROVE  \/ Refused(m, reply)
                   \/ /\ Receipted(m, reply) /\ reply.score = m.score /\ row.score <= m.score
                      /\ reply.rows = RaisedTo(m, rev)
        <5>1. CASE Target(m) \in FinalOnly \/ m.score < row.score
          BY <4>3, <5>1 DEF Raise, Refuse, Reply, Refused, Refusals
        <5>2. CASE ~(Target(m) \in FinalOnly \/ m.score < row.score)
          <6>1. reply = Accept(RaisedTo(m, rev), receipts, m, "updated", m.score)
            BY <4>3, <5>2 DEF Raise, RaisedTo
          <6>2. Receipted(m, reply)
            BY <1>1, <6>1, AcceptIsReceipted DEF Refusals
          <6> QED
            BY <1>1, <4>2, <5>2, <6>1, <6>2, AcceptIsReceipted DEF Refusals
        <5> QED
          BY <5>1, <5>2
      <4>4. CASE row.kind # m.kind
        BY <4>1, <4>4 DEF Update, Refuse, Reply, Refused, Refusals
      <4>5. CASE row.kind = m.kind /\ m.bare /\ m.hint # None
        <5>1. reply = Raise(rows, receipts, m, row.rev)
          BY <4>1, <4>5 DEF Update
        <5> QED
          BY <2>3, <3>5, <4>3, <4>5, <5>1 DEF Raised, BareHinted
      <4>6. CASE row.kind = m.kind /\ ~(m.bare /\ m.hint # None)
        <5>1. Target(m) = m.att
          BY <3>3, <4>6
        <5>2. CASE m.rev > row.rev
          <6>1. reply = Raise(rows, receipts, m, m.rev)
            BY <1>1, <4>1, <4>2, <4>6, <5>2 DEF Update
          <6> QED
            BY <1>1, <2>3, <3>5, <4>2, <4>3, <4>6, <5>1, <5>2, <6>1 DEF Raised, BareHinted
        <5>3. CASE m.rev < row.rev \/ (m.rev = row.rev /\ m.score = row.score)
          <6>1. CASE m.rev < row.rev
            <7>1. reply = Accept(rows, receipts, m, "stale", row.score)
              BY <1>1, <4>1, <4>2, <4>6, <6>1 DEF Update
            <7> QED
              BY <3>5, <4>2, <4>6, <5>1, <6>1, <7>1, AcceptIsReceipted DEF Passed, BareHinted, Refusals
          <6>2. CASE m.rev = row.rev /\ m.score = row.score
            <7>1. ~(m.rev < row.rev) /\ ~(m.rev > row.rev)
              BY <1>1, <4>2, <6>2
            <7>2. reply = Accept(rows, receipts, m, "no_op", row.score)
              BY <4>1, <4>6, <6>2, <7>1 DEF Update
            <7> QED
              BY <3>5, <4>2, <4>6, <5>1, <6>2, <7>2, AcceptIsReceipted DEF Passed, BareHinted, Refusals
          <6> QED
            BY <5>3, <6>1, <6>2
        <5>4. CASE m.rev = row.rev /\ m.score # row.score
          BY <1>1, <4>1, <4>2, <4>6, <5>4 DEF Update, Refuse, Reply, Refused, Refusals
        <5>5. m.rev > row.rev \/ m.rev < row.rev \/ m.rev = row.rev
          BY <1>1, <4>2
        <5> QED
          BY <5>2, <5>3, <5>4, <5>5
      <4> QED
        BY <4>4, <4>5, <4>6
    <3> QED
      BY <3>4, <3>5
  <2> QED
    BY <2>1, <2>2, <2>3
<1> QED
  BY <1>2, <1>3, <1>4

-----------------------------------------------------------------------------
\* A recorded call keeps the types of the tables.
LEMMA RecordTypes ==
  ASSUME TablesTyped, NEW m \in Mutation, Commits(Record(rows, receipts, m))
  PROVE  TablesTyped'
<1> DEFINE reply == Record(rows, receipts, m)
<1>1. /\ m \in Mutation /\ m.req \in Requests /\ m.att \in Attempts
      /\ Target(m) \in Attempts /\ m.rev \in Nat \ {0} /\ m.score \in Nat
      /\ m.kind \in Kinds
  BY DEF Mutation, Target
<1>2. rows' = reply.rows /\ receipts' = reply.receipts
  BY DEF Commits
<1>3. receipts' = receipts \/ Receipted(m, reply)
  BY <1>2, RecordCases DEF Refused, Repeated, Rebuilt, Inserted, Passed, Raised
<1>4. receipts' \in [Requests -> Receipt \cup {None}]
  <2>1. CASE Receipted(m, reply)
    <3>1. PICK score \in Nat :
            receipts' = [receipts EXCEPT ![m.req] = [of |-> m, score |-> score, good |-> TRUE]]
      BY <1>2, <2>1 DEF Receipted
    <3>2. [of |-> m, score |-> score, good |-> TRUE] \in Receipt
      BY <1>1 DEF Receipt
    <3> QED
      BY <3>1, <3>2 DEF TablesTyped
  <2> QED
    BY <1>3, <2>1 DEF TablesTyped
<1>5. rows' \in [Attempts -> Row \cup {None}]
  <2>1. CASE reply.rows = rows
    BY <1>2, <2>1 DEF TablesTyped
  <2>2. CASE Inserted(m, reply)
    <3>1. Made(m) \in Row
      BY <1>1 DEF Made, Row
    <3> QED
      BY <1>2, <2>2, <3>1 DEF TablesTyped, Inserted
  <2>3. CASE Raised(m, reply)
    <3>1. rows[Target(m)] \in Row
      BY <1>1, <2>3 DEF Raised, TablesTyped
    <3>2. PICK rev \in Nat \ {0} : rows' = RaisedTo(m, rev)
      BY <1>1, <1>2, <2>3, <3>1 DEF Raised, Row
    <3> QED
      BY <1>1, <3>1, <3>2 DEF TablesTyped, RaisedTo, Row
  <2> QED
    BY <2>1, <2>2, <2>3, RecordCases DEF Refused, Repeated, Rebuilt, Passed
<1> QED
  BY <1>4, <1>5 DEF TablesTyped

\* A row stays as it is when the table does.
LEMMA RowsStay ==
  ASSUME TablesTyped, NEW a \in Attempts, rows'[a] = rows[a]
  PROVE  Grown(rows[a], rows'[a])
<1>1. \A row \in Row : Grown(row, row)
  BY DEF Grown, Row
<1> QED
  BY <1>1 DEF TablesTyped, Grown

\* A row is not taken back by a recorded call.
LEMMA RecordGrows ==
  ASSUME TablesTyped, NEW m \in Mutation, Commits(Record(rows, receipts, m)), NEW a \in Attempts
  PROVE  Grown(rows[a], rows'[a])
<1> DEFINE reply == Record(rows, receipts, m)
<1>1. Target(m) \in Attempts /\ m.rev \in Nat /\ m.score \in Nat
  BY DEF Mutation, Target
<1>2. rows' = reply.rows
  BY DEF Commits
<1>3. CASE Inserted(m, reply)
  <2>1. CASE a = m.att
    BY <1>3, <2>1 DEF Inserted, Grown
  <2>2. CASE a # m.att
    BY <1>2, <1>3, <2>2, RowsStay DEF Inserted, TablesTyped
  <2> QED
    BY <2>1, <2>2
<1>4. CASE Raised(m, reply)
  <2>1. rows[Target(m)] \in Row /\ rows[Target(m)] # None
    BY <1>1, <1>4 DEF Raised, TablesTyped
  <2>2. PICK rev \in Nat : rows' = RaisedTo(m, rev) /\ rev >= rows[Target(m)].rev
    BY <1>1, <1>2, <1>4, <2>1 DEF Raised, Row
  <2>3. CASE a = Target(m)
    <3>1. rows'[a] = [rows[a] EXCEPT !.score = m.score, !.rev = rev]
      BY <2>2, <2>3 DEF RaisedTo, TablesTyped
    <3> DEFINE row == rows[a]
               new == [row EXCEPT !.score = m.score, !.rev = rev]
    <3>2. row \in Row /\ row.score <= m.score /\ row.rev <= rev
      BY <1>1, <1>4, <2>1, <2>2, <2>3 DEF Raised, Row
    <3>3. rev \in Nat \ {0}
      BY <2>2, <3>2 DEF Row
    <3>4. new \in Row
      BY <1>1, <3>2, <3>3 DEF Row
    <3>5. new.rev = rev /\ new.score = m.score /\ new.kind = row.kind /\ new.req = row.req
      BY <3>2 DEF Row
    <3>6. Grown(row, new)
      BY <1>1, <3>2, <3>3, <3>4, <3>5, ScoreAssumption DEF Grown, Row
    <3> QED
      BY <3>1, <3>6
  <2>4. CASE a # Target(m)
    BY <2>2, <2>4, RowsStay DEF RaisedTo, TablesTyped
  <2> QED
    BY <2>3, <2>4
<1>5. CASE rows' = rows
  BY <1>5, RowsStay
<1> QED
  BY <1>2, <1>3, <1>4, <1>5, RecordCases DEF Refused, Repeated, Rebuilt, Passed

\* What holds of a call in the tables holds of it in later tables.
LEMMA TableKeeps ==
  ASSUME TablesTyped, TablesTyped', NEW m \in Calls,
         \A a \in Attempts : Grown(rows[a], rows'[a])
  PROVE  /\ InTable(m, rows) => InTable(m, rows')
         /\ Settled(m, rows) => Settled(m, rows')
<1>1. /\ m.att \in Attempts /\ Target(m) \in Attempts /\ m.rev \in Nat /\ m.score \in Nat
  BY CallsAssumption DEF Mutation, Target
<1>2. \A a \in Attempts :
        /\ rows[a] # None => rows[a].rev \in Nat /\ rows[a].score \in Nat
        /\ rows'[a] # None => rows'[a].rev \in Nat /\ rows'[a].score \in Nat
  BY DEF TablesTyped, Row
<1>3. ASSUME Settled(m, rows)
      PROVE  Settled(m, rows')
  <2>1. CASE \E a \in Attempts : rows[a] # None /\ rows[a].req = m.req
    BY <2>1 DEF Grown, Settled
  <2>2. CASE /\ rows[Target(m)] # None
             /\ IF BareHinted(m) THEN rows[Target(m)].score >= m.score
                ELSE rows[Target(m)].rev >= m.rev
    <3>1. Grown(rows[Target(m)], rows'[Target(m)])
      BY <1>1
    <3> QED
      BY <1>1, <1>2, <2>2, <3>1 DEF Grown, Settled
  <2> QED
    BY <1>3, <2>1, <2>2 DEF Settled
<1>4. ASSUME InTable(m, rows)
      PROVE  InTable(m, rows')
  <2>1. PICK a \in {m.att, Target(m)} :
          /\ rows[a] # None /\ rows[a].score >= m.score /\ rows[a].kind = m.kind
          /\ BareHinted(m) \/ rows[a].rev >= m.rev
    BY <1>4 DEF InTable
  <2>2. a \in Attempts /\ Grown(rows[a], rows'[a])
    BY <1>1
  <2>3. /\ rows'[a] # None /\ rows'[a].score >= m.score /\ rows'[a].kind = m.kind
        /\ BareHinted(m) \/ rows'[a].rev >= m.rev
    BY <1>1, <1>2, <2>1, <2>2 DEF Grown
  <2> QED
    BY <2>3 DEF InTable
<1> QED
  BY <1>3, <1>4

\* What a call says that is accepted is in the table at once.
LEMMA AcceptedNow ==
  ASSUME TablesSound, NEW m \in Calls, Commits(Record(rows, receipts, m)),
         Record(rows, receipts, m).answer \notin Refusals
  PROVE  /\ InTable(m, rows')
         /\ \/ Settled(m, rows')
            \/ receipts[m.req] # None /\ receipts[m.req].of = m
<1> DEFINE reply == Record(rows, receipts, m)
<1>1. /\ m.att \in Attempts /\ Target(m) \in Attempts /\ m.rev \in Nat /\ m.score \in Nat
      /\ m.req \in Requests /\ TablesTyped /\ rows' = reply.rows
  BY CallsAssumption DEF Mutation, Target, TablesSound, Commits
<1>2. ~Refused(m, reply)
  BY DEF Refused
<1>3. CASE Repeated(m, reply)
  BY <1>1, <1>3 DEF Repeated, TablesSound
<1>4. CASE Rebuilt(m, reply)
  BY <1>1, <1>4 DEF Rebuilt, Settled, InTable
<1>5. CASE Inserted(m, reply)
  <2>1. rows'[m.att] = Made(m) /\ rows'[m.att] # None
    <3>1. Made(m) \in Row
      BY CallsAssumption DEF Made, Row, Mutation
    <3> QED
      BY <1>1, <1>5, <3>1, ScoreAssumption DEF Inserted, TablesTyped
  <2> QED
    BY <1>1, <2>1 DEF Made, Settled, InTable
<1>6. CASE Passed(m, reply)
  <2>1. rows[m.att].rev \in Nat /\ rows[m.att].score \in Nat
    BY <1>1, <1>6 DEF Passed, TablesTyped, Row
  <2>2. rows[m.att].score >= m.score
    <3>1. CASE m.rev < rows[m.att].rev
      <4>1. PICK n \in Calls : n.att = m.att /\ n.rev = rows[m.att].rev
                               /\ n.score <= rows[m.att].score
        BY <1>1, <1>6 DEF Passed, TablesSound, RowIsOfCall
      <4>2. m.score <= n.score /\ n.score \in Nat
        BY <3>1, <4>1, CallsAssumption DEF Mutation
      <4> QED
        BY <1>1, <2>1, <4>1, <4>2
    <3> QED
      BY <1>1, <1>6, <2>1, <3>1 DEF Passed
  <2>3. rows[m.att].rev >= m.rev
    BY <1>1, <1>6, <2>1 DEF Passed
  <2> QED
    BY <1>1, <1>6, <2>1, <2>2, <2>3 DEF Passed, Settled, InTable
<1>7. CASE Raised(m, reply)
  <2>1. rows[Target(m)] \in Row
    BY <1>1, <1>7 DEF Raised, TablesTyped
  <2>2. PICK rev \in Nat : rows' = RaisedTo(m, rev) /\ (BareHinted(m) \/ rev = m.rev)
    BY <1>1, <1>7, <2>1 DEF Raised, Row
  <2>3. /\ rows'[Target(m)].score = m.score /\ rows'[Target(m)].rev = rev
        /\ rows'[Target(m)].kind = m.kind
    BY <1>1, <1>7, <2>1, <2>2 DEF RaisedTo, TablesTyped, Raised, Row
  <2>4. rows'[Target(m)] # None
    <3>1. Grown(rows[Target(m)], rows'[Target(m)])
      BY <1>1, CallsAssumption, RecordGrows
    <3> QED
      BY <1>7, <3>1 DEF Raised, Grown
  <2>5. InTable(m, rows')
    BY <1>1, <2>2, <2>3, <2>4 DEF InTable
  <2>6. Settled(m, rows')
    BY <1>1, <2>2, <2>3, <2>4 DEF Settled
  <2> QED
    BY <2>5, <2>6
<1> QED
  BY <1>1, <1>2, <1>3, <1>4, <1>5, <1>6, <1>7, CallsAssumption, RecordCases

\* Each row stays that of a call of its attempt.
LEMMA RowOfCallStep ==
  ASSUME TablesSound, NEW m \in Calls, Commits(Record(rows, receipts, m)), NEW a \in Attempts
  PROVE  RowIsOfCall(a, rows'[a])
<1> DEFINE reply == Record(rows, receipts, m)
<1>1. /\ m.att \in Attempts /\ Target(m) \in Attempts /\ m.rev \in Nat /\ m.score \in Nat
      /\ TablesTyped /\ rows' = reply.rows
  BY CallsAssumption DEF Mutation, Target, TablesSound, Commits
<1>2. CASE rows'[a] = rows[a]
  BY <1>2 DEF TablesSound
<1>3. CASE Inserted(m, reply) /\ a = m.att
  <2>1. rows'[a] = Made(m)
    BY <1>1, <1>3 DEF Inserted, TablesTyped
  <2> QED
    BY <1>1, <1>3, <2>1 DEF RowIsOfCall, Made
<1>4. CASE Raised(m, reply) /\ a = Target(m)
  <2>1. rows[a] \in Row /\ rows[a] # None /\ rows[a].score <= m.score
    BY <1>1, <1>4 DEF Raised, TablesTyped
  <2>2. CASE reply.rows = RaisedTo(m, rows[a].rev)
    <3>1. rows'[a].rev = rows[a].rev /\ rows'[a].score = m.score
      BY <1>1, <1>4, <2>1, <2>2 DEF RaisedTo, TablesTyped, Row
    <3>2. PICK n \in Calls : n.att = a /\ n.rev = rows[a].rev /\ n.score <= rows[a].score
      BY <2>1 DEF TablesSound, RowIsOfCall
    <3>3. n.score \in Nat /\ rows[a].score \in Nat
      BY <2>1, <3>2, CallsAssumption DEF Mutation, Row
    <3> QED
      BY <1>1, <2>1, <3>1, <3>2, <3>3 DEF RowIsOfCall
  <2>3. CASE Target(m) = m.att /\ reply.rows = RaisedTo(m, m.rev)
    <3>1. rows'[a].rev = m.rev /\ rows'[a].score = m.score
      BY <1>1, <1>4, <2>1, <2>3 DEF RaisedTo, TablesTyped, Row
    <3> QED
      BY <1>1, <1>4, <2>3, <3>1 DEF RowIsOfCall
  <2> QED
    BY <1>4, <2>2, <2>3 DEF Raised
<1>5. CASE Inserted(m, reply) /\ a # m.att
  BY <1>1, <1>2, <1>5 DEF Inserted, TablesTyped
<1>6. CASE Raised(m, reply) /\ a # Target(m)
  BY <1>1, <1>2, <1>6 DEF Raised, RaisedTo, TablesTyped
<1> QED
  BY <1>1, <1>2, <1>3, <1>4, <1>5, <1>6, CallsAssumption, RecordCases DEF Refused, Repeated, Rebuilt, Passed

\* A receipt is the one there was, or that of the call just accepted.
LEMMA RecordReceipts ==
  ASSUME TablesTyped, NEW m \in Mutation, Commits(Record(rows, receipts, m)), NEW r \in Requests
  PROVE  \/ receipts'[r] = receipts[r]
         \/ /\ r = m.req /\ receipts'[r].of = m
            /\ receipts'[r].score = Record(rows, receipts, m).score
            /\ Record(rows, receipts, m).answer \notin Refusals
<1> DEFINE reply == Record(rows, receipts, m)
<1>1. receipts' = reply.receipts
  BY DEF Commits
<1>2. CASE Receipted(m, reply)
  BY <1>1, <1>2 DEF Receipted, TablesTyped
<1> QED
  BY <1>1, <1>2, RecordCases DEF Refused, Repeated, Rebuilt, Inserted, Passed, Raised

\* A recorded call keeps the tables sound; if it was accepted, what it says is
\* in them.
LEMMA RecordSound ==
  ASSUME TablesSound, NEW m \in Calls, Commits(Record(rows, receipts, m))
  PROVE  /\ TablesSound'
         /\ \A a \in Attempts : Grown(rows[a], rows'[a])
         /\ Record(rows, receipts, m).answer \notin Refusals => InTable(m, rows')
<1>1. TablesTyped /\ TablesTyped' /\ \A a \in Attempts : Grown(rows[a], rows'[a])
  BY CallsAssumption, RecordTypes, RecordGrows DEF TablesSound
<1>2. \A a \in Attempts : RowIsOfCall(a, rows'[a])
  BY RowOfCallStep
<1>3. Record(rows, receipts, m).answer \notin Refusals => InTable(m, rows')
  BY AcceptedNow
<1>4. ASSUME NEW r \in Requests, receipts'[r] # None
      PROVE  receipts'[r].of \in Calls /\ InTable(receipts'[r].of, rows')
  <2>1. CASE receipts'[r] = receipts[r]
    <3>1. receipts[r].of \in Calls /\ InTable(receipts[r].of, rows)
      BY <1>4, <2>1 DEF TablesSound
    <3> QED
      BY <1>1, <2>1, <3>1, TableKeeps
  <2>2. CASE receipts'[r].of = m /\ Record(rows, receipts, m).answer \notin Refusals
    BY <1>3, <2>2
  <2> QED
    BY <1>1, <2>1, <2>2, CallsAssumption, RecordReceipts
<1> QED
  BY <1>1, <1>2, <1>3, <1>4 DEF TablesSound

\* So does a receipt that expires or is damaged.
LEMMA WearSound ==
  ASSUME TablesSound, NEW r \in Requests, receipts[r] # None, rows' = rows,
         receipts' \in {Expired(receipts, r), Damaged(receipts, r)}
  PROVE  /\ TablesSound'
         /\ \A q \in Requests :
              receipts'[q] # None => receipts[q] # None /\ receipts'[q].of = receipts[q].of
<1>1. TablesTyped
  BY DEF TablesSound
<1>2. CASE receipts' = Expired(receipts, r)
  <2>1. /\ receipts' \in [Requests -> Receipt \cup {None}]
        /\ \A q \in Requests : receipts'[q] \in {receipts[q], None}
    BY <1>1, <1>2 DEF Expired, TablesTyped
  <2> QED
    BY <1>1, <2>1 DEF TablesSound, TablesTyped
<1>3. CASE receipts' = Damaged(receipts, r)
  <2> DEFINE damaged == [receipts[r] EXCEPT !.good = FALSE]
  <2>1. receipts[r] \in Receipt
    BY <1>1 DEF TablesTyped
  <2>2. damaged \in Receipt /\ damaged.of = receipts[r].of
    BY <2>1 DEF Receipt
  <2>3. receipts' = [receipts EXCEPT ![r] = damaged]
    BY <1>1, <1>3 DEF Damaged, TablesTyped
  <2> HIDE DEF damaged
  <2>4. /\ receipts' \in [Requests -> Receipt \cup {None}]
        /\ \A q \in Requests :
             receipts'[q] # None => receipts[q] # None /\ receipts'[q].of = receipts[q].of
    BY <1>1, <2>2, <2>3 DEF TablesTyped
  <2> QED
    BY <1>1, <2>4 DEF TablesSound, TablesTyped
<1> QED
  BY <1>2, <1>3

-----------------------------------------------------------------------------
\* At every step the tables are well-typed, each row and each receipt is that
\* of a call, and what was accepted is in them.
LEMMA StoreStep ==
  ASSUME StoreIndInv, [StoreNext]_storeVars
  PROVE  StoreIndInv' /\ \A a \in Attempts : Grown(rows[a], rows'[a])
<1>1. TablesSound /\ TablesTyped /\ accepted \subseteq Calls
  BY DEF StoreIndInv, StoreTypeOK
<1>2. CASE UNCHANGED storeVars
  <2>1. UNCHANGED <<rows, receipts, accepted>>
    BY <1>2 DEF storeVars, tables
  <2> QED
    BY <1>1, <2>1, RowsStay
    DEF StoreIndInv, StoreTypeOK, TablesSound, TablesTyped
<1>3. ASSUME NEW m \in Calls, Deliver(m)
      PROVE  StoreIndInv' /\ \A a \in Attempts : Grown(rows[a], rows'[a])
  <2> DEFINE reply == Record(rows, receipts, m)
  <2>1. /\ Commits(reply)
        /\ accepted' = IF reply.answer \in Refusals THEN accepted ELSE accepted \cup {m}
    BY <1>3 DEF Deliver
  <2>2. /\ TablesSound' /\ TablesTyped' /\ \A a \in Attempts : Grown(rows[a], rows'[a])
        /\ reply.answer \notin Refusals => InTable(m, rows')
    BY <1>1, <2>1, RecordSound DEF TablesSound
  <2>3. accepted' \subseteq Calls
    BY <1>1, <2>1
  <2>4. ASSUME NEW r \in Requests, receipts'[r] # None
        PROVE  receipts'[r].of \in accepted'
    BY <1>1, <2>1, <2>4, CallsAssumption, RecordReceipts DEF StoreIndInv
  <2>5. ASSUME NEW n \in accepted'
        PROVE  Settled(n, rows') /\ InTable(n, rows')
    <3>1. CASE n \in accepted
      BY <1>1, <2>2, <3>1, TableKeeps DEF StoreIndInv
    <3>2. CASE n \notin accepted
      <4>1. n = m /\ reply.answer \notin Refusals /\ m \notin accepted
        BY <2>1, <2>5, <3>2
      <4>2. m.req \in Requests
        BY CallsAssumption DEF Mutation
      <4>3. ~(receipts[m.req] # None /\ receipts[m.req].of = m)
        BY <4>1, <4>2 DEF StoreIndInv
      <4> QED
        BY <1>1, <2>1, <4>1, <4>3, AcceptedNow
    <3> QED
      BY <3>1, <3>2
  <2> QED
    BY <2>2, <2>3, <2>4, <2>5 DEF StoreIndInv, StoreTypeOK
<1>4. ASSUME NEW r \in Requests, Expire(r) \/ Damage(r)
      PROVE  StoreIndInv' /\ \A a \in Attempts : Grown(rows[a], rows'[a])
  <2>1. /\ receipts[r] # None /\ rows' = rows /\ accepted' = accepted
        /\ receipts' \in {Expired(receipts, r), Damaged(receipts, r)}
    BY <1>4 DEF Expire, Damage
  <2>2. /\ TablesSound'
        /\ \A q \in Requests :
             receipts'[q] # None => receipts[q] # None /\ receipts'[q].of = receipts[q].of
    BY <1>1, <2>1, WearSound
  <2> QED
    BY <1>1, <2>1, <2>2, RowsStay DEF StoreIndInv, StoreTypeOK, TablesSound
<1> QED
  BY <1>2, <1>3, <1>4 DEF StoreNext

THEOREM ScoresInductive == StoreSpec => []StoreIndInv
<1>1. StoreInit => StoreIndInv
  BY DEF StoreInit, TablesInit, StoreIndInv, StoreTypeOK, TablesTyped, TablesSound,
         RowIsOfCall
<1>2. StoreIndInv /\ [StoreNext]_storeVars => StoreIndInv'
  BY StoreStep
<1> QED
  BY <1>1, <1>2, PTL DEF StoreSpec

\* What the store has accepted is in the row of its attempt, or something higher
\* is, for good.
THEOREM AcceptedStays == StoreSpec => []AcceptedIsIn
<1>1. StoreIndInv => AcceptedIsIn
  BY DEF StoreIndInv, InTable, AcceptedIsIn
<1> QED
  BY <1>1, ScoresInductive, PTL

\* Whatever is delivered, expires or is damaged, a row, its revision and its
\* score only rise.
THEOREM RowsGrow == StoreSpec => RowsOnlyGrow
<1>1. StoreIndInv /\ [StoreNext]_storeVars =>
        \A a \in DOMAIN rows : rows[a] # None =>
          /\ rows'[a] # None
          /\ rows'[a].rev >= rows[a].rev /\ rows'[a].score >= rows[a].score
          /\ rows'[a].kind = rows[a].kind /\ rows'[a].req = rows[a].req
  <2> SUFFICES ASSUME StoreIndInv, [StoreNext]_storeVars, NEW a \in DOMAIN rows
               PROVE  Grown(rows[a], rows'[a])
    BY DEF Grown
  <2> QED
    BY StoreStep DEF StoreIndInv, StoreTypeOK, TablesTyped
<1> QED
  BY <1>1, ScoresInductive, PTL DEF StoreSpec, RowsOnlyGrow

\* An accepted call that is sent again changes no row, with or without its
\* receipt.
THEOREM RetryIsHarmless == StoreSpec => []RetryChangesNothing
<1>1. StoreIndInv => RetryChangesNothing
  <2> SUFFICES ASSUME StoreIndInv, NEW m \in accepted
               PROVE  Record(rows, receipts, m).rows = rows
    BY DEF RetryChangesNothing
  <2> DEFINE reply == Record(rows, receipts, m)
  <2>1. /\ m \in Calls /\ TablesTyped /\ Settled(m, rows)
        /\ Target(m) \in Attempts /\ m.rev \in Nat /\ m.score \in Nat
    BY CallsAssumption DEF StoreIndInv, StoreTypeOK, Mutation, Target
  <2>2. CASE Inserted(m, reply)
    BY <2>1, <2>2 DEF Inserted, Settled, RowOfRequest
  <2>3. CASE Raised(m, reply)
    <3>1. /\ rows[Target(m)] \in Row /\ RowOfRequest(rows, m) = {}
          /\ rows[Target(m)].score <= m.score
      BY <2>1, <2>3 DEF Raised, TablesTyped
    <3>2. IF BareHinted(m) THEN rows[Target(m)].score >= m.score
          ELSE rows[Target(m)].rev >= m.rev
      BY <2>1, <3>1 DEF Settled, RowOfRequest
    <3>3. /\ reply.rows = RaisedTo(m, rows[Target(m)].rev)
          /\ rows[Target(m)].score = m.score
      BY <2>1, <2>3, <3>1, <3>2 DEF Raised, Row
    <3>4. [rows[Target(m)] EXCEPT !.score = m.score, !.rev = rows[Target(m)].rev]
            = rows[Target(m)]
      BY <3>1, <3>3 DEF Row
    <3>5. RaisedTo(m, rows[Target(m)].rev)
            = [rows EXCEPT ![Target(m)] =
                 [rows[Target(m)] EXCEPT !.score = m.score, !.rev = rows[Target(m)].rev]]
      BY <2>1 DEF RaisedTo, TablesTyped
    <3> QED
      BY <2>1, <3>3, <3>4, <3>5 DEF TablesTyped
  <2> QED
    BY <2>1, <2>2, <2>3, CallsAssumption, RecordCases DEF Refused, Repeated, Rebuilt, Passed
<1> QED
  BY <1>1, ScoresInductive, PTL

=============================================================================
