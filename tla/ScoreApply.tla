----------------------------- MODULE ScoreApply -----------------------------
(***************************************************************************)
(* How the store records a score (LocalGameStore.record_mutation), as      *)
(* operators on the two tables: one row per attempt, one receipt per       *)
(* request.  A score stands for the score and the extra information saved  *)
(* with it; "kind" for what an attempt may never change: game, profile,    *)
(* mode, rules and status.                                                 *)
(***************************************************************************)
EXTENDS Integers

CONSTANTS
  Attempts,    \* attempt uuids; the row id of an attempt is the attempt
  Requests,    \* request ids
  Kinds,
  FinalOnly,   \* attempts of games that record one final score
  None

\* A normalized mutation.  "hint" is a submission_id.  Callers name both their
\* attempt and their revision, or, as old clients do, neither, and are "bare".
Mutation == [req : Requests, att : Attempts, hint : Attempts \cup {None},
             bare : BOOLEAN, rev : Nat \ {0}, score : Nat, kind : Kinds]

\* The row of an attempt keeps the request that made it.
Row == [req : Requests, rev : Nat \ {0}, score : Nat, kind : Kinds]

\* A receipt is bound to the payload and repeats the score it answered; a
\* damaged one cannot be answered with.
Receipt == [of : Mutation, score : Nat, good : BOOLEAN]

ASSUME ScoreAssumption == None \notin Attempts \cup Row \cup Receipt

Reply(rows, receipts, answer, score) ==
  [rows |-> rows, receipts |-> receipts, answer |-> answer, score |-> score]

Refuse(rows, receipts, why) == Reply(rows, receipts, why, 0)

Refusals == {"request_id_conflict", "submission_not_found", "submission_mismatch",
             "attempt_identity_conflict", "attempt_finalized", "score_regression",
             "revision_conflict"}

\* submission_id names the row, or the attempt does.
Target(m) == IF m.hint = None THEN m.att ELSE m.hint

\* Accepted: a receipt is written with the answer, which tells the row's score.
Accept(rows, receipts, m, answer, score) ==
  Reply(rows, [receipts EXCEPT ![m.req] = [of |-> m, score |-> score, good |-> TRUE]],
        answer, score)

\* Without a receipt, the row the request made.
RowOfRequest(rows, m) == {a \in Attempts : rows[a] # None /\ rows[a].req = m.req}

SameRequest(row, a, m) ==
  /\ a = m.att /\ row.kind = m.kind /\ row.rev = m.rev /\ row.score = m.score

\* submission_id names the row of this attempt, or the call is refused.
HintError(rows, m) ==
  IF m.hint = None THEN "none"
  ELSE IF rows[m.hint] = None THEN "submission_not_found"
  ELSE IF \/ rows[m.hint].kind # m.kind
          \/ m.hint # m.att /\ (~m.bare \/ rows[m.att] # None)
       THEN "submission_mismatch"
  ELSE "none"

Insert(rows, receipts, m) ==
  Accept([rows EXCEPT ![Target(m)] =
            [req |-> m.req, rev |-> m.rev, score |-> m.score, kind |-> m.kind]],
         receipts, m, "recorded", m.score)

\* A slip: a score may also fall.
RaiseOrLower(rows, receipts, m, rev) ==
  IF Target(m) \in FinalOnly THEN Refuse(rows, receipts, "attempt_finalized")
  ELSE Accept([rows EXCEPT ![Target(m)].score = m.score, ![Target(m)].rev = rev],
              receipts, m, "updated", m.score)

Raise(rows, receipts, m, rev) ==
  LET target == Target(m)
  IN IF target \in FinalOnly THEN Refuse(rows, receipts, "attempt_finalized")
     ELSE IF m.score < rows[target].score THEN Refuse(rows, receipts, "score_regression")
     ELSE Accept([rows EXCEPT ![target].score = m.score, ![target].rev = rev],
                 receipts, m, "updated", m.score)

\* A slip: the newest call is taken for the newest state.
UpdateInOrderOfArrival(rows, receipts, m) == Raise(rows, receipts, m, m.rev)

\* A slip: the call of an old client counts as a revision.
UpdateCountsBareCalls(rows, receipts, m) ==
  LET row == rows[Target(m)]
  IN IF row.kind # m.kind THEN Refuse(rows, receipts, "attempt_identity_conflict")
     ELSE IF m.bare /\ m.hint # None THEN Raise(rows, receipts, m, row.rev + 1)
     ELSE IF m.rev > row.rev THEN Raise(rows, receipts, m, m.rev)
     ELSE Accept(rows, receipts, m, "stale", row.score)

\* The row exists: an older revision is passed over, an equal one must say the
\* same, a newer one raises the score.  A bare caller has no revisions.
Update(rows, receipts, m) ==
  LET row == rows[Target(m)]
      bare == m.bare /\ m.hint # None
  IN IF row.kind # m.kind THEN Refuse(rows, receipts, "attempt_identity_conflict")
     ELSE IF bare THEN Raise(rows, receipts, m, row.rev)
     ELSE IF m.rev < row.rev THEN Accept(rows, receipts, m, "stale", row.score)
     ELSE IF m.rev > row.rev THEN Raise(rows, receipts, m, m.rev)
     ELSE IF m.score = row.score THEN Accept(rows, receipts, m, "no_op", row.score)
     ELSE Refuse(rows, receipts, "revision_conflict")

\* record_mutation: the receipt, the row of the request, the row of the attempt.
Record(rows, receipts, m) ==
  LET receipt == receipts[m.req]
  IN IF receipt # None /\ receipt.of # m
     THEN Refuse(rows, receipts, "request_id_conflict")
     ELSE IF receipt # None /\ receipt.good
     THEN Reply(rows, receipts, "duplicate", receipt.score)
     ELSE IF RowOfRequest(rows, m) # {}
     THEN IF \A a \in RowOfRequest(rows, m) : SameRequest(rows[a], a, m)
          THEN Accept(rows, receipts, m, "rebuilt", m.score)
          ELSE Refuse(rows, receipts, "request_id_conflict")
     ELSE IF HintError(rows, m) # "none" THEN Refuse(rows, receipts, HintError(rows, m))
     ELSE IF rows[Target(m)] = None THEN Insert(rows, receipts, m)
     ELSE Update(rows, receipts, m)

\* _delete_expired_receipts, and the same deletion when a request comes late.
Expired(receipts, r) == [receipts EXCEPT ![r] = None]

Damaged(receipts, r) == [receipts EXCEPT ![r].good = FALSE]

=============================================================================
