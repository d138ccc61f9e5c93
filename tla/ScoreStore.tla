----------------------------- MODULE ScoreStore -----------------------------
(***************************************************************************)
(* The score tables under any calls: mutations of several games, processes *)
(* and retries arrive in any order and any number of times, while receipts *)
(* expire or are damaged.                                                  *)
(***************************************************************************)
EXTENDS ScoreCalls

VARIABLE accepted   \* history: the mutations answered with ok

storeVars == <<tables, accepted>>

StoreInit == TablesInit /\ accepted = {}

Deliver(m) ==
  LET reply == Record(rows, receipts, m)
  IN /\ Commits(reply)
     /\ accepted' = IF reply.answer \in Refusals THEN accepted ELSE accepted \cup {m}

Expire(r) ==
  /\ receipts[r] # None
  /\ receipts' = Expired(receipts, r)
  /\ UNCHANGED <<rows, accepted>>

Damage(r) ==
  /\ receipts[r] # None
  /\ receipts' = Damaged(receipts, r)
  /\ UNCHANGED <<rows, accepted>>

StoreNext ==
  \/ \E m \in Calls : Deliver(m)
  \/ \E r \in Requests : Expire(r) \/ Damage(r)

StoreSpec == StoreInit /\ [][StoreNext]_storeVars

-----------------------------------------------------------------------------
\* What was accepted is in the row of its attempt, or something newer is, as
\* long as games only raise their scores: a late, repeated or rebuilt answer
\* never speaks of a score that is not there.
AcceptedIsIn ==
  \A m \in accepted : \E a \in {m.att, Target(m)} :
    rows[a] # None /\ rows[a].score >= m.score /\ rows[a].kind = m.kind

\* No step takes a row, its revision or its score back, or changes what the
\* attempt is of.
RowsOnlyGrow ==
  [][\A a \in DOMAIN rows : rows[a] # None =>
       /\ rows'[a] # None
       /\ rows'[a].rev >= rows[a].rev /\ rows'[a].score >= rows[a].score
       /\ rows'[a].kind = rows[a].kind /\ rows'[a].req = rows[a].req]_storeVars

\* Sending an accepted mutation again changes no row, whether its receipt is
\* there, expired or damaged, and whatever was recorded in between.
RetryChangesNothing == \A m \in accepted : Record(rows, receipts, m).rows = rows

=============================================================================
