----------------------------- MODULE HttpScores -----------------------------
(***************************************************************************)
(* Scores through the HTTP client: a pool of workers posts them, with      *)
(* repeats, to the server that records them.  Answers are late or lost; a  *)
(* late post is still recorded.  What failed is kept in memory and posted  *)
(* again when the launcher asks.                                           *)
(***************************************************************************)
EXTENDS ScoreCalls, Sequences, SequencesExt, FiniteSets

CONSTANTS
  Replaced,  \* attempts of games with running totals (replace=True)
  Workers,
  Tries,     \* len(SCORE_SAVE_RETRY_DELAYS)
  MaxLosses

VARIABLES
  given,      \* the submissions made so far, in the order of their revisions
              \* within an attempt
  tasks,      \* tasks of the executor
  worker,     \* what a worker of the pool is at
  late,       \* posts on their way whose client has given up
  failed,     \* _failed_score_submissions
  confirmed,  \* _confirmed_replace_scores
  repeating,  \* _retrying_request_ids
  denied,     \* history: calls answered with a failure not to be repeated
  losses      \* bound: posts that went wrong so far

clientVars == <<tables, given, tasks, worker, late, failed, confirmed, repeating,
                denied, losses>>

Free == [at |-> "free"]
Posting(m, tries) == [at |-> "post", m |-> m, tries |-> tries]
Finished(m, result) == [at |-> "capture", m |-> m, result |-> result]

ClientInit ==
  /\ TablesInit
  /\ given = {} /\ tasks = <<>> /\ worker = [w \in Workers |-> Free]
  /\ late = {} /\ failed = {} /\ confirmed = [a \in Attempts |-> -1]
  /\ repeating = {} /\ denied = {} /\ losses = 0

\* submit_score_reliable_async.
SubmitReliable(m) ==
  /\ m \in Calls \ given /\ \A n \in Calls \ given : n.att = m.att => n.rev >= m.rev
  /\ given' = given \cup {m} /\ tasks' = Append(tasks, m)
  /\ UNCHANGED <<tables, worker, late, failed, confirmed, repeating, denied, losses>>

\* The player asks for another try of a save that failed.
SubmitAgain(m) ==
  /\ m \in failed /\ m \notin ToSet(tasks)
  /\ tasks' = Append(tasks, m)
  /\ UNCHANGED <<tables, given, worker, late, failed, confirmed, repeating, denied,
                 losses>>

\* retry_failed_saves: all that failed and are not being repeated.
RetryFailed ==
  LET again == {m \in failed : m.req \notin repeating}
  IN /\ again # {}
     /\ repeating' = repeating \cup {m.req : m \in again}
     /\ \E order \in SetToSeqs(again) : tasks' = tasks \o order
     /\ UNCHANGED <<tables, given, worker, late, failed, confirmed, denied, losses>>

Take(w) ==
  /\ worker[w] = Free /\ tasks # <<>>
  /\ worker' = [worker EXCEPT ![w] = Posting(Head(tasks), Tries)]
  /\ tasks' = Tail(tasks)
  /\ UNCHANGED <<tables, given, late, failed, confirmed, repeating, denied, losses>>

\* The server records and answers in time; a refusal is not repeated.
PostIsAnswered(w) ==
  /\ worker[w].at = "post"
  /\ LET m == worker[w].m
         reply == Record(rows, receipts, m)
         ok == reply.answer \notin Refusals
     IN /\ Commits(reply)
        /\ denied' = IF ok THEN denied ELSE denied \cup {m}
        /\ worker' = [worker EXCEPT ![w] = Finished(m, IF ok THEN "ok" ELSE "refused")]
  /\ UNCHANGED <<given, tasks, late, failed, confirmed, repeating, losses>>

\* The server is not reached, answers with a failure to be repeated, or the client
\* gives up before the answer: the post is repeated after a delay, as often as
\* there are delays.
PostFails(w) ==
  /\ worker[w].at = "post" /\ losses < MaxLosses /\ losses' = losses + 1
  /\ late' \in {late, late \cup {worker[w].m}}
  /\ worker' = [worker EXCEPT ![w] =
       IF @.tries = 1 THEN Finished(@.m, "retryable") ELSE Posting(@.m, @.tries - 1)]
  /\ UNCHANGED <<tables, given, tasks, failed, confirmed, repeating, denied>>

\* The answer is a failure the client does not repeat, though the store refused
\* nothing: an error the server did not expect, which rolls back (500 with
\* retryable false, a broken constraint), or an answer that does not parse.
PostIsLost(w) ==
  /\ worker[w].at = "post" /\ losses < MaxLosses /\ losses' = losses + 1
  /\ Commits(Record(rows, receipts, worker[w].m)) \/ UNCHANGED tables
  /\ denied' = denied \cup {worker[w].m}
  /\ worker' = [worker EXCEPT ![w] = Finished(@.m, "refused")]
  /\ UNCHANGED <<given, tasks, late, failed, confirmed, repeating>>

\* A post arrives that nobody waits for, perhaps one of several.
LatePost(m) ==
  /\ m \in late /\ late' \in {late, late \ {m}}
  /\ LET reply == Record(rows, receipts, m)
     IN /\ Commits(reply)
        /\ denied' = IF reply.answer \in Refusals THEN denied \cup {m} ELSE denied
  /\ UNCHANGED <<given, tasks, worker, failed, confirmed, repeating, losses>>

Superseded(m, sure) == m.att \in Replaced /\ sure[m.att] >= m.score

\* A slip: a failure is not forgotten when a repeat succeeds, and not kept when
\* another of its attempt was confirmed, whatever its score.
CaptureAny(w) ==
  /\ worker[w].at = "capture"
  /\ LET m == worker[w].m
         others == {n \in failed : n.req # m.req}
     IN /\ repeating' = repeating \ {m.req}
        /\ failed' = IF /\ worker[w].result = "retryable"
                        /\ ~(m.att \in Replaced /\ confirmed[m.att] >= 0)
                     THEN others \cup {m} ELSE others
        /\ confirmed' = IF worker[w].result = "ok" /\ m.att \in Replaced
                        THEN [confirmed EXCEPT ![m.att] = m.score] ELSE confirmed
  /\ worker' = [worker EXCEPT ![w] = Free]
  /\ UNCHANGED <<tables, given, tasks, late, denied, losses>>

\* A slip: what is repeated stays marked when it fails again.
CaptureKeepsMark(w) ==
  /\ worker[w].at = "capture"
  /\ LET m == worker[w].m
         others == {n \in failed : n.req # m.req}
     IN /\ failed' = IF worker[w].result = "retryable" THEN others \cup {m} ELSE others
        /\ repeating' = IF worker[w].result = "ok" THEN repeating \ {m.req} ELSE repeating
        /\ UNCHANGED confirmed
  /\ worker' = [worker EXCEPT ![w] = Free]
  /\ UNCHANGED <<tables, given, tasks, late, denied, losses>>

\* _capture_score_save: a failure that may be repeated is kept, unless a newer
\* total of the attempt is confirmed; a success drops the totals it covers.
Capture(w) ==
  /\ worker[w].at = "capture"
  /\ LET m == worker[w].m
         others == {n \in failed : n.req # m.req}
         sure == IF worker[w].result = "ok" /\ m.att \in Replaced /\ confirmed[m.att] < m.score
                 THEN [confirmed EXCEPT ![m.att] = m.score] ELSE confirmed
     IN /\ repeating' = repeating \ {m.req}
        /\ confirmed' = sure
        /\ failed' =
             IF worker[w].result = "ok" /\ m.att \in Replaced
             THEN {n \in others : ~(n.att = m.att /\ Superseded(n, sure))}
             ELSE IF worker[w].result = "retryable" /\ ~Superseded(m, sure)
             THEN others \cup {m} ELSE others
  /\ worker' = [worker EXCEPT ![w] = Free]
  /\ UNCHANGED <<tables, given, tasks, late, denied, losses>>

ClientNext ==
  \/ \E m \in Calls : SubmitReliable(m) \/ SubmitAgain(m) \/ LatePost(m)
  \/ \E w \in Workers : Take(w) \/ PostIsAnswered(w) \/ PostFails(w) \/ PostIsLost(w)
                         \/ Capture(w)
  \/ RetryFailed

ClientSpec == ClientInit /\ [][ClientNext]_clientVars

-----------------------------------------------------------------------------
AtWork == ToSet(tasks) \cup {worker[w].m : w \in {v \in Workers : worker[v] # Free}}

\* While the client runs, a submitted score is recorded, at work, kept for
\* another try, or answered with a failure not to be repeated, however posts are
\* lost, late, repeated or overtaken.
SubmittedIsKept ==
  \A m \in given :
    \/ rows[m.att] # None /\ rows[m.att].score >= m.score
    \/ m \in AtWork \cup failed \cup denied

\* The totals for which failures are dropped are in the table.
TotalsAreRecorded ==
  \A a \in Replaced : confirmed[a] >= 0 => rows[a] # None /\ rows[a].score >= confirmed[a]

\* A save marked as being repeated is being repeated: otherwise no later call
\* would ever repeat it.
RetryEnds == repeating \subseteq {m.req : m \in AtWork}

\* What the client has marked is so: a total marked as confirmed is in the table
\* (with the mark, a failed lower total is forgotten), and a save marked as being
\* repeated is being repeated (with the mark, no later call repeats it).
MarksAreTrue == TotalsAreRecorded /\ RetryEnds

-----------------------------------------------------------------------------
\* Why it holds, for any workers, tries and losses.
ClientBounds == OwnCalls(Calls) /\ Replaced \subseteq Attempts /\ Tries \in Nat \ {0}

AWorker ==
  {Free} \cup [at : {"post"}, m : Calls, tries : Nat \ {0}]
         \cup [at : {"capture"}, m : Calls, result : {"ok", "refused", "retryable"}]

ClientTypeOK ==
  /\ given \subseteq Calls /\ tasks \in Seq(Calls) /\ worker \in [Workers -> AWorker]
  /\ late \subseteq Calls /\ failed \subseteq Calls /\ IsFiniteSet(failed)
  /\ denied \subseteq Calls /\ confirmed \in [Attempts -> Int]

ScoreIsIn(m) == rows[m.att] # None /\ rows[m.att].score >= m.score

\* What a worker has been answered is so.
AnswersAreTrue ==
  \A w \in Workers : worker[w].at = "capture" =>
    /\ worker[w].result = "ok" => ScoreIsIn(worker[w].m)
    /\ worker[w].result = "refused" => worker[w].m \in denied

ClientIndInv ==
  /\ ClientTypeOK /\ AnswersAreTrue
  /\ TotalsAreRecorded /\ RetryEnds /\ SubmittedIsKept

=============================================================================
