------------------------ MODULE ScoreDeliveryProofs ------------------------
(***************************************************************************)
(* Proofs about the three ways a score reaches the store of                *)
(* ScoreStoreProofs through losses and repeats: HttpScores (what the       *)
(* client keeps, drops and repeats, for any workers, tries and losses, and *)
(* any calls of its games), ScoreReplay (a journaled score is never lost,  *)
(* for any number of processes, calls, faults, damaged files and deaths),  *)
(* and ScoreGame (the scores of a game that is played, saved and restored  *)
(* over such a journal, for any scores, faults and deaths).                *)
(***************************************************************************)
EXTENDS HttpScores, ScoreReplay, ScoreGame, ScoreStoreProofs, FiniteSetTheorems, SequenceTheorems

-----------------------------------------------------------------------------
\* What a sequence holds after each operation of the executor's tasks.
LEMMA AppendedSet ==
  ASSUME NEW S, NEW s \in Seq(S), NEW x \in S
  PROVE  Append(s, x) \in Seq(S) /\ ToSet(Append(s, x)) = ToSet(s) \cup {x}
<1>1. /\ Append(s, x) \in Seq(S) /\ Len(Append(s, x)) = Len(s) + 1
      /\ \A i \in 1 .. Len(s) : Append(s, x)[i] = s[i]
      /\ Append(s, x)[Len(s) + 1] = x
  OBVIOUS
<1>2. Len(s) \in Nat /\ DOMAIN s = 1 .. Len(s) /\ DOMAIN Append(s, x) = 1 .. (Len(s) + 1)
  BY <1>1
<1>3. ASSUME NEW y \in ToSet(Append(s, x))
      PROVE  y \in ToSet(s) \cup {x}
  BY <1>1, <1>2 DEF ToSet
<1>4. ASSUME NEW y \in ToSet(s) \cup {x}
      PROVE  y \in ToSet(Append(s, x))
  BY <1>1, <1>2 DEF ToSet
<1> QED
  BY <1>1, <1>3, <1>4

LEMMA TailSet ==
  ASSUME NEW S, NEW s \in Seq(S), s # <<>>
  PROVE  /\ Head(s) \in S /\ Tail(s) \in Seq(S)
         /\ ToSet(s) = {Head(s)} \cup ToSet(Tail(s))
<1>1. /\ Head(s) \in S /\ Tail(s) \in Seq(S) /\ Len(Tail(s)) = Len(s) - 1
      /\ \A i \in 1 .. Len(Tail(s)) : Tail(s)[i] = s[i + 1]
  BY HeadTailProperties
<1>2. /\ Len(s) \in Nat \ {0} /\ DOMAIN s = 1 .. Len(s) /\ Head(s) = s[1]
      /\ DOMAIN Tail(s) = 1 .. (Len(s) - 1)
  BY <1>1
<1>3. ASSUME NEW y \in ToSet(s)
      PROVE  y \in {Head(s)} \cup ToSet(Tail(s))
  <2>1. PICK i \in 1 .. Len(s) : y = s[i]
    BY <1>2 DEF ToSet
  <2>2. CASE i # 1
    <3>1. i - 1 \in 1 .. (Len(s) - 1) /\ Tail(s)[i - 1] = s[i]
      BY <1>1, <1>2, <2>2
    <3> QED
      BY <1>2, <2>1, <3>1 DEF ToSet
  <2> QED
    BY <1>2, <2>1, <2>2
<1>4. ASSUME NEW y \in {Head(s)} \cup ToSet(Tail(s))
      PROVE  y \in ToSet(s)
  BY <1>1, <1>2 DEF ToSet
<1> QED
  BY <1>1, <1>3, <1>4

LEMMA JoinedSet ==
  ASSUME NEW S, NEW s \in Seq(S), NEW t \in Seq(S)
  PROVE  s \o t \in Seq(S) /\ ToSet(s \o t) = ToSet(s) \cup ToSet(t)
<1>1. /\ s \o t \in Seq(S) /\ Len(s \o t) = Len(s) + Len(t)
      /\ \A i \in 1 .. Len(s) + Len(t) :
           (s \o t)[i] = IF i <= Len(s) THEN s[i] ELSE t[i - Len(s)]
  BY ConcatProperties
<1>2. /\ Len(s) \in Nat /\ DOMAIN s = 1 .. Len(s) /\ Len(t) \in Nat /\ DOMAIN t = 1 .. Len(t)
      /\ DOMAIN (s \o t) = 1 .. (Len(s) + Len(t))
  BY <1>1
<1> HIDE DEF ToSet
<1>3. ASSUME NEW y \in ToSet(s \o t)
      PROVE  y \in ToSet(s) \cup ToSet(t)
  <2>1. PICK i \in 1 .. (Len(s) + Len(t)) : y = (s \o t)[i]
    BY <1>2 DEF ToSet
  <2>2. CASE i <= Len(s)
    BY <1>1, <1>2, <2>1, <2>2 DEF ToSet
  <2>3. CASE ~(i <= Len(s))
    <3>1. i - Len(s) \in 1 .. Len(t) /\ y = t[i - Len(s)]
      BY <1>1, <1>2, <2>1, <2>3
    <3> QED
      BY <1>2, <3>1 DEF ToSet
  <2> QED
    BY <2>2, <2>3
<1>4. ASSUME NEW i \in 1 .. Len(s)
      PROVE  s[i] \in ToSet(s \o t)
  <2>1. i \in 1 .. (Len(s) + Len(t)) /\ (s \o t)[i] = s[i]
    BY <1>1, <1>2
  <2> QED
    BY <1>2, <2>1 DEF ToSet
<1>5. ASSUME NEW i \in 1 .. Len(t)
      PROVE  t[i] \in ToSet(s \o t)
  <2>1. /\ i + Len(s) \in 1 .. (Len(s) + Len(t)) /\ ~(i + Len(s) <= Len(s))
        /\ (i + Len(s)) - Len(s) = i
    BY <1>2
  <2>2. (s \o t)[i + Len(s)] = t[i]
    BY <1>1, <2>1
  <2> QED
    BY <1>2, <2>1, <2>2 DEF ToSet
<1>6. ASSUME NEW y \in ToSet(s) \cup ToSet(t)
      PROVE  y \in ToSet(s \o t)
  BY <1>2, <1>4, <1>5, <1>6 DEF ToSet
<1> QED
  BY <1>1, <1>3, <1>6

\* Each order of a finite set is a sequence of all of it.
LEMMA OrderedSet ==
  ASSUME NEW S, IsFiniteSet(S), NEW s \in SetToSeqs(S)
  PROVE  s \in Seq(S) /\ ToSet(s) = S
<1> DEFINE n == Cardinality(S)
<1>1. /\ n \in Nat /\ s \in [1 .. n -> S]
      /\ \A i, j \in 1 .. n : i # j => s[i] # s[j]
  BY FS_CardinalityType DEF SetToSeqs
<1>2. s \in Seq(S) /\ DOMAIN s = 1 .. n
  BY <1>1
<1>3. s \in Injection(1 .. n, S)
  BY <1>1 DEF Injection, IsInjective
<1>4. IsFiniteSet(1 .. n) /\ Cardinality(1 .. n) = n
  BY <1>1, FS_Interval
<1>5. s \in Surjection(1 .. n, S)
  BY <1>3, <1>4, FS_Injection
<1>6. \A y \in S : \E i \in 1 .. n : s[i] = y
  BY <1>5 DEF Surjection
<1> QED
  BY <1>1, <1>2, <1>6 DEF ToSet

-----------------------------------------------------------------------------
\* A worker is free, at a post, or has its answer.
LEMMA WorkerKinds ==
  ASSUME ClientTypeOK, NEW w \in Workers
  PROVE  \/ worker[w] = Free /\ worker[w].at = "free"
         \/ /\ worker[w].at = "post" /\ worker[w] # Free
            /\ worker[w].m \in Calls /\ worker[w].tries \in Nat \ {0}
         \/ /\ worker[w].at = "capture" /\ worker[w] # Free
            /\ worker[w].m \in Calls /\ worker[w].result \in {"ok", "refused", "retryable"}
<1>1. worker[w] \in AWorker
  BY DEF ClientTypeOK
<1>2. CASE worker[w] = Free
  BY <1>2 DEF Free
<1>3. CASE worker[w] \in [at : {"post"}, m : Calls, tries : Nat \ {0}]
  <2>1. worker[w].at = "post" /\ worker[w].m \in Calls /\ worker[w].tries \in Nat \ {0}
    BY <1>3
  <2> QED
    BY <2>1 DEF Free
<1>4. CASE worker[w] \in [at : {"capture"}, m : Calls,
                          result : {"ok", "refused", "retryable"}]
  <2>1. /\ worker[w].at = "capture" /\ worker[w].m \in Calls
        /\ worker[w].result \in {"ok", "refused", "retryable"}
    BY <1>4
  <2> QED
    BY <2>1 DEF Free
<1> QED
  BY <1>1, <1>2, <1>3, <1>4 DEF AWorker

\* A call is at work in the tasks or at a worker.
LEMMA WhoIsAtWork ==
  ASSUME NEW m
  PROVE  /\ m \in AtWork <=>
              \/ m \in ToSet(tasks)
              \/ \E w \in Workers : worker[w] # Free /\ worker[w].m = m
         /\ m \in AtWork' <=>
              \/ m \in ToSet(tasks')
              \/ \E w \in Workers : worker'[w] # Free /\ worker'[w].m = m
BY DEF AtWork, ToSet

\* What is in the table stays there, as rows only grow.
LEMMA ScoreStaysIn ==
  ASSUME TablesTyped, TablesTyped', \A a \in Attempts : Grown(rows[a], rows'[a]),
         NEW m \in Calls, ScoreIsIn(m)
  PROVE  ScoreIsIn(m)'
<1>1. m.att \in Attempts /\ m.score \in Nat
  BY CallsAssumption DEF Mutation
<1>2. rows[m.att] \in Row /\ rows[m.att] # None /\ rows[m.att].score >= m.score
  BY <1>1 DEF TablesTyped, ScoreIsIn
<1>3. rows'[m.att] # None /\ rows'[m.att].score >= rows[m.att].score
  BY <1>1, <1>2 DEF Grown
<1>4. rows'[m.att] \in Row
  BY <1>1, <1>3 DEF TablesTyped
<1>5. rows[m.att].score \in Nat /\ rows'[m.att].score \in Nat
  BY <1>2, <1>4 DEF Row
<1> QED
  BY <1>1, <1>2, <1>3, <1>5 DEF ScoreIsIn

\* So do the totals that are taken for confirmed.
LEMMA TotalsStayIn ==
  ASSUME TablesTyped, TablesTyped', \A a \in Attempts : Grown(rows[a], rows'[a]),
         ClientTypeOK, Replaced \subseteq Attempts, TotalsAreRecorded, confirmed' = confirmed
  PROVE  TotalsAreRecorded'
<1> SUFFICES ASSUME NEW a \in Replaced, confirmed[a] >= 0
             PROVE  rows'[a] # None /\ rows'[a].score >= confirmed[a]
  BY DEF TotalsAreRecorded
<1>1. a \in Attempts /\ confirmed[a] \in Int
  BY DEF ClientTypeOK
<1>2. rows[a] \in Row /\ rows[a] # None /\ rows[a].score >= confirmed[a]
  BY <1>1 DEF TotalsAreRecorded, TablesTyped
<1>3. rows'[a] # None /\ rows'[a].score >= rows[a].score
  BY <1>1, <1>2 DEF Grown
<1>4. rows'[a] \in Row
  BY <1>1, <1>3 DEF TablesTyped
<1>5. rows[a].score \in Nat /\ rows'[a].score \in Nat
  BY <1>2, <1>4 DEF Row
<1> QED
  BY <1>1, <1>2, <1>3, <1>5

\* The server's side of a post, in time or late: the tables stay sound and grow,
\* and what is accepted is in them.
LEMMA PostIsSound ==
  ASSUME TablesSound, OwnCalls(Calls), NEW m \in Calls, Commits(Record(rows, receipts, m))
  PROVE  /\ TablesSound' /\ TablesTyped /\ TablesTyped'
         /\ \A a \in Attempts : Grown(rows[a], rows'[a])
         /\ Record(rows, receipts, m).answer \notin Refusals => ScoreIsIn(m)'
<1>1. Target(m) = m.att
  BY DEF OwnCalls, Target
<1>2. Record(rows, receipts, m).answer \notin Refusals => InTable(m, rows')
  BY RecordSound
<1>3. InTable(m, rows') => ScoreIsIn(m)'
  BY <1>1 DEF InTable, ScoreIsIn
<1> QED
  BY <1>2, <1>3, RecordSound DEF TablesSound

-----------------------------------------------------------------------------
\* A step that records nothing and drops nothing from work.
LEMMA QuietStep ==
  ASSUME TablesSound, ClientIndInv, ClientTypeOK', AnswersAreTrue',
         UNCHANGED <<tables, failed, confirmed>>, denied \subseteq denied',
         AtWork \subseteq AtWork', given' \subseteq given \cup AtWork',
         repeating' \subseteq {m.req : m \in AtWork'}
  PROVE  TablesSound' /\ ClientIndInv'
<1>1. rows' = rows /\ receipts' = receipts
  BY DEF tables
<1>2. TablesSound'
  BY <1>1 DEF TablesSound, TablesTyped
<1>3. TotalsAreRecorded'
  BY <1>1 DEF ClientIndInv, TotalsAreRecorded
<1>4. RetryEnds'
  BY DEF RetryEnds
<1>5. ASSUME NEW m \in given'
      PROVE  ScoreIsIn(m)' \/ m \in AtWork' \cup failed' \cup denied'
  BY <1>1 DEF ClientIndInv, SubmittedIsKept, ScoreIsIn
<1>6. SubmittedIsKept'
  BY <1>5 DEF SubmittedIsKept, ScoreIsIn
<1> QED
  BY <1>2, <1>3, <1>4, <1>6 DEF ClientIndInv

\* A step that records a call, and takes nobody from work.
LEMMA RecordingStep ==
  ASSUME ClientBounds, TablesSound, ClientIndInv, ClientTypeOK',
         NEW m \in Calls, Commits(Record(rows, receipts, m)),
         UNCHANGED <<given, tasks, failed, confirmed, repeating>>,
         denied \subseteq denied', AtWork \subseteq AtWork',
         AnswersAreTrue'
  PROVE  TablesSound' /\ ClientIndInv'
<1>1. /\ TablesSound' /\ TablesTyped /\ TablesTyped'
      /\ \A a \in Attempts : Grown(rows[a], rows'[a])
  BY PostIsSound DEF ClientBounds
<1>2. TotalsAreRecorded'
  BY <1>1, TotalsStayIn DEF ClientIndInv, ClientBounds
<1>3. RetryEnds'
  BY DEF ClientIndInv, RetryEnds
<1>4. ASSUME NEW n \in given'
      PROVE  ScoreIsIn(n)' \/ n \in AtWork' \cup failed' \cup denied'
  <2>1. n \in given /\ n \in Calls
    BY DEF ClientIndInv, ClientTypeOK
  <2>2. ScoreIsIn(n) \/ n \in AtWork \cup failed \cup denied
    BY <2>1 DEF ClientIndInv, SubmittedIsKept, ScoreIsIn
  <2> QED
    BY <1>1, <2>1, <2>2, ScoreStaysIn
<1>5. SubmittedIsKept'
  BY <1>4 DEF SubmittedIsKept, ScoreIsIn
<1> QED
  BY <1>1, <1>2, <1>3, <1>5 DEF ClientIndInv

LEMMA CallKeeps ==
  ASSUME ClientBounds, TablesSound, ClientIndInv, NEW m \in Calls,
         SubmitReliable(m) \/ SubmitAgain(m)
  PROVE  TablesSound' /\ ClientIndInv'
<1>1. /\ tasks \in Seq(Calls) /\ tasks' = Append(tasks, m)
      /\ UNCHANGED <<tables, worker, late, failed, confirmed, repeating, denied>>
      /\ given' \in {given, given \cup {m}}
  BY DEF SubmitReliable, SubmitAgain, ClientIndInv, ClientTypeOK
<1>2. tasks' \in Seq(Calls) /\ ToSet(tasks') = ToSet(tasks) \cup {m}
  BY <1>1, AppendedSet
<1>3. \A n : n \in AtWork \/ n = m => n \in AtWork'
  BY <1>1, <1>2, WhoIsAtWork
<1>4. ClientTypeOK'
  BY <1>1, <1>2 DEF ClientIndInv, ClientTypeOK
<1>5. AnswersAreTrue'
  BY <1>1 DEF ClientIndInv, AnswersAreTrue, ScoreIsIn, tables
<1>6. repeating' \subseteq {n.req : n \in AtWork'}
  BY <1>1, <1>3 DEF ClientIndInv, RetryEnds
<1> QED
  BY <1>1, <1>3, <1>4, <1>5, <1>6, QuietStep

LEMMA RetryKeeps ==
  ASSUME ClientBounds, TablesSound, ClientIndInv, RetryFailed
  PROVE  TablesSound' /\ ClientIndInv'
<1> DEFINE again == {m \in failed : m.req \notin repeating}
<1>1. /\ tasks \in Seq(Calls) /\ failed \subseteq Calls /\ IsFiniteSet(failed)
      /\ repeating' = repeating \cup {m.req : m \in again}
      /\ UNCHANGED <<tables, given, worker, late, failed, confirmed, denied>>
  BY DEF RetryFailed, ClientIndInv, ClientTypeOK
<1>2. PICK order \in SetToSeqs(again) : tasks' = tasks \o order
  BY DEF RetryFailed
<1>3. IsFiniteSet(again)
  BY <1>1, FS_Subset
<1>4. order \in Seq(again) /\ ToSet(order) = again
  BY <1>3, OrderedSet
<1>5. order \in Seq(Calls)
  BY <1>1, <1>4, SeqMonotonic
<1>6. tasks' \in Seq(Calls) /\ ToSet(tasks') = ToSet(tasks) \cup again
  BY <1>1, <1>2, <1>4, <1>5, JoinedSet
<1>7. \A n : n \in AtWork \/ n \in again => n \in AtWork'
  BY <1>1, <1>6, WhoIsAtWork
<1>8. ClientTypeOK'
  BY <1>1, <1>6 DEF ClientIndInv, ClientTypeOK
<1>9. AnswersAreTrue'
  BY <1>1 DEF ClientIndInv, AnswersAreTrue, ScoreIsIn, tables
<1>10. repeating' \subseteq {n.req : n \in AtWork'}
  BY <1>1, <1>7 DEF ClientIndInv, RetryEnds
<1>11. AtWork \subseteq AtWork' /\ given' \subseteq given \cup AtWork'
  BY <1>1, <1>7
<1> QED
  BY <1>1, <1>8, <1>9, <1>10, <1>11, QuietStep

LEMMA TakeKeeps ==
  ASSUME ClientBounds, TablesSound, ClientIndInv, NEW w \in Workers, Take(w)
  PROVE  TablesSound' /\ ClientIndInv'
<1> DEFINE m == Head(tasks)
<1>1. /\ tasks \in Seq(Calls) /\ tasks # <<>> /\ worker[w] = Free
      /\ worker \in [Workers -> AWorker]
      /\ worker' = [worker EXCEPT ![w] = Posting(m, Tries)] /\ tasks' = Tail(tasks)
      /\ UNCHANGED <<tables, given, late, failed, confirmed, repeating, denied>>
  BY DEF Take, ClientIndInv, ClientTypeOK
<1>2. m \in Calls /\ tasks' \in Seq(Calls) /\ ToSet(tasks) = {m} \cup ToSet(tasks')
  BY <1>1, TailSet
<1>3. /\ Posting(m, Tries) \in AWorker /\ Posting(m, Tries) # Free
      /\ Posting(m, Tries).m = m /\ Posting(m, Tries).at = "post"
  BY <1>2 DEF ClientBounds, Posting, AWorker, Free
<1>4. /\ worker' \in [Workers -> AWorker] /\ worker'[w] = Posting(m, Tries)
      /\ \A v \in Workers \ {w} : worker'[v] = worker[v]
  BY <1>1, <1>3
<1>5. ASSUME NEW n \in AtWork
      PROVE  n \in AtWork'
  <2>1. CASE n = m
    BY <1>3, <1>4, <2>1, WhoIsAtWork
  <2>2. CASE n \in ToSet(tasks')
    BY <2>2, WhoIsAtWork
  <2>3. CASE \E v \in Workers : worker[v] # Free /\ worker[v].m = n
    <3>1. PICK v \in Workers : worker[v] # Free /\ worker[v].m = n
      BY <2>3
    <3>2. worker'[v] = worker[v]
      BY <1>1, <1>4, <3>1
    <3> QED
      BY <3>1, <3>2, WhoIsAtWork
  <2> QED
    BY <1>2, <1>5, <2>1, <2>2, <2>3, WhoIsAtWork
<1>6. ClientTypeOK'
  BY <1>1, <1>2, <1>4 DEF ClientIndInv, ClientTypeOK
<1>7. AnswersAreTrue'
  <2>1. ASSUME NEW v \in Workers, worker'[v].at = "capture"
        PROVE  worker'[v] = worker[v]
    BY <1>3, <1>4, <2>1
  <2> QED
    BY <1>1, <2>1 DEF ClientIndInv, AnswersAreTrue, ScoreIsIn, tables
<1>8. repeating' \subseteq {n.req : n \in AtWork'}
  BY <1>1, <1>5 DEF ClientIndInv, RetryEnds
<1> QED
  BY <1>1, <1>5, <1>6, <1>7, <1>8, QuietStep

\* A worker that goes on with its call keeps it at work.
LEMMA GoesOnWith ==
  ASSUME NEW w \in Workers, worker[w] # Free, ClientTypeOK,
         NEW next \in AWorker, next # Free, next.m = worker[w].m,
         worker' = [worker EXCEPT ![w] = next], tasks' = tasks
  PROVE  /\ worker' \in [Workers -> AWorker] /\ worker'[w] = next
         /\ \A v \in Workers \ {w} : worker'[v] = worker[v]
         /\ AtWork \subseteq AtWork'
<1>1. /\ worker' \in [Workers -> AWorker] /\ worker'[w] = next
      /\ \A v \in Workers \ {w} : worker'[v] = worker[v]
  BY DEF ClientTypeOK
<1>2. ASSUME NEW n \in AtWork
      PROVE  n \in AtWork'
  <2>1. CASE \E v \in Workers : worker[v] # Free /\ worker[v].m = n
    <3>1. PICK v \in Workers : worker[v] # Free /\ worker[v].m = n
      BY <2>1
    <3>2. worker'[v] # Free /\ worker'[v].m = n
      BY <1>1, <3>1
    <3> QED
      BY <3>2, WhoIsAtWork
  <2> QED
    BY <1>2, <2>1, WhoIsAtWork
<1> QED
  BY <1>1, <1>2

LEMMA FailureKeeps ==
  ASSUME ClientBounds, TablesSound, ClientIndInv, NEW w \in Workers, PostFails(w)
  PROVE  TablesSound' /\ ClientIndInv'
<1>1. ClientTypeOK
  BY DEF ClientIndInv
<1>2. PICK m \in Calls, tries \in Nat \ {0} :
        /\ worker[w].at = "post" /\ worker[w] # Free
        /\ worker[w].m = m /\ worker[w].tries = tries
  BY <1>1, WorkerKinds DEF PostFails, Free
<1> DEFINE next == IF tries = 1 THEN Finished(m, "retryable") ELSE Posting(m, tries - 1)
<1>3. /\ worker' = [worker EXCEPT ![w] = next]
      /\ late' \in {late, late \cup {m}}
      /\ UNCHANGED <<tables, given, tasks, failed, confirmed, repeating, denied>>
  BY <1>1, <1>2 DEF PostFails, ClientTypeOK
<1>4. /\ next \in AWorker /\ next # Free /\ next.m = m
      /\ next.at = "capture" => next.result = "retryable"
  <2>1. CASE tries = 1
    BY <1>2, <2>1 DEF Finished, AWorker, Free
  <2>2. CASE tries # 1
    <3>1. tries - 1 \in Nat \ {0}
      BY <1>2, <2>2
    <3> QED
      BY <1>2, <2>2, <3>1 DEF Posting, AWorker, Free
  <2> QED
    BY <2>1, <2>2
<1> HIDE DEF next
<1>5. /\ worker' \in [Workers -> AWorker] /\ worker'[w] = next
      /\ \A v \in Workers \ {w} : worker'[v] = worker[v]
      /\ AtWork \subseteq AtWork'
  BY <1>1, <1>2, <1>3, <1>4, GoesOnWith
<1>6. ClientTypeOK'
  BY <1>1, <1>2, <1>3, <1>5 DEF ClientTypeOK
<1>7. AnswersAreTrue'
  <2> SUFFICES ASSUME NEW v \in Workers, worker'[v].at = "capture"
               PROVE  /\ worker'[v].result = "ok" => ScoreIsIn(worker[v].m)'
                      /\ worker'[v].result = "refused" => worker'[v].m \in denied'
    BY DEF AnswersAreTrue
  <2>1. CASE v = w
    BY <1>4, <1>5, <2>1
  <2>2. CASE v # w
    <3>1. worker'[v] = worker[v] /\ rows' = rows /\ denied' = denied
      BY <1>3, <1>5, <2>2 DEF tables
    <3> QED
      BY <3>1 DEF ClientIndInv, AnswersAreTrue, ScoreIsIn
  <2> QED
    BY <2>1, <2>2
<1>8. repeating' \subseteq {n.req : n \in AtWork'}
  BY <1>3, <1>5 DEF ClientIndInv, RetryEnds
<1> QED
  BY <1>3, <1>5, <1>6, <1>7, <1>8, QuietStep

LEMMA AnswerKeeps ==
  ASSUME ClientBounds, TablesSound, ClientIndInv, NEW w \in Workers, PostIsAnswered(w)
  PROVE  TablesSound' /\ ClientIndInv'
<1>1. ClientTypeOK
  BY DEF ClientIndInv
<1>2. PICK m \in Calls :
        worker[w].at = "post" /\ worker[w] # Free /\ worker[w].m = m
  BY <1>1, WorkerKinds DEF PostIsAnswered, Free
<1> DEFINE reply == Record(rows, receipts, m)
           ok == reply.answer \notin Refusals
           next == Finished(m, IF ok THEN "ok" ELSE "refused")
<1>3. /\ Commits(reply) /\ worker' = [worker EXCEPT ![w] = next]
      /\ denied' = IF ok THEN denied ELSE denied \cup {m}
      /\ UNCHANGED <<given, tasks, late, failed, confirmed, repeating>>
  BY <1>2 DEF PostIsAnswered
<1>4. /\ next \in AWorker /\ next # Free /\ next.m = m
      /\ next.result = "ok" => ok
      /\ next.result = "refused" => ~ok
  BY <1>2 DEF Finished, AWorker, Free
<1> HIDE DEF next
<1>5. /\ worker' \in [Workers -> AWorker] /\ worker'[w] = next
      /\ \A v \in Workers \ {w} : worker'[v] = worker[v]
      /\ AtWork \subseteq AtWork'
  BY <1>1, <1>2, <1>3, <1>4, GoesOnWith
<1>6. ClientTypeOK'
  BY <1>1, <1>2, <1>3, <1>5 DEF ClientTypeOK
<1>7. /\ TablesTyped /\ TablesTyped' /\ \A a \in Attempts : Grown(rows[a], rows'[a])
      /\ ok => ScoreIsIn(m)'
  BY <1>2, <1>3, PostIsSound DEF ClientBounds
<1>8. AnswersAreTrue'
  <2> SUFFICES ASSUME NEW v \in Workers, worker'[v].at = "capture"
               PROVE  /\ worker'[v].result = "ok" => ScoreIsIn(worker[v].m)'
                      /\ worker'[v].result = "refused" => worker'[v].m \in denied'
    BY DEF AnswersAreTrue
  <2>1. CASE v = w
    <3>1. worker'[v].m = m
      BY <1>4, <1>5, <2>1
    <3>2. worker'[v].result = "ok" => ScoreIsIn(m)'
      BY <1>4, <1>5, <1>7, <2>1
    <3> QED
      BY <1>3, <1>4, <1>5, <2>1, <3>1, <3>2 DEF ScoreIsIn
  <2>2. CASE v # w
    <3>1. PICK n \in Calls : worker[v].m = n
      BY <1>1, <1>5, <2>2, WorkerKinds
    <3>2. /\ worker[v].at = "capture" /\ worker'[v].m = n
          /\ worker'[v].result = worker[v].result
      BY <1>5, <2>2, <3>1
    <3>3. /\ worker[v].result = "ok" => ScoreIsIn(n)
          /\ worker[v].result = "refused" => n \in denied
      BY <3>1, <3>2 DEF ClientIndInv, AnswersAreTrue
    <3>4. ScoreIsIn(n) => ScoreIsIn(n)'
      BY <1>7, ScoreStaysIn
    <3> QED
      BY <1>3, <3>2, <3>3, <3>4 DEF ScoreIsIn
  <2> QED
    BY <2>1, <2>2
<1> QED
  BY <1>2, <1>3, <1>5, <1>6, <1>8, RecordingStep

LEMMA LossKeeps ==
  ASSUME ClientBounds, TablesSound, ClientIndInv, NEW w \in Workers, PostIsLost(w)
  PROVE  TablesSound' /\ ClientIndInv'
<1>1. ClientTypeOK
  BY DEF ClientIndInv
<1>2. PICK m \in Calls :
        worker[w].at = "post" /\ worker[w] # Free /\ worker[w].m = m
  BY <1>1, WorkerKinds DEF PostIsLost, Free
<1> DEFINE next == Finished(m, "refused")
<1>3. /\ Commits(Record(rows, receipts, m)) \/ UNCHANGED tables
      /\ worker' = [worker EXCEPT ![w] = next]
      /\ denied' = denied \cup {m}
      /\ UNCHANGED <<given, tasks, late, failed, confirmed, repeating>>
  BY <1>1, <1>2 DEF PostIsLost, ClientTypeOK
<1>4. next \in AWorker /\ next # Free /\ next.m = m /\ next.result = "refused"
  BY <1>2 DEF Finished, AWorker, Free
<1> HIDE DEF next
<1>5. /\ worker' \in [Workers -> AWorker] /\ worker'[w] = next
      /\ \A v \in Workers \ {w} : worker'[v] = worker[v]
      /\ AtWork \subseteq AtWork'
  BY <1>1, <1>2, <1>3, <1>4, GoesOnWith
<1>6. ClientTypeOK'
  BY <1>1, <1>2, <1>3, <1>5 DEF ClientTypeOK
<1>7. ASSUME NEW n \in Calls, ScoreIsIn(n)
      PROVE  ScoreIsIn(n)'
  <2>1. CASE Commits(Record(rows, receipts, m))
    BY <1>2, <1>7, <2>1, PostIsSound, ScoreStaysIn DEF ClientBounds
  <2>2. CASE UNCHANGED tables
    BY <1>7, <2>2 DEF ScoreIsIn, tables
  <2> QED
    BY <1>3, <2>1, <2>2
<1>8. AnswersAreTrue'
  <2> SUFFICES ASSUME NEW v \in Workers, worker'[v].at = "capture"
               PROVE  /\ worker'[v].result = "ok" => ScoreIsIn(worker[v].m)'
                      /\ worker'[v].result = "refused" => worker'[v].m \in denied'
    BY DEF AnswersAreTrue
  <2>1. CASE v = w
    BY <1>3, <1>4, <1>5, <2>1
  <2>2. CASE v # w
    <3>1. PICK n \in Calls : worker[v].m = n
      BY <1>1, <1>5, <2>2, WorkerKinds
    <3>2. /\ worker[v].at = "capture" /\ worker'[v].m = n
          /\ worker'[v].result = worker[v].result
      BY <1>5, <2>2, <3>1
    <3>3. /\ worker[v].result = "ok" => ScoreIsIn(n)
          /\ worker[v].result = "refused" => n \in denied
      BY <3>1, <3>2 DEF ClientIndInv, AnswersAreTrue
    <3> QED
      BY <1>3, <1>7, <3>2, <3>3 DEF ScoreIsIn
  <2> QED
    BY <2>1, <2>2
<1>9. repeating' \subseteq {n.req : n \in AtWork'}
  BY <1>3, <1>5 DEF ClientIndInv, RetryEnds
<1>10. CASE Commits(Record(rows, receipts, m))
  BY <1>2, <1>3, <1>5, <1>6, <1>8, <1>10, RecordingStep
<1>11. CASE UNCHANGED tables
  BY <1>3, <1>5, <1>6, <1>8, <1>9, <1>11, QuietStep
<1> QED
  BY <1>3, <1>10, <1>11

LEMMA LatePostKeeps ==
  ASSUME ClientBounds, TablesSound, ClientIndInv, NEW m \in Calls, LatePost(m)
  PROVE  TablesSound' /\ ClientIndInv'
<1> DEFINE reply == Record(rows, receipts, m)
<1>1. /\ Commits(reply) /\ late' \in {late, late \ {m}}
      /\ denied' = IF reply.answer \in Refusals THEN denied \cup {m} ELSE denied
      /\ UNCHANGED <<given, tasks, worker, failed, confirmed, repeating>>
  BY DEF LatePost
<1>2. ClientTypeOK'
  BY <1>1 DEF ClientIndInv, ClientTypeOK
<1>3. /\ TablesTyped /\ TablesTyped' /\ \A a \in Attempts : Grown(rows[a], rows'[a])
  BY <1>1, PostIsSound DEF ClientBounds
<1>4. AnswersAreTrue'
  <2> SUFFICES ASSUME NEW v \in Workers, worker'[v].at = "capture"
               PROVE  /\ worker'[v].result = "ok" => ScoreIsIn(worker[v].m)'
                      /\ worker'[v].result = "refused" => worker'[v].m \in denied'
    BY DEF AnswersAreTrue
  <2>1. PICK n \in Calls : worker[v].m = n
    BY <1>1, WorkerKinds DEF ClientIndInv, Free
  <2>2. /\ worker[v].result = "ok" => ScoreIsIn(n)
        /\ worker[v].result = "refused" => n \in denied
    BY <1>1, <2>1 DEF ClientIndInv, AnswersAreTrue
  <2>3. ScoreIsIn(n) => ScoreIsIn(n)'
    BY <1>3, ScoreStaysIn
  <2> QED
    BY <1>1, <2>1, <2>2, <2>3 DEF ScoreIsIn
<1>5. AtWork \subseteq AtWork'
  BY <1>1, WhoIsAtWork
<1> QED
  BY <1>1, <1>2, <1>4, <1>5, RecordingStep

\* What the client drops is in the table, or was denied: the answer of a call
\* speaks for it, and the confirmed total of its attempt for the others.
LEMMA CaptureKeeps ==
  ASSUME ClientBounds, TablesSound, ClientIndInv, NEW w \in Workers, Capture(w)
  PROVE  TablesSound' /\ ClientIndInv'
<1>1. ClientTypeOK
  BY DEF ClientIndInv
<1>2. PICK m \in Calls :
        /\ worker[w].at = "capture" /\ worker[w].m = m
        /\ worker[w].result \in {"ok", "refused", "retryable"}
  BY <1>1, WorkerKinds DEF Capture, Free
<1> DEFINE ok == worker[w].result = "ok"
           total == ok /\ m.att \in Replaced
           others == {n \in failed : n.req # m.req}
           sure == IF total /\ confirmed[m.att] < m.score
                   THEN [confirmed EXCEPT ![m.att] = m.score] ELSE confirmed
<1>3. /\ rows' = rows /\ receipts' = receipts
      /\ UNCHANGED <<given, tasks, late, denied>>
      /\ repeating' = repeating \ {m.req} /\ confirmed' = sure
      /\ worker' = [worker EXCEPT ![w] = Free]
      /\ failed' = IF total
                   THEN {n \in others : ~(n.att = m.att /\ Superseded(n, sure))}
                   ELSE IF worker[w].result = "retryable" /\ ~Superseded(m, sure)
                   THEN others \cup {m} ELSE others
  BY <1>2 DEF Capture, tables
<1>4. m.att \in Attempts /\ m.score \in Nat
  BY CallsAssumption DEF Mutation
<1>5. sure \in [Attempts -> Int]
  BY <1>1, <1>4 DEF ClientTypeOK
<1>6. failed' \subseteq others \cup {m} /\ others \subseteq failed
  BY <1>3
<1>7. ClientTypeOK'
  <2>1. Free \in AWorker
    BY DEF AWorker
  <2>2. worker' \in [Workers -> AWorker]
    BY <1>1, <1>3, <2>1 DEF ClientTypeOK
  <2>3. IsFiniteSet(failed \cup {m})
    BY <1>1, FS_AddElement DEF ClientTypeOK
  <2>4. failed' \in SUBSET (failed \cup {m})
    BY <1>6
  <2>5. IsFiniteSet(failed')
    BY <2>3, <2>4, FS_Subset
  <2> QED
    BY <1>1, <1>3, <1>5, <2>2, <2>4, <2>5 DEF ClientTypeOK
<1>8. /\ worker'[w] = Free
      /\ \A v \in Workers \ {w} : worker'[v] = worker[v]
  BY <1>1, <1>3 DEF ClientTypeOK
<1>9. ASSUME NEW n \in AtWork, n # m
      PROVE  n \in AtWork'
  <2>1. CASE n \in ToSet(tasks)
    BY <1>3, <2>1, WhoIsAtWork
  <2>2. CASE \E v \in Workers : worker[v] # Free /\ worker[v].m = n
    BY <1>2, <1>8, <1>9, <2>2, WhoIsAtWork
  <2> QED
    BY <1>9, <2>1, <2>2, WhoIsAtWork
<1>10. AnswersAreTrue'
  <2>1. worker'[w].at # "capture"
    BY <1>8 DEF Free
  <2> QED
    BY <1>3, <1>8, <2>1 DEF ClientIndInv, AnswersAreTrue, ScoreIsIn
<1>11. ok => ScoreIsIn(m)
  BY <1>2 DEF ClientIndInv, AnswersAreTrue
<1>12. ASSUME NEW a \in Replaced, sure[a] >= 0
       PROVE  rows[a] # None /\ rows[a].score >= sure[a]
  <2>1. a \in Attempts
    BY DEF ClientBounds
  <2>2. CASE sure[a] = confirmed[a]
    BY <1>12, <2>2 DEF ClientIndInv, TotalsAreRecorded
  <2>3. CASE sure[a] # confirmed[a]
    <3>1. total /\ a = m.att /\ sure[a] = m.score
      BY <1>1, <1>4, <2>1, <2>3 DEF ClientTypeOK
    <3> QED
      BY <1>11, <3>1 DEF ScoreIsIn
  <2> QED
    BY <2>2, <2>3
<1>13. TotalsAreRecorded'
  BY <1>3, <1>12 DEF TotalsAreRecorded
<1>14. RetryEnds'
  <2> SUFFICES ASSUME NEW r \in repeating'
               PROVE  \E n \in AtWork' : n.req = r
    BY DEF RetryEnds
  <2>1. r \in repeating /\ r # m.req
    BY <1>3
  <2>2. PICK n \in AtWork : n.req = r
    BY <2>1 DEF ClientIndInv, RetryEnds
  <2> QED
    BY <1>9, <2>1, <2>2
<1>15. ASSUME NEW n \in Calls, Superseded(n, sure)
       PROVE  ScoreIsIn(n)
  <2>1. n.att \in Replaced /\ sure[n.att] >= n.score
    BY <1>15 DEF Superseded
  <2>2. n.score \in Nat /\ n.att \in Attempts
    BY CallsAssumption DEF Mutation
  <2>3. sure[n.att] \in Int
    BY <1>5, <2>2
  <2>4. sure[n.att] >= 0
    BY <2>1, <2>2, <2>3
  <2>5. rows[n.att] # None /\ rows[n.att].score >= sure[n.att]
    BY <1>12, <2>1, <2>4
  <2>6. rows[n.att].score \in Nat
    BY <2>2, <2>5 DEF TablesSound, TablesTyped, Row
  <2> QED
    BY <2>1, <2>2, <2>3, <2>5, <2>6 DEF ScoreIsIn
<1>16. ASSUME NEW n \in given'
       PROVE  ScoreIsIn(n) \/ n \in AtWork' \cup failed' \cup denied'
  <2>0. n \in given /\ n \in Calls
    BY <1>1, <1>3 DEF ClientTypeOK
  <2>1. CASE n = m
    <3>1. CASE worker[w].result = "ok"
      BY <1>11, <2>1, <3>1
    <3>2. CASE worker[w].result = "refused"
      BY <1>2, <1>3, <2>1, <3>2 DEF ClientIndInv, AnswersAreTrue
    <3>3. CASE worker[w].result = "retryable"
      <4>1. ~total
        BY <3>3
      <4> QED
        BY <1>3, <1>15, <2>1, <3>3, <4>1
    <3> QED
      BY <1>2, <3>1, <3>2, <3>3
  <2>2. CASE n # m /\ n \in AtWork
    BY <1>9, <2>2
  <2>3. CASE n # m /\ n \in failed
    <3>1. n \in others
      BY <1>2, <2>0, <2>3 DEF ClientBounds, OwnCalls
    <3> QED
      BY <1>3, <1>15, <2>0, <3>1
  <2> QED
    BY <1>3, <2>0, <2>1, <2>2, <2>3 DEF ClientIndInv, SubmittedIsKept, ScoreIsIn
<1>17. SubmittedIsKept'
  BY <1>3, <1>16 DEF SubmittedIsKept, ScoreIsIn
<1>18. TablesSound'
  BY <1>3 DEF TablesSound, TablesTyped
<1> QED
  BY <1>7, <1>10, <1>13, <1>14, <1>17, <1>18 DEF ClientIndInv

-----------------------------------------------------------------------------
\* Through every step the tables are sound, and the client knows of each score
\* that it is recorded, or keeps it.
THEOREM ClientInductive ==
  ASSUME ClientBounds
  PROVE  ClientSpec => [](TablesSound /\ ClientIndInv)
<1>1. ClientInit => TablesSound /\ ClientIndInv
  <2> SUFFICES ASSUME ClientInit
               PROVE  TablesSound /\ ClientIndInv
    OBVIOUS
  <2>1. TablesSound
    BY DEF ClientInit, TablesInit, TablesSound, TablesTyped, RowIsOfCall
  <2>2. ClientTypeOK
    BY FS_EmptySet DEF ClientInit, ClientTypeOK, AWorker
  <2>3. AnswersAreTrue
    BY DEF ClientInit, AnswersAreTrue, Free
  <2>4. TotalsAreRecorded
    BY DEF ClientInit, TotalsAreRecorded, ClientBounds
  <2>5. RetryEnds /\ SubmittedIsKept
    BY DEF ClientInit, RetryEnds, SubmittedIsKept
  <2> QED
    BY <2>1, <2>2, <2>3, <2>4, <2>5 DEF ClientIndInv
<1>2. TablesSound /\ ClientIndInv /\ [ClientNext]_clientVars => (TablesSound /\ ClientIndInv)'
  <2> SUFFICES ASSUME TablesSound, ClientIndInv, [ClientNext]_clientVars
               PROVE  TablesSound' /\ ClientIndInv'
    OBVIOUS
  <2>1. CASE UNCHANGED clientVars
    BY <2>1 DEF clientVars, tables, TablesSound, TablesTyped, ClientIndInv, ClientTypeOK,
       AnswersAreTrue, ScoreIsIn, TotalsAreRecorded, RetryEnds, SubmittedIsKept, AtWork
  <2>2. ASSUME NEW m \in Calls, SubmitReliable(m) \/ SubmitAgain(m)
        PROVE  TablesSound' /\ ClientIndInv'
    BY <2>2, CallKeeps
  <2>3. ASSUME NEW m \in Calls, LatePost(m)
        PROVE  TablesSound' /\ ClientIndInv'
    BY <2>3, LatePostKeeps
  <2>4. ASSUME NEW w \in Workers, Take(w)
        PROVE  TablesSound' /\ ClientIndInv'
    BY <2>4, TakeKeeps
  <2>5. ASSUME NEW w \in Workers, PostIsAnswered(w)
        PROVE  TablesSound' /\ ClientIndInv'
    BY <2>5, AnswerKeeps
  <2>6. ASSUME NEW w \in Workers, PostFails(w)
        PROVE  TablesSound' /\ ClientIndInv'
    BY <2>6, FailureKeeps
  <2>7. ASSUME NEW w \in Workers, Capture(w)
        PROVE  TablesSound' /\ ClientIndInv'
    BY <2>7, CaptureKeeps
  <2>8. CASE RetryFailed
    BY <2>8, RetryKeeps
  <2>9. ASSUME NEW w \in Workers, PostIsLost(w)
        PROVE  TablesSound' /\ ClientIndInv'
    BY <2>9, LossKeeps
  <2> QED
    BY <2>1, <2>2, <2>3, <2>4, <2>5, <2>6, <2>7, <2>8, <2>9 DEF ClientNext
<1> QED
  BY <1>1, <1>2, PTL DEF ClientSpec

\* While the client runs, a submitted score is recorded, at work, kept for
\* another try, or denied, whatever becomes of the posts.
THEOREM SubmittedStays ==
  ASSUME ClientBounds
  PROVE  ClientSpec => []SubmittedIsKept
<1>1. ClientIndInv => SubmittedIsKept
  BY DEF ClientIndInv
<1> QED
  BY <1>1, ClientInductive, PTL

\* A total marked as confirmed is in the table, and no save stays marked as being
\* repeated when nobody repeats it.
THEOREM MarksStayTrue ==
  ASSUME ClientBounds
  PROVE  ClientSpec => []MarksAreTrue
<1>1. ClientIndInv => MarksAreTrue
  BY DEF ClientIndInv, MarksAreTrue
<1> QED
  BY <1>1, ClientInductive, PTL

-----------------------------------------------------------------------------
(***************************************************************************)
(* The journals of scores.                                                 *)
(***************************************************************************)

\* What every state of the outbox and its store satisfies.
OutboxInv == TablesSound /\ ReplayIndInv

\* What a task of the writer has behind it: nothing, or the rest of a replay.
Behind == [replay : Replayed, todo : SUBSET Item] \cup AtCall

-----------------------------------------------------------------------------
LEMMA RecordedStays ==
  ASSUME TablesTyped, TablesTyped', \A a \in Attempts : Grown(rows[a], rows'[a]),
         NEW m \in Calls, Recorded(m)
  PROVE  Recorded(m)'
<1>1. m.att \in Attempts /\ m.score \in Nat /\ m.rev \in Nat
  BY CallsAssumption DEF Mutation
<1>2. /\ rows[m.att] \in Row /\ rows[m.att] # None
      /\ rows[m.att].rev >= m.rev /\ rows[m.att].score >= m.score
  BY <1>1 DEF TablesTyped, Recorded
<1>3. /\ rows'[m.att] # None
      /\ rows'[m.att].rev >= rows[m.att].rev /\ rows'[m.att].score >= rows[m.att].score
  BY <1>1, <1>2 DEF Grown
<1>4. rows'[m.att] \in Row
  BY <1>1, <1>3 DEF TablesTyped
<1>5. /\ rows[m.att].score \in Nat /\ rows'[m.att].score \in Nat
      /\ rows[m.att].rev \in Nat /\ rows'[m.att].rev \in Nat
  BY <1>2, <1>4 DEF Row
<1> QED
  BY <1>1, <1>2, <1>3, <1>5 DEF Recorded

\* An answer tells a score.
LEMMA ReplyTellsScore ==
  ASSUME TablesTyped, NEW m \in Calls
  PROVE  Record(rows, receipts, m).score \in Nat
<1> DEFINE reply == Record(rows, receipts, m)
           row == rows[Target(m)]
           receipt == receipts[m.req]
<1>1. /\ m.req \in Requests /\ m.score \in Nat /\ Target(m) \in Attempts
  BY CallsAssumption DEF Mutation, Target
<1>2. (row # None => row.score \in Nat) /\ (receipt # None => receipt.score \in Nat)
  BY <1>1 DEF TablesTyped, Row, Receipt
<1>3. \A why : Refuse(rows, receipts, why).score = 0
  BY DEF Refuse, Reply
<1>4. \A table, word, score : Accept(table, receipts, m, word, score).score = score
  BY DEF Accept, Reply
<1>5. \A rev : Raise(rows, receipts, m, rev).score \in {0, m.score}
  BY <1>3, <1>4 DEF Raise
<1>6. row # None => Update(rows, receipts, m).score \in {0, m.score, row.score}
  BY <1>3, <1>4, <1>5 DEF Update
<1>7. Insert(rows, receipts, m).score = m.score
  BY <1>4 DEF Insert
<1>8. CASE receipt # None /\ receipt.of # m
  BY <1>3, <1>8 DEF Record
<1>9. CASE receipt # None /\ ~(receipt.of # m) /\ receipt.good
  BY <1>2, <1>9 DEF Record, Reply
<1>10. CASE ~(receipt # None /\ receipt.of # m) /\ ~(receipt # None /\ receipt.good)
  <2>1. CASE RowOfRequest(rows, m) # {}
    BY <1>1, <1>3, <1>4, <1>10, <2>1 DEF Record
  <2>2. CASE RowOfRequest(rows, m) = {} /\ HintError(rows, m) # "none"
    BY <1>3, <1>10, <2>2 DEF Record
  <2>3. CASE RowOfRequest(rows, m) = {} /\ HintError(rows, m) = "none" /\ row = None
    BY <1>1, <1>7, <1>10, <2>3 DEF Record
  <2>4. CASE RowOfRequest(rows, m) = {} /\ HintError(rows, m) = "none" /\ row # None
    <3>1. reply = Update(rows, receipts, m)
      BY <1>10, <2>4 DEF Record
    <3> QED
      BY <1>1, <1>2, <1>6, <2>4, <3>1
  <2> QED
    BY <2>1, <2>2, <2>3, <2>4
<1> QED
  BY <1>8, <1>9, <1>10

\* The record of a call keeps the tables sound; an accepted call is recorded.
LEMMA RecordIsSound ==
  ASSUME TablesSound, ReplayBounds, NEW m \in Calls, Commits(Record(rows, receipts, m))
  PROVE  /\ TablesSound' /\ TablesTyped /\ TablesTyped'
         /\ \A a \in Attempts : Grown(rows[a], rows'[a])
         /\ Record(rows, receipts, m).score \in Nat
         /\ Record(rows, receipts, m).answer \notin Refusals => Recorded(m)'
<1>1. Target(m) = m.att /\ ~BareHinted(m)
  BY DEF ReplayBounds, OwnCalls, Target, BareHinted
<1>2. Record(rows, receipts, m).answer \notin Refusals => InTable(m, rows')
  BY RecordSound
<1>3. InTable(m, rows') => Recorded(m)'
  BY <1>1 DEF InTable, Recorded
<1> QED
  BY <1>2, <1>3, RecordSound, ReplyTellsScore DEF TablesSound

-----------------------------------------------------------------------------
\* A writer is idle, between two mutations of a replay, or at one mutation.
LEMMA JobKinds ==
  ASSUME WritersTyped, NEW p \in Procs
  PROVE  \/ job[p] = Idle /\ job[p].at = "idle"
         \/ /\ job[p].at = "next"
            /\ job[p].replay \in Replayed /\ job[p].todo \subseteq Item
         \/ /\ job[p].at \in {"record", "unlink", "drop"}
            /\ job[p] \in AtCall /\ job[p] \in Behind
            /\ job[p].m \in Calls /\ job[p].durable \in BOOLEAN
<1>1. job[p] \in AJob
  BY DEF WritersTyped
<1>2. CASE job[p] = Idle
  BY <1>2 DEF Idle
<1>3. CASE job[p] \in AtCall
  BY <1>3 DEF AtCall, Behind
<1>4. CASE job[p] \in [at : {"next"}, replay : Replayed, todo : SUBSET Item]
  BY <1>4
<1> QED
  BY <1>1, <1>2, <1>3, <1>4 DEF AJob

LEMMA BehindFields ==
  ASSUME NEW of \in Behind
  PROVE  /\ of.replay \in Replayed /\ of.todo \subseteq Item
         /\ Stopped(of) \in Behind
<1>1. CASE of \in [replay : Replayed, todo : SUBSET Item]
  BY <1>1 DEF Behind, Stopped
<1>2. CASE of \in AtCall
  BY <1>2 DEF Behind, Stopped, AtCall
<1> QED
  BY <1>1, <1>2 DEF Behind

LEMMA AtIsTyped ==
  ASSUME NEW step \in {"record", "unlink", "drop"}, NEW m \in Calls,
         NEW durable \in BOOLEAN, NEW of \in Behind
  PROVE  /\ At(step, m, durable, of) \in AtCall /\ At(step, m, durable, of) \in AJob
         /\ At(step, m, durable, of).at = step /\ At(step, m, durable, of).m = m
BY BehindFields DEF At, AtCall, AJob

\* The writer takes up a job of this kind.
Turns(p, next) == next \in AJob /\ job' = [job EXCEPT ![p] = next]

\* When it is done with a mutation, it is idle or between two of a replay.
LEMMA DoneTurns ==
  ASSUME NEW p \in Procs, NEW of \in Behind, NEW m, NEW result, NEW score, NEW reqs,
         Done(p, m, of, result, score, reqs) \/ EndReplay(p, of, reqs)
  PROVE  \E next : next.at \notin {"record", "unlink", "drop"} /\ Turns(p, next)
<1>1. of.replay \in Replayed /\ of.todo \subseteq Item
  BY BehindFields
<1>2. CASE job' = [job EXCEPT ![p] = Idle]
  BY <1>2 DEF Turns, AJob, Idle
<1>3. CASE job' = [job EXCEPT ![p] = [at |-> "next", replay |-> of.replay, todo |-> of.todo]]
  <2> DEFINE next == [at |-> "next", replay |-> of.replay, todo |-> of.todo]
  <2>1. next \in AJob /\ next.at = "next"
    BY <1>1 DEF AJob
  <2> QED
    BY <1>3, <2>1 DEF Turns
<1> QED
  BY <1>2, <1>3 DEF Done, EndReplay

-----------------------------------------------------------------------------
\* The tables may grow and refusals be added; what justified a removal still does.
LEMMA WriterTurns ==
  ASSUME OutboxInv, TablesTyped', \A a \in Attempts : Grown(rows[a], rows'[a]),
         refused \subseteq refused',
         NEW p \in Procs, NEW next, Turns(p, next),
         next.at = "unlink" => Recorded(next.m)', next.at = "drop" => next.m \in refused'
  PROVE  WritersTyped' /\ RemovalsAreDue'
<1>1. TablesTyped /\ WritersTyped
  BY DEF OutboxInv, TablesSound, ReplayIndInv
<1>2. /\ job' \in [Procs -> AJob] /\ job'[p] = next
      /\ \A q \in Procs \ {p} : job'[q] = job[q]
  BY <1>1 DEF Turns, WritersTyped
<1>3. ASSUME NEW q \in Procs
      PROVE  /\ job'[q].at = "unlink" => Recorded(job[q].m)'
             /\ job'[q].at = "drop" => job'[q].m \in refused'
  <2>1. CASE q = p
    BY <1>2, <2>1 DEF Recorded
  <2>2. CASE q # p /\ job[q].at \in {"unlink", "drop"}
    <3>1. PICK m \in Calls : job[q].m = m
      BY <1>1, <2>2, JobKinds
    <3>2. /\ job[q].at = "unlink" => Recorded(m)
          /\ job[q].at = "drop" => m \in refused
      BY <3>1 DEF OutboxInv, ReplayIndInv, RemovalsAreDue
    <3>3. Recorded(m) => Recorded(m)'
      BY <1>1, RecordedStays
    <3> QED
      BY <1>2, <2>2, <3>1, <3>2, <3>3 DEF Recorded
  <2> QED
    BY <1>2, <2>1, <2>2
<1> QED
  BY <1>2, <1>3 DEF WritersTyped, RemovalsAreDue

\* A step loses no journaled mutation if what it takes from the spool and from
\* the temporary files is kept some other way.
LEMMA NothingIsDropped ==
  ASSUME OutboxInv, TablesSound', \A a \in Attempts : Grown(rows[a], rows'[a]),
         JournalsTyped', MemoryTyped', WritersTyped', RemovalsAreDue',
         refused \subseteq refused', aside \subseteq aside',
         \A m \in Calls : spool[m.req] = m => Kept(m)',
         \A m \in orphans : Kept(m)',
         \A m \in published' : m \in published \/ Kept(m)'
  PROVE  OutboxInv'
<1>1. ASSUME NEW m \in published
      PROVE  Kept(m)'
  <2>1. m \in Calls /\ Kept(m)
    BY DEF OutboxInv, ReplayIndInv, JournalsTyped, AllAreKept
  <2>2. Recorded(m) => Recorded(m)'
    BY <2>1, RecordedStays DEF OutboxInv, TablesSound
  <2> QED
    BY <2>1, <2>2 DEF Kept
<1>2. AllAreKept'
  BY <1>1 DEF AllAreKept, Kept, Recorded
<1> QED
  BY <1>2 DEF OutboxInv, ReplayIndInv

\* A step that touches neither tables nor journals loses nothing.
LEMMA NothingIsTouched ==
  ASSUME OutboxInv, MemoryTyped', UNCHANGED <<tables, spool, orphans, ghosts>>,
         \/ job' = job
         \/ \E p \in Procs : \E next : next.at \notin {"unlink", "drop"} /\ Turns(p, next)
  PROVE  OutboxInv'
<1>1. /\ rows' = rows /\ receipts' = receipts /\ spool' = spool /\ orphans' = orphans
      /\ published' = published /\ refused' = refused /\ aside' = aside
  BY DEF tables, ghosts
<1>2. TablesSound' /\ TablesTyped' /\ \A a \in Attempts : Grown(rows[a], rows'[a])
  BY <1>1, RowsStay DEF OutboxInv, TablesSound, TablesTyped
<1>3. JournalsTyped'
  BY <1>1 DEF OutboxInv, ReplayIndInv, JournalsTyped
<1>4. WritersTyped' /\ RemovalsAreDue'
  <2>1. CASE job' = job
    BY <1>1, <2>1 DEF OutboxInv, ReplayIndInv, WritersTyped, RemovalsAreDue, Recorded
  <2>2. CASE \E p \in Procs : \E next :
               next.at \notin {"unlink", "drop"} /\ Turns(p, next)
    BY <1>1, <1>2, <2>2, WriterTurns
  <2> QED
    BY <2>1, <2>2
<1>5. \A m : Kept(m) => Kept(m)'
  BY <1>1 DEF Kept, Recorded
<1> QED
  BY <1>1, <1>2, <1>3, <1>4, <1>5, NothingIsDropped DEF Kept

-----------------------------------------------------------------------------
\* Mutations join the pending ones of a process, or leave them.
LEMMA MemoryMoves ==
  ASSUME NEW f \in [Procs -> SUBSET Calls], NEW p \in Procs, NEW S \in SUBSET Calls, NEW T
  PROVE  /\ [f EXCEPT ![p] = @ \cup S] \in [Procs -> SUBSET Calls]
         /\ [f EXCEPT ![p] = @ \ T] \in [Procs -> SUBSET Calls]
<1>1. f[p] \cup S \in SUBSET Calls /\ f[p] \ T \in SUBSET Calls
  OBVIOUS
<1> QED
  BY <1>1

\* What a mutation goes through.  "m" and "of" are the mutation a writer is at,
\* and what is behind it.
LEMMA PublishKeeps ==
  ASSUME ReplayBounds, OutboxInv, NEW p \in Procs, NEW m \in Calls, NEW of \in Behind,
         Publish(p, m, of), spool[m.req] \in {None, Garbled, m},
         UNCHANGED <<tables, orphans, scan>>, queue' \in [Procs -> Seq(Task)]
  PROVE  OutboxInv'
<1> DEFINE next == At("record", m, TRUE, of)
<1>1. /\ spool' = [spool EXCEPT ![m.req] = m] /\ published' = published \cup {m}
      /\ pend' = [pend EXCEPT ![p] = @ \cup {m}]
      /\ nondur' = [nondur EXCEPT ![p] = @ \ ForRequest(@, m.req)]
      /\ job' = [job EXCEPT ![p] = next]
      /\ UNCHANGED <<refused, aside>>
  BY DEF Publish, MarkSpooled
<1>2. m.req \in Requests
  BY CallsAssumption DEF Mutation
<1>3. /\ rows' = rows /\ receipts' = receipts
      /\ TablesSound' /\ TablesTyped' /\ \A a \in Attempts : Grown(rows[a], rows'[a])
  BY RowsStay DEF tables, OutboxInv, TablesSound, TablesTyped
<1>4. spool'[m.req] = m /\ \A r \in Requests \ {m.req} : spool'[r] = spool[r]
  BY <1>1, <1>2 DEF OutboxInv, ReplayIndInv, JournalsTyped
<1>5. JournalsTyped'
  BY <1>1, <1>2, <1>4 DEF OutboxInv, ReplayIndInv, JournalsTyped
<1>6. MemoryTyped'
  BY <1>1 DEF OutboxInv, ReplayIndInv, MemoryTyped, ForRequest
<1>7. next \in AJob /\ next.at = "record"
  BY BehindFields DEF At, AtCall, AJob
<1>8. WritersTyped' /\ RemovalsAreDue'
  BY <1>1, <1>3, <1>7, WriterTurns DEF Turns
<1>9. ASSUME NEW n \in Calls, spool[n.req] = n
      PROVE  Kept(n)'
  <2>1. n.req \in Requests /\ n \notin {None, Garbled}
    BY CallsAssumption DEF Mutation, ReplayBounds
  <2> QED
    BY <1>4, <1>9, <2>1 DEF Kept
<1>10. \A n \in published' : n \in published \/ Kept(n)'
  BY <1>1, <1>4 DEF Kept
<1>11. \A n \in orphans : Kept(n)'
  BY DEF Kept
<1> QED
  BY <1>1, <1>3, <1>5, <1>6, <1>8, <1>9, <1>10, <1>11, NothingIsDropped

LEMMA SpoolForKeeps ==
  ASSUME ReplayBounds, OutboxInv, NEW p \in Procs, NEW m \in Calls, NEW of \in Behind,
         SpoolFor(p, m, of), UNCHANGED <<tables, orphans, scan>>,
         queue' \in [Procs -> Seq(Task)]
  PROVE  OutboxInv'
<1>1. CASE spool[m.req] \in {None, Garbled, m} /\ Publish(p, m, of)
  BY <1>1, PublishKeeps
<1>2. CASE Rejected(p, m, of)
  <2>1. /\ Done(p, m, of, "refused", 0, {})
        /\ UNCHANGED <<spool, pend, nondur, event, ghosts>>
    BY <1>2 DEF Rejected
  <2>2. \E next : next.at \notin {"unlink", "drop"} /\ Turns(p, next)
    BY <2>1, DoneTurns
  <2>3. MemoryTyped'
    BY <2>1 DEF OutboxInv, ReplayIndInv, MemoryTyped
  <2> QED
    BY <2>1, <2>2, <2>3, NothingIsTouched
<1>3. CASE NotSpooled(p, m, of)
  <2> DEFINE next == At("record", m, FALSE, of)
  <2>1. /\ job' = [job EXCEPT ![p] = next]
        /\ UNCHANGED <<spool, pend, nondur, retrying, event, answer, ghosts>>
    BY <1>3 DEF NotSpooled
  <2>2. next \in AJob /\ next.at = "record"
    BY BehindFields DEF At, AtCall, AJob
  <2>3. MemoryTyped'
    BY <2>1 DEF OutboxInv, ReplayIndInv, MemoryTyped
  <2> HIDE DEF next
  <2>4. Turns(p, next) /\ next.at \notin {"unlink", "drop"}
    BY <2>1, <2>2 DEF Turns
  <2> QED
    BY <2>1, <2>3, <2>4, NothingIsTouched
<1> QED
  BY <1>1, <1>2, <1>3 DEF SpoolFor

\* An exception leaves the spool alone.
LEMMA ExceptionKeeps ==
  ASSUME OutboxInv, NEW p \in Procs, NEW m \in Calls, NEW of \in Behind,
         KeepAfterException(p, m) \/ KeepInMemory(p, m, of),
         Done(p, m, of, "failed", 0, {}), UNCHANGED <<tables, spool, ghosts, orphans, scan>>,
         queue' \in [Procs -> Seq(Task)]
  PROVE  OutboxInv'
<1>1. \E next : next.at \notin {"unlink", "drop"} /\ Turns(p, next)
  BY DoneTurns
<1>2. /\ pend' = pend \/ pend' = [pend EXCEPT ![p] = @ \cup {m}]
      /\ nondur' = nondur \/ nondur' = [nondur EXCEPT ![p] = @ \cup {m}]
  BY DEF KeepAfterException, KeepInMemory
<1>3. /\ pend \in [Procs -> SUBSET Calls] /\ nondur \in [Procs -> SUBSET Calls]
      /\ scan' \in [Procs -> (SUBSET Calls) \cup {None}]
  BY DEF OutboxInv, ReplayIndInv, MemoryTyped
<1>4. {m} \in SUBSET Calls
  OBVIOUS
<1>5. /\ [pend EXCEPT ![p] = @ \cup {m}] \in [Procs -> SUBSET Calls]
      /\ [nondur EXCEPT ![p] = @ \cup {m}] \in [Procs -> SUBSET Calls]
  BY <1>3, <1>4, MemoryMoves
<1>6. MemoryTyped'
  BY <1>2, <1>3, <1>5 DEF MemoryTyped
<1> QED
  BY <1>1, <1>6, NothingIsTouched

\* The store's answer gives the reason to remove the journal.
LEMMA AnsweredKeeps ==
  ASSUME ReplayBounds, OutboxInv, NEW p \in Procs, NEW m \in Calls, NEW of \in Behind,
         NEW durable \in BOOLEAN, Answered(p, m, durable, of),
         UNCHANGED <<orphans, scan>>, queue' \in [Procs -> Seq(Task)]
  PROVE  OutboxInv'
<1> DEFINE reply == Record(rows, receipts, m)
           ok == reply.answer \notin Refusals
           turn == At(IF ok THEN "unlink" ELSE "drop", m, durable, of)
           next == [turn EXCEPT !.score = reply.score]
<1>1. /\ Commits(reply) /\ refused' = IF ok THEN refused ELSE refused \cup {m}
      /\ job' = [job EXCEPT ![p] = next]
      /\ UNCHANGED <<spool, pend, nondur, published, aside>>
  BY DEF Answered
<1>2. /\ TablesSound' /\ TablesTyped /\ TablesTyped'
      /\ \A a \in Attempts : Grown(rows[a], rows'[a])
      /\ reply.score \in Nat
      /\ ok => Recorded(m)'
  BY <1>1, RecordIsSound DEF OutboxInv
<1>3. turn \in AtCall /\ turn.m = m /\ turn.at = IF ok THEN "unlink" ELSE "drop"
  BY AtIsTyped
<1>4. next \in AtCall /\ next.m = m /\ next.at = IF ok THEN "unlink" ELSE "drop"
  BY <1>2, <1>3 DEF AtCall
<1> HIDE DEF next, turn
<1>5. PICK turned : /\ Turns(p, turned) /\ turned.m = m
                    /\ turned.at = IF ok THEN "unlink" ELSE "drop"
  BY <1>1, <1>4 DEF Turns, AJob
<1>6. WritersTyped' /\ RemovalsAreDue'
  <2>1. turned.at = "unlink" => Recorded(m)'
    BY <1>2, <1>5
  <2>2. turned.at = "unlink" => Recorded(turned.m)'
    BY <1>5, <2>1
  <2>3. turned.at = "drop" => turned.m \in refused'
    BY <1>1, <1>5
  <2> QED
    BY <1>1, <1>2, <1>5, <2>2, <2>3, WriterTurns
<1>7. JournalsTyped' /\ MemoryTyped'
  BY <1>1 DEF OutboxInv, ReplayIndInv, JournalsTyped, MemoryTyped
<1> QED
  BY <1>1, <1>2, <1>6, <1>7, NothingIsDropped DEF Kept

\* A journal that is removed or put aside takes nothing with it but its own
\* mutation, which is recorded, refused or put aside.
LEMMA JournalGoes ==
  ASSUME ReplayBounds, OutboxInv, NEW p \in Procs, NEW m \in Calls,
         spool' = [spool EXCEPT ![m.req] = None],
         spool[m.req] = m => Recorded(m) \/ m \in refused \/ m \in aside',
         aside \subseteq aside', UNCHANGED <<tables, orphans, published, refused, scan>>,
         pend' = pend \/ pend' = [pend EXCEPT ![p] = @ \ ForRequest(@, m.req)],
         nondur' = nondur \/ nondur' = [nondur EXCEPT ![p] = @ \ ForRequest(@, m.req)],
         queue' \in [Procs -> Seq(Task)],
         \E next : next.at \notin {"unlink", "drop"} /\ Turns(p, next)
  PROVE  OutboxInv'
<1>1. m.req \in Requests /\ None \notin Calls
  BY CallsAssumption DEF Mutation, ReplayBounds
<1>2. /\ rows' = rows /\ receipts' = receipts
      /\ TablesSound' /\ TablesTyped' /\ \A a \in Attempts : Grown(rows[a], rows'[a])
  BY RowsStay DEF tables, OutboxInv, TablesSound, TablesTyped
<1>3. WritersTyped' /\ RemovalsAreDue'
  BY <1>2, WriterTurns
<1>4. spool'[m.req] = None /\ \A r \in Requests \ {m.req} : spool'[r] = spool[r]
  BY <1>1 DEF OutboxInv, ReplayIndInv, JournalsTyped
<1>5. JournalsTyped'
  BY <1>1, <1>4 DEF OutboxInv, ReplayIndInv, JournalsTyped
<1>6. /\ pend \in [Procs -> SUBSET Calls] /\ nondur \in [Procs -> SUBSET Calls]
      /\ scan' \in [Procs -> (SUBSET Calls) \cup {None}]
  BY DEF OutboxInv, ReplayIndInv, MemoryTyped
<1>7. /\ [pend EXCEPT ![p] = @ \ ForRequest(@, m.req)] \in [Procs -> SUBSET Calls]
      /\ [nondur EXCEPT ![p] = @ \ ForRequest(@, m.req)] \in [Procs -> SUBSET Calls]
  BY <1>6 DEF ForRequest
<1>8. MemoryTyped'
  BY <1>6, <1>7 DEF MemoryTyped
<1>9. ASSUME NEW n \in Calls, spool[n.req] = n
      PROVE  Kept(n)'
  <2>1. CASE n.req = m.req
    <3>1. n = m
      BY <2>1 DEF ReplayBounds, OwnCalls
    <3> QED
      BY <1>2, <1>9, <3>1 DEF Kept, Recorded
  <2>2. CASE n.req # m.req
    <3>1. n.req \in Requests
      BY CallsAssumption DEF Mutation
    <3> QED
      BY <1>4, <1>9, <2>2, <3>1 DEF Kept
  <2> QED
    BY <2>1, <2>2
<1> QED
  BY <1>2, <1>3, <1>5, <1>8, <1>9, NothingIsDropped DEF Kept

LEMMA ApplyKeeps ==
  ASSUME ReplayBounds, OutboxInv, NEW p \in Procs, NEW m \in Calls, NEW of \in Behind,
         NEW durable \in BOOLEAN, Apply(p, m, durable, of),
         UNCHANGED <<orphans, scan>>, queue' \in [Procs -> Seq(Task)]
  PROVE  OutboxInv'
<1>1. CASE Answered(p, m, durable, of)
  BY <1>1, AnsweredKeeps
<1>2. CASE Busy(p, m, durable, of) /\ UNCHANGED tables
  <2>1. CASE KeepInMemory(p, m, of)
    BY <1>2, <2>1, ExceptionKeeps DEF KeepInMemory
  <2>2. CASE /\ Done(p, m, Stopped(of), "pending", 0, {})
             /\ UNCHANGED <<spool, pend, nondur, ghosts>>
    <3>1. Stopped(of) \in Behind
      BY BehindFields
    <3>2. \E next : next.at \notin {"unlink", "drop"} /\ Turns(p, next)
      BY <2>2, <3>1, DoneTurns
    <3>3. MemoryTyped'
      BY <2>2 DEF OutboxInv, ReplayIndInv, MemoryTyped
    <3> QED
      BY <1>2, <2>2, <3>2, <3>3, NothingIsTouched
  <2> QED
    BY <1>2, <2>1, <2>2 DEF Busy
<1>3. CASE Unusable(p, m, durable, of) /\ UNCHANGED tables
  <2>1. CASE KeepInMemory(p, m, of)
    BY <1>3, <2>1, ExceptionKeeps DEF KeepInMemory
  <2>2. CASE ~KeepInMemory(p, m, of)
    <3>1. /\ Done(p, m, of, "pending", 0, {})
          /\ UNCHANGED <<nondur, published, refused>>
      BY <1>3, <2>2 DEF Unusable
    <3>2. \E next : next.at \notin {"unlink", "drop"} /\ Turns(p, next)
      BY <3>1, DoneTurns
    <3>3. CASE UNCHANGED <<spool, pend, aside>>
      <4>1. MemoryTyped'
        BY <3>1, <3>3 DEF OutboxInv, ReplayIndInv, MemoryTyped
      <4> QED
        BY <1>3, <3>1, <3>2, <3>3, <4>1, NothingIsTouched DEF ghosts
    <3>4. CASE /\ spool' = [spool EXCEPT ![m.req] = None]
               /\ aside' = aside \cup ({spool[m.req]} \ {Garbled})
               /\ pend' = [pend EXCEPT ![p] = @ \ ForRequest(@, m.req)]
      <4>1. aside \subseteq aside' /\ (spool[m.req] = m => m \in aside')
        BY <3>4 DEF ReplayBounds
      <4> QED
        BY <1>3, <3>1, <3>2, <3>4, <4>1, JournalGoes
    <3> QED
      BY <1>3, <2>2, <3>3, <3>4 DEF Unusable
  <2> QED
    BY <2>1, <2>2
<1> QED
  BY <1>1, <1>2, <1>3 DEF Apply

-----------------------------------------------------------------------------
\* The steps of a writer.
LEMMA StartSaveKeeps ==
  ASSUME ReplayBounds, OutboxInv, NEW p \in Procs, StartSave(p)
  PROVE  OutboxInv'
<1>1. /\ queue \in [Procs -> Seq(Task)] /\ queue[p] # <<>> /\ Head(queue[p]).do = "save"
      /\ queue' = [queue EXCEPT ![p] = Tail(@)]
      /\ UNCHANGED <<tables, orphans, up, scan>>
  BY DEF StartSave, OutboxInv, ReplayIndInv, MemoryTyped
<1>2. queue[p] \in Seq(Task)
  BY <1>1
<1>3. Head(queue[p]) \in Task /\ Tail(queue[p]) \in Seq(Task)
  BY <1>1, <1>2, HeadTailProperties
<1>4. queue' \in [Procs -> Seq(Task)]
  BY <1>1, <1>3
<1>5. PICK m \in Calls : m = Head(queue[p]).m
  BY <1>1, <1>3 DEF Task
<1>6. Submission \in Behind
  <2>1. {} \in SUBSET Item
    OBVIOUS
  <2>2. None \in Replayed
    BY DEF Replayed
  <2> QED
    BY <2>1, <2>2 DEF Submission, Behind
<1>7. CASE SpoolFor(p, m, Submission)
  BY <1>1, <1>4, <1>6, <1>7, SpoolForKeeps
<1>8. CASE /\ KeepAfterException(p, m) /\ Done(p, m, Submission, "failed", 0, {})
           /\ UNCHANGED <<spool, ghosts>>
  BY <1>1, <1>4, <1>6, <1>8, ExceptionKeeps
<1> QED
  BY <1>5, <1>7, <1>8 DEF StartSave

LEMMA StartRetryKeeps ==
  ASSUME ReplayBounds, OutboxInv, NEW p \in Procs, StartRetry(p)
  PROVE  OutboxInv'
<1>1. /\ queue \in [Procs -> Seq(Task)] /\ queue[p] # <<>> /\ Head(queue[p]).do = "retry"
      /\ queue' = [queue EXCEPT ![p] = Tail(@)]
      /\ pend \in [Procs -> SUBSET Calls] /\ nondur \in [Procs -> SUBSET Calls]
      /\ UNCHANGED <<tables, spool, orphans, pend, nondur, scan, ghosts>>
  BY DEF StartRetry, OutboxInv, ReplayIndInv, MemoryTyped
<1>2. queue[p] \in Seq(Task)
  BY <1>1
<1>3. Head(queue[p]) \in Task /\ Tail(queue[p]) \in Seq(Task)
  BY <1>1, <1>2, HeadTailProperties
<1>4. queue' \in [Procs -> Seq(Task)]
  BY <1>1, <1>3
<1> DEFINE of == [replay |-> Head(queue[p]).reqs,
                  todo |-> {[m |-> m, fresh |-> FALSE] : m \in pend[p]}
                           \cup {[m |-> m, fresh |-> TRUE] : m \in nondur[p]}]
<1>5. of.replay \in Replayed /\ of.todo \subseteq Item
  <2>1. Head(queue[p]).reqs \in Replayed
    BY <1>1, <1>3 DEF Task, Replayed
  <2>2. pend[p] \subseteq Calls /\ nondur[p] \subseteq Calls
    BY <1>1
  <2>3. \A m \in Calls : [m |-> m, fresh |-> FALSE] \in Item /\ [m |-> m, fresh |-> TRUE] \in Item
    BY DEF Item
  <2>4. /\ {[m |-> m, fresh |-> FALSE] : m \in pend[p]} \subseteq Item
        /\ {[m |-> m, fresh |-> TRUE] : m \in nondur[p]} \subseteq Item
    BY <2>2, <2>3
  <2> QED
    BY <2>1, <2>4
<1>6. PICK behind \in Behind : behind = of
  BY <1>5 DEF Behind
<1>7. \/ EndReplay(p, behind, {})
      \/ job' = [job EXCEPT ![p] = [at |-> "next", replay |-> of.replay, todo |-> of.todo]]
  BY <1>6 DEF StartRetry
<1>8. \E next : next.at \notin {"unlink", "drop"} /\ Turns(p, next)
  <2>1. CASE EndReplay(p, behind, {})
    BY <2>1, DoneTurns
  <2>2. CASE job' = [job EXCEPT ![p] = [at |-> "next", replay |-> of.replay,
                                         todo |-> of.todo]]
    <3> DEFINE next == [at |-> "next", replay |-> of.replay, todo |-> of.todo]
    <3>1. next \in AJob /\ next.at = "next"
      BY <1>5 DEF AJob
    <3> QED
      BY <2>2, <3>1 DEF Turns
  <2> QED
    BY <1>7, <2>1, <2>2
<1>9. MemoryTyped'
  BY <1>1, <1>4 DEF OutboxInv, ReplayIndInv, MemoryTyped
<1> QED
  BY <1>1, <1>8, <1>9, NothingIsTouched

\* What is left of a replay beside one item.
LEMMA RestIsBehind ==
  ASSUME OutboxInv, NEW p \in Procs, job[p].at = "next", NEW item \in job[p].todo
  PROVE  Rest(p, item) \in Behind /\ item \in Item
<1>1. job[p].replay \in Replayed /\ job[p].todo \subseteq Item
  BY JobKinds DEF OutboxInv, ReplayIndInv, Idle
<1>2. job[p].todo \ {item} \in SUBSET Item
  BY <1>1
<1> QED
  BY <1>1, <1>2 DEF Rest, Behind

LEMMA RetryFreshKeeps ==
  ASSUME ReplayBounds, OutboxInv, NEW p \in Procs, RetryFresh(p)
  PROVE  OutboxInv'
<1>1. /\ job[p].at = "next" /\ UNCHANGED <<tables, orphans, scan, queue>>
  BY DEF RetryFresh
<1>2. PICK item \in job[p].todo : SpoolFor(p, item.m, Rest(p, item))
  BY DEF RetryFresh
<1>3. Rest(p, item) \in Behind /\ item \in Item
  BY <1>1, RestIsBehind
<1>4. PICK of \in Behind, m \in Calls : of = Rest(p, item) /\ m = item.m
  BY <1>3 DEF Item
<1>5. SpoolFor(p, m, of)
  BY <1>2, <1>4
<1>6. queue' \in [Procs -> Seq(Task)]
  BY <1>1 DEF OutboxInv, ReplayIndInv, MemoryTyped
<1> QED
  BY <1>1, <1>5, <1>6, SpoolForKeeps

LEMMA RecordSpooledKeeps ==
  ASSUME ReplayBounds, OutboxInv, NEW p \in Procs, RecordSpooled(p)
  PROVE  OutboxInv'
<1>1. UNCHANGED <<orphans, scan, queue>>
  BY DEF RecordSpooled
<1>2. queue' \in [Procs -> Seq(Task)]
  BY <1>1 DEF OutboxInv, ReplayIndInv, MemoryTyped
<1>3. CASE job[p].at = "record" /\ Apply(p, job[p].m, job[p].durable, job[p])
  <2>1. /\ job[p] \in Behind /\ job[p].m \in Calls /\ job[p].durable \in BOOLEAN
    BY <1>3, JobKinds DEF OutboxInv, ReplayIndInv, Idle
  <2>2. PICK of \in Behind, m \in Calls, durable \in BOOLEAN :
          of = job[p] /\ m = job[p].m /\ durable = job[p].durable
    BY <2>1
  <2>3. Apply(p, m, durable, of)
    BY <1>3, <2>2
  <2> QED
    BY <1>1, <1>2, <2>3, ApplyKeeps
<1>4. ASSUME job[p].at = "next", NEW item \in job[p].todo,
             Apply(p, item.m, TRUE, Rest(p, item))
      PROVE  OutboxInv'
  <2>1. Rest(p, item) \in Behind /\ item \in Item
    BY <1>4, RestIsBehind
  <2>2. PICK of \in Behind, m \in Calls : of = Rest(p, item) /\ m = item.m
    BY <2>1 DEF Item
  <2>3. Apply(p, m, TRUE, of)
    BY <1>4, <2>2
  <2> QED
    BY <1>1, <1>2, <2>3, ApplyKeeps
<1> QED
  BY <1>3, <1>4 DEF RecordSpooled

\* Unlink and Drop have a reason: their mutation is recorded, or refused.
LEMMA UnlinkKeeps ==
  ASSUME ReplayBounds, OutboxInv, NEW p \in Procs, Unlink(p)
  PROVE  OutboxInv'
<1>1. job[p].at = "unlink" /\ job[p] \in Behind /\ job[p].m \in Calls
  BY JobKinds DEF Unlink, OutboxInv, ReplayIndInv, Idle
<1>2. PICK of \in Behind, m \in Calls : of = job[p] /\ m = job[p].m
  BY <1>1
<1>3. /\ Removed(m) \/ UNCHANGED spool
      /\ Forget(p, m) /\ \E score : Done(p, m, of, "ok", score, {m.req})
      /\ UNCHANGED <<tables, orphans, scan, queue, ghosts>>
  BY <1>2 DEF Unlink
<1>4. \E next : next.at \notin {"unlink", "drop"} /\ Turns(p, next)
  BY <1>3, DoneTurns
<1>5. Recorded(m)
  BY <1>1, <1>2 DEF OutboxInv, ReplayIndInv, RemovalsAreDue
<1>6. /\ pend' = [pend EXCEPT ![p] = @ \ ForRequest(@, m.req)]
      /\ nondur' = [nondur EXCEPT ![p] = @ \ ForRequest(@, m.req)]
      /\ queue' \in [Procs -> Seq(Task)]
  BY <1>3 DEF Forget, OutboxInv, ReplayIndInv, MemoryTyped
<1>7. CASE Removed(m)
  BY <1>3, <1>4, <1>5, <1>6, <1>7, JournalGoes DEF Removed, ghosts
<1>8. CASE UNCHANGED spool
  <2>1. MemoryTyped'
    BY <1>3, <1>6 DEF OutboxInv, ReplayIndInv, MemoryTyped, ForRequest
  <2> QED
    BY <1>3, <1>4, <1>8, <2>1, NothingIsTouched
<1> QED
  BY <1>3, <1>7, <1>8

LEMMA DropKeeps ==
  ASSUME ReplayBounds, OutboxInv, NEW p \in Procs, Drop(p)
  PROVE  OutboxInv'
<1>1. job[p].at = "drop" /\ job[p] \in Behind /\ job[p].m \in Calls
  BY JobKinds DEF Drop, OutboxInv, ReplayIndInv, Idle
<1>2. PICK of \in Behind, m \in Calls : of = job[p] /\ m = job[p].m
  BY <1>1
<1>3. UNCHANGED <<tables, orphans, scan, queue, ghosts>>
  BY DEF Drop
<1>4. queue' \in [Procs -> Seq(Task)]
  BY <1>3 DEF OutboxInv, ReplayIndInv, MemoryTyped
<1>5. m \in refused
  BY <1>1, <1>2 DEF OutboxInv, ReplayIndInv, RemovalsAreDue
<1>6. CASE /\ Removed(m) \/ UNCHANGED spool
           /\ Forget(p, m) /\ Done(p, m, of, "refused", 0, {m.req})
  <2>1. \E next : next.at \notin {"unlink", "drop"} /\ Turns(p, next)
    BY <1>6, DoneTurns
  <2>2. /\ pend' = [pend EXCEPT ![p] = @ \ ForRequest(@, m.req)]
        /\ nondur' = [nondur EXCEPT ![p] = @ \ ForRequest(@, m.req)]
    BY <1>6 DEF Forget
  <2>3. CASE Removed(m)
    BY <1>3, <1>4, <1>5, <2>1, <2>2, <2>3, JournalGoes DEF Removed, ghosts
  <2>4. CASE UNCHANGED spool
    <3>1. MemoryTyped'
      BY <1>3, <1>4, <2>2 DEF OutboxInv, ReplayIndInv, MemoryTyped, ForRequest
    <3> QED
      BY <1>3, <2>1, <2>4, <3>1, NothingIsTouched
  <2> QED
    BY <1>6, <2>3, <2>4
<1>7. CASE /\ KeepAfterException(p, m) /\ Done(p, m, of, "failed", 0, {})
           /\ UNCHANGED spool
  BY <1>3, <1>4, <1>7, ExceptionKeeps
<1>8. CASE EndReplay(p, of, {}) /\ UNCHANGED <<spool, pend, nondur, event>>
  <2>1. \E next : next.at \notin {"unlink", "drop"} /\ Turns(p, next)
    BY <1>8, DoneTurns
  <2>2. MemoryTyped'
    BY <1>3, <1>4, <1>8 DEF OutboxInv, ReplayIndInv, MemoryTyped
  <2> QED
    BY <1>3, <1>8, <2>1, <2>2, NothingIsTouched
<1> QED
  BY <1>2, <1>6, <1>7, <1>8 DEF Drop

-----------------------------------------------------------------------------
\* The steps of the game, the reader, the world and a process that dies or starts.
LEMMA AddTask ==
  ASSUME NEW q \in [Procs -> Seq(Task)], NEW p, NEW task \in Task
  PROVE  [q EXCEPT ![p] = Append(@, task)] \in [Procs -> Seq(Task)]
<1>1. \A s \in Seq(Task) : Append(s, task) \in Seq(Task)
  OBVIOUS
<1> QED
  BY <1>1

LEMMA PlayerSubmitKeeps ==
  ASSUME ReplayBounds, OutboxInv, NEW m \in Calls, Submit(m)
  PROVE  OutboxInv'
<1>1. /\ queue \in [Procs -> Seq(Task)]
      /\ queue' = [queue EXCEPT ![Player] = Append(@, Save(m))]
      /\ UNCHANGED <<tables, spool, orphans, pend, nondur, scan, job, ghosts>>
  BY DEF Submit, memory, OutboxInv, ReplayIndInv, MemoryTyped
<1>2. Save(m) \in Task
  BY DEF Save, Task
<1>3. queue' \in [Procs -> Seq(Task)]
  BY <1>1, <1>2, AddTask
<1>4. MemoryTyped'
  BY <1>1, <1>3 DEF OutboxInv, ReplayIndInv, MemoryTyped
<1> QED
  BY <1>1, <1>4, NothingIsTouched

\* Only files that cannot be parsed leave the spool.
LEMMA ScanListKeeps ==
  ASSUME ReplayBounds, OutboxInv, NEW p \in Procs, ScanList(p)
  PROVE  OutboxInv'
<1>1. /\ scan' = [scan EXCEPT ![p] = Journals] /\ spool' = Ungarbled
      /\ UNCHANGED <<tables, orphans, pend, nondur, queue, job, ghosts>>
  BY DEF ScanList
<1>2. /\ rows' = rows /\ receipts' = receipts
      /\ published' = published /\ refused' = refused /\ aside' = aside
      /\ TablesSound' /\ \A a \in Attempts : Grown(rows[a], rows'[a])
  BY <1>1, RowsStay DEF tables, ghosts, OutboxInv, TablesSound, TablesTyped
<1>3. \A r \in Requests : spool'[r] = IF spool[r] = Garbled THEN None ELSE spool[r]
  BY <1>1 DEF Ungarbled
<1>4. Journals \in SUBSET Calls
  BY DEF Journals, OutboxInv, ReplayIndInv, JournalsTyped
<1>5. spool' \in [Requests -> Calls \cup {None, Garbled}]
  BY <1>1 DEF Ungarbled, OutboxInv, ReplayIndInv, JournalsTyped
<1>6. JournalsTyped'
  BY <1>1, <1>2, <1>3, <1>5 DEF ReplayBounds, OutboxInv, ReplayIndInv, JournalsTyped
<1>7. MemoryTyped'
  BY <1>1, <1>4 DEF OutboxInv, ReplayIndInv, MemoryTyped
<1>8. WritersTyped' /\ RemovalsAreDue'
  BY <1>1, <1>2 DEF OutboxInv, ReplayIndInv, WritersTyped, RemovalsAreDue, Recorded
<1>9. ASSUME NEW n \in Calls, spool[n.req] = n
      PROVE  Kept(n)'
  <2>1. n.req \in Requests /\ n # Garbled
    BY CallsAssumption DEF Mutation, ReplayBounds
  <2> QED
    BY <1>3, <1>9, <2>1 DEF Kept
<1> QED
  BY <1>1, <1>2, <1>6, <1>7, <1>8, <1>9, NothingIsDropped DEF Kept

LEMMA ScanUseKeeps ==
  ASSUME ReplayBounds, OutboxInv, NEW p \in Procs, ScanUse(p)
  PROVE  OutboxInv'
<1> DEFINE candidates == RequestsOf(pend[p] \cup scan[p] \cup nondur[p]) \ retrying[p]
<1>1. /\ scan[p] # None /\ scan' = [scan EXCEPT ![p] = None]
      /\ pend' = [pend EXCEPT ![p] = @ \cup scan[p]]
      /\ queue' = queue \/ queue' = [queue EXCEPT ![p] = Append(@, RetryAll(candidates))]
      /\ UNCHANGED <<tables, spool, orphans, nondur, job, ghosts>>
  BY DEF ScanUse, Schedule
<1>2. /\ pend \in [Procs -> SUBSET Calls] /\ nondur \in [Procs -> SUBSET Calls]
      /\ scan \in [Procs -> (SUBSET Calls) \cup {None}] /\ queue \in [Procs -> Seq(Task)]
  BY DEF OutboxInv, ReplayIndInv, MemoryTyped
<1>3. pend[p] \in SUBSET Calls /\ nondur[p] \in SUBSET Calls /\ scan[p] \in SUBSET Calls
  BY <1>1, <1>2
<1>4. \A m \in Calls : m.req \in Requests
  BY CallsAssumption DEF Mutation
<1>5. candidates \in SUBSET Requests
  BY <1>3, <1>4 DEF RequestsOf
<1>6. RetryAll(candidates) \in Task
  BY <1>5 DEF RetryAll, Task
<1> HIDE DEF candidates
<1>7. [queue EXCEPT ![p] = Append(@, RetryAll(candidates))] \in [Procs -> Seq(Task)]
  BY <1>2, <1>6, AddTask
<1>8. [pend EXCEPT ![p] = @ \cup scan[p]] \in [Procs -> SUBSET Calls]
  BY <1>2, <1>3, MemoryMoves
<1>9. [scan EXCEPT ![p] = None] \in [Procs -> (SUBSET Calls) \cup {None}]
  BY <1>2
<1>10. MemoryTyped'
  BY <1>1, <1>2, <1>7, <1>8, <1>9 DEF MemoryTyped
<1> QED
  BY <1>1, <1>10, NothingIsTouched

\* A garbled file is put aside, and so is what it held.
LEMMA WearKeeps ==
  ASSUME ReplayBounds, OutboxInv, Wear
  PROVE  OutboxInv'
<1>1. UNCHANGED <<rows, orphans, pend, nondur, scan, queue, job, published, refused>>
  BY DEF Wear, memory
<1>2. MemoryTyped'
  BY <1>1 DEF OutboxInv, ReplayIndInv, MemoryTyped
<1>3. WritersTyped' /\ RemovalsAreDue'
  BY <1>1 DEF OutboxInv, ReplayIndInv, WritersTyped, RemovalsAreDue, Recorded
<1>4. \A a \in Attempts : Grown(rows[a], rows'[a])
  BY <1>1, RowsStay DEF OutboxInv, TablesSound
<1>5. ASSUME NEW r \in Requests, receipts[r] # None,
             receipts' \in {Expired(receipts, r), Damaged(receipts, r)},
             UNCHANGED <<spool, aside>>
      PROVE  OutboxInv'
  <2>1. TablesSound'
    BY <1>1, <1>5, WearSound DEF OutboxInv
  <2>2. JournalsTyped'
    BY <1>1, <1>5 DEF OutboxInv, ReplayIndInv, JournalsTyped
  <2> QED
    BY <1>1, <1>2, <1>3, <1>4, <1>5, <2>1, <2>2, NothingIsDropped DEF Kept
<1>6. ASSUME NEW r \in Requests, spool[r] \notin {None, Garbled},
             spool' = [spool EXCEPT ![r] = Garbled],
             aside' = aside \cup {spool[r]}, UNCHANGED receipts
      PROVE  OutboxInv'
  <2>1. TablesSound'
    BY <1>1, <1>6 DEF OutboxInv, TablesSound, TablesTyped
  <2>2. /\ spool'[r] = Garbled /\ \A q \in Requests \ {r} : spool'[q] = spool[q]
        /\ spool' \in [Requests -> Calls \cup {None, Garbled}]
    BY <1>6 DEF OutboxInv, ReplayIndInv, JournalsTyped
  <2>3. JournalsTyped'
    BY <1>1, <2>2 DEF ReplayBounds, OutboxInv, ReplayIndInv, JournalsTyped
  <2>4. ASSUME NEW n \in Calls, spool[n.req] = n
        PROVE  Kept(n)'
    <3>1. n.req \in Requests
      BY CallsAssumption DEF Mutation
    <3> QED
      BY <1>6, <2>2, <2>4, <3>1 DEF Kept
  <2> QED
    BY <1>1, <1>2, <1>3, <1>4, <1>6, <2>1, <2>3, <2>4, NothingIsDropped DEF Kept
<1> QED
  BY <1>5, <1>6 DEF Wear

\* Memory is gone, and what a process was about to journal may be left.
LEMMA DieKeeps ==
  ASSUME ReplayBounds, OutboxInv, NEW p \in Procs, Die(p)
  PROVE  OutboxInv'
<1>1. /\ pend' = [pend EXCEPT ![p] = {}] /\ nondur' = [nondur EXCEPT ![p] = {}]
      /\ scan' = [scan EXCEPT ![p] = None] /\ queue' = [queue EXCEPT ![p] = <<>>]
      /\ job' = [job EXCEPT ![p] = Idle]
      /\ orphans \subseteq orphans' /\ orphans' \subseteq orphans \cup BeingSpooled(p)
      /\ UNCHANGED <<tables, spool, published, refused, aside>>
  BY DEF Die, ghosts
<1>2. BeingSpooled(p) \subseteq Calls
  <2>1. CASE job[p] = Idle /\ queue[p] # <<>> /\ Head(queue[p]).do = "save"
    <3>1. queue[p] \in Seq(Task)
      BY DEF OutboxInv, ReplayIndInv, MemoryTyped
    <3>2. Head(queue[p]) \in Task
      BY <2>1, <3>1, HeadTailProperties
    <3>3. Head(queue[p]).m \in Calls
      BY <2>1, <3>2 DEF Task
    <3> QED
      BY <2>1, <3>3 DEF BeingSpooled
  <2>2. CASE job[p].at = "next"
    <3>1. job[p].todo \subseteq Item
      BY <2>2, JobKinds DEF OutboxInv, ReplayIndInv, Idle
    <3>2. \A item \in Item : item.m \in Calls
      BY DEF Item
    <3>3. {item.m : item \in {i \in job[p].todo : i.fresh}} \subseteq Calls
      BY <3>1, <3>2
    <3>4. job[p] # Idle
      BY <2>2 DEF Idle
    <3> QED
      BY <2>2, <3>3, <3>4 DEF BeingSpooled
  <2> QED
    BY <2>1, <2>2 DEF BeingSpooled
<1>3. /\ rows' = rows /\ receipts' = receipts
      /\ TablesSound' /\ TablesTyped' /\ \A a \in Attempts : Grown(rows[a], rows'[a])
  BY <1>1, RowsStay DEF tables, OutboxInv, TablesSound, TablesTyped
<1>4. JournalsTyped'
  BY <1>1, <1>2 DEF OutboxInv, ReplayIndInv, JournalsTyped
<1>5. MemoryTyped'
  <2>1. {} \in SUBSET Calls /\ <<>> \in Seq(Task)
    OBVIOUS
  <2> QED
    BY <1>1, <2>1 DEF OutboxInv, ReplayIndInv, MemoryTyped
<1>6. Turns(p, Idle) /\ Idle.at = "idle"
  BY <1>1 DEF Turns, AJob, Idle
<1>7. WritersTyped' /\ RemovalsAreDue'
  BY <1>1, <1>3, <1>6, WriterTurns
<1> QED
  BY <1>1, <1>3, <1>4, <1>5, <1>7, NothingIsDropped DEF Kept

\* A temporary file becomes the journal, is one already, or is put aside.
LEMMA StartKeeps ==
  ASSUME ReplayBounds, OutboxInv, NEW p \in Procs, Start(p)
  PROVE  OutboxInv'
<1> DEFINE promoted == {m \in orphans : spool[m.req] \in {None, Garbled}}
<1>1. /\ spool' = [r \in Requests |->
                     IF ForRequest(promoted, r) # {} THEN CHOOSE m \in promoted : m.req = r
                     ELSE spool[r]]
      /\ published' = published \cup promoted
      /\ aside' = aside \cup {m \in orphans : spool[m.req] \notin {None, Garbled, m}}
      /\ orphans' = {}
      /\ UNCHANGED <<tables, pend, nondur, scan, queue, job, refused>>
  BY DEF Start, memory
<1>2. orphans \subseteq Calls /\ promoted \subseteq Calls
      /\ spool \in [Requests -> Calls \cup {None, Garbled}]
      /\ \A r \in Requests : spool[r] \in Calls => spool[r].req = r
  BY DEF OutboxInv, ReplayIndInv, JournalsTyped
<1>3. /\ rows' = rows /\ receipts' = receipts
      /\ TablesSound' /\ TablesTyped' /\ \A a \in Attempts : Grown(rows[a], rows'[a])
  BY <1>1, RowsStay DEF tables, OutboxInv, TablesSound, TablesTyped
<1>4. ASSUME NEW m \in promoted
      PROVE  m.req \in Requests /\ spool'[m.req] = m
  <2>1. m.req \in Requests /\ m \in Calls
    BY <1>2, CallsAssumption DEF Mutation
  <2>2. m \in ForRequest(promoted, m.req)
    BY DEF ForRequest
  <2>3. \A n \in promoted : n.req = m.req => n = m
    BY <1>2 DEF ReplayBounds, OwnCalls
  <2>4. (CHOOSE n \in promoted : n.req = m.req) = m
    BY <2>3
  <2> QED
    BY <1>1, <2>1, <2>2, <2>4
<1>5. ASSUME NEW r \in Requests, \A m \in promoted : m.req # r
      PROVE  spool'[r] = spool[r]
  <2>1. ForRequest(promoted, r) = {}
    BY <1>5 DEF ForRequest
  <2> QED
    BY <1>1, <2>1
<1>6. \A r \in Requests : /\ spool'[r] \in Calls \cup {None, Garbled}
                          /\ spool'[r] \in Calls => spool'[r].req = r
  BY <1>2, <1>4, <1>5
<1>7. JournalsTyped'
  <2>1. spool' \in [Requests -> Calls \cup {None, Garbled}]
    BY <1>1, <1>6
  <2> QED
    BY <1>1, <1>2, <1>6, <2>1 DEF OutboxInv, ReplayIndInv, JournalsTyped
<1>8. MemoryTyped'
  BY <1>1 DEF OutboxInv, ReplayIndInv, MemoryTyped
<1>9. WritersTyped' /\ RemovalsAreDue'
  BY <1>1, <1>3 DEF OutboxInv, ReplayIndInv, WritersTyped, RemovalsAreDue, Recorded
<1>10. ASSUME NEW n \in Calls, spool[n.req] = n
       PROVE  Kept(n)'
  <2>1. n.req \in Requests /\ n \notin {None, Garbled}
    BY CallsAssumption DEF Mutation, ReplayBounds
  <2>2. \A m \in promoted : m.req # n.req
    BY <1>10, <2>1
  <2> QED
    BY <1>5, <1>10, <2>1, <2>2 DEF Kept
<1>11. ASSUME NEW n \in orphans
       PROVE  Kept(n)'
  <2>1. CASE n \in promoted
    BY <1>4, <2>1 DEF Kept
  <2>2. CASE spool[n.req] = n
    BY <1>2, <1>10, <2>2
  <2>3. CASE spool[n.req] \notin {None, Garbled, n}
    BY <1>1, <2>3 DEF Kept
  <2> QED
    BY <2>1, <2>2, <2>3
<1>12. \A m \in published' : m \in published \/ Kept(m)'
  BY <1>1, <1>11
<1> QED
  BY <1>1, <1>3, <1>7, <1>8, <1>9, <1>10, <1>11, <1>12, NothingIsDropped

-----------------------------------------------------------------------------
\* Every state has its journals, memory and writers in order, and what was
\* journaled is kept.
THEOREM ReplayInductive ==
  ASSUME ReplayBounds
  PROVE  Spec => []OutboxInv
<1>1. Init => OutboxInv
  <2> SUFFICES ASSUME Init
               PROVE  OutboxInv
    OBVIOUS
  <2>1. TablesSound
    BY DEF Init, OutboxInit, TablesInit, TablesSound, TablesTyped, RowIsOfCall
  <2>2. JournalsTyped
    BY DEF Init, OutboxInit, JournalsTyped, ReplayBounds
  <2>3. MemoryTyped
    <3>1. {} \in SUBSET Calls /\ <<>> \in Seq(Task)
      OBVIOUS
    <3> QED
      BY <3>1 DEF Init, OutboxInit, MemoryTyped
  <2>4. WritersTyped /\ RemovalsAreDue
    BY DEF Init, OutboxInit, WritersTyped, RemovalsAreDue, AJob, Idle
  <2>5. AllAreKept
    BY DEF Init, OutboxInit, AllAreKept
  <2> QED
    BY <2>1, <2>2, <2>3, <2>4, <2>5 DEF OutboxInv, ReplayIndInv
<1>2. OutboxInv /\ [Next]_vars => OutboxInv'
  <2> SUFFICES ASSUME OutboxInv, [Next]_vars
               PROVE  OutboxInv'
    OBVIOUS
  <2>1. CASE UNCHANGED vars
    <3>1. UNCHANGED <<tables, spool, orphans, pend, nondur, scan, queue, job, ghosts>>
      BY <2>1 DEF vars, outboxVars, memory
    <3>2. MemoryTyped'
      BY <3>1 DEF OutboxInv, ReplayIndInv, MemoryTyped
    <3> QED
      BY <3>1, <3>2, NothingIsTouched
  <2>2. CASE \E m \in Calls : Submit(m)
    BY <2>2, PlayerSubmitKeeps
  <2>3. ASSUME NEW p \in Procs, Work(p)
        PROVE  OutboxInv'
    BY <2>3, StartSaveKeeps, StartRetryKeeps, RetryFreshKeeps, RecordSpooledKeeps,
       UnlinkKeeps, DropKeeps DEF Work
  <2>4. ASSUME NEW p \in Procs, ScanList(p) \/ ScanUse(p) \/ Start(p) \/ Die(p)
        PROVE  OutboxInv'
    BY <2>4, ScanListKeeps, ScanUseKeeps, StartKeeps, DieKeeps
  <2>5. CASE Wear
    BY <2>5, WearKeeps
  <2> QED
    BY <2>1, <2>2, <2>3, <2>4, <2>5 DEF Next
<1> QED
  BY <1>1, <1>2, PTL DEF Spec

\* A score that was journaled is recorded, still in its journal, refused by the
\* store, or put aside, whoever replays, unlinks, dies or starts meanwhile: of
\* calls made beforehand none is overtaken without being recorded.
THEOREM JournaledStays ==
  ASSUME ReplayBounds
  PROVE  /\ Spec => []AllAreKept
         /\ Spec => []DurableIsKept
<1>1. OutboxInv => AllAreKept
  BY DEF OutboxInv, ReplayIndInv
<1>2. AllAreKept => DurableIsKept
  BY DEF AllAreKept, DurableIsKept
<1> QED
  BY <1>1, <1>2, ReplayInductive, PTL

-----------------------------------------------------------------------------
(***************************************************************************)
(* The scores of a game.                                                   *)
(***************************************************************************)

\* What every state of a game and its backend satisfies.
GameInv == TablesTyped /\ GameIndInv

\* The tables go from one state to a later one.
TablesGrow ==
  TablesTyped /\ TablesTyped' /\ \A a \in Attempts : Grown(rows[a], rows'[a])

LEMMA PayloadFields ==
  ASSUME GameBounds, NEW m \in Payloads
  PROVE  /\ m \in Mutation /\ ~m.bare /\ m.req \in Requests /\ m.att \in Attempts
         /\ m.rev \in Nat \ {0} /\ m.score \in Nat /\ m # None /\ m # Garbled
BY DEF GameBounds, Payloads, Mutation

LEMMA SameTablesGrow ==
  ASSUME TablesTyped, UNCHANGED tables
  PROVE  TablesGrow /\ rows' = rows /\ receipts' = receipts
<1>1. rows' = rows /\ receipts' = receipts
  BY DEF tables
<1> QED
  BY <1>1, RowsStay DEF TablesGrow, TablesTyped

\* What a row has it keeps.
LEMMA RowKeeps ==
  ASSUME TablesGrow, NEW a \in Attempts, NEW score \in Nat, InRow(a, score)
  PROVE  InRow(a, score)'
<1>1. rows[a] \in Row /\ rows[a] # None /\ rows[a].score >= score
  BY DEF TablesGrow, TablesTyped, InRow
<1>2. rows'[a] # None /\ rows'[a].score >= rows[a].score
  BY <1>1 DEF TablesGrow, Grown
<1>3. rows'[a] \in Row
  BY <1>2 DEF TablesGrow, TablesTyped
<1>4. rows[a].score \in Nat /\ rows'[a].score \in Nat
  BY <1>1, <1>3 DEF Row
<1> QED
  BY <1>1, <1>2, <1>4 DEF InRow

LEMMA PassedKeeps ==
  ASSUME GameBounds, TablesGrow, NEW m \in Payloads
  PROVE  /\ PassedBy(m) => PassedBy(m)'
         /\ \A score : Told(m, score) => Told(m, score)'
<1>1. m.att \in Attempts /\ m.rev \in Nat
  BY PayloadFields
<1>2. ASSUME PassedBy(m)
      PROVE  PassedBy(m)'
  <2>1. rows[m.att] \in Row /\ rows[m.att] # None /\ rows[m.att].rev >= m.rev
    BY <1>1, <1>2 DEF TablesGrow, TablesTyped, PassedBy
  <2>2. rows'[m.att] # None /\ rows'[m.att].rev >= rows[m.att].rev
    BY <1>1, <2>1 DEF TablesGrow, Grown
  <2>3. rows'[m.att] \in Row
    BY <1>1, <2>2 DEF TablesGrow, TablesTyped
  <2>4. rows[m.att].rev \in Nat /\ rows'[m.att].rev \in Nat
    BY <2>1, <2>3 DEF Row
  <2> QED
    BY <1>1, <2>1, <2>2, <2>4 DEF PassedBy
<1>3. ASSUME NEW score, Told(m, score)
      PROVE  Told(m, score)'
  BY <1>1, <1>2, <1>3, RowKeeps DEF Told
<1> QED
  BY <1>2, <1>3

LEMMA ConfirmedKeeps ==
  ASSUME TablesGrow, NEW g, g.att \in Attempts, g.confirmed \in Nat \cup {None}, Confirmed(g)
  PROVE  Confirmed(g)'
BY RowKeeps DEF Confirmed

LEMMA MetKeeps ==
  ASSUME GameBounds, TablesGrow, SentIsOwn, sent \subseteq sent', NEW a \in Attempts,
         NEW score \in Nat, Met(a, score)
  PROVE  Met(a, score)'
<1>1. CASE InRow(a, score)
  BY <1>1, RowKeeps DEF Met
<1>2. ASSUME NEW m \in sent, m.att = a, m.score = score, PassedBy(m)
      PROVE  Met(a, score)'
  <2>1. PassedBy(m)'
    BY <1>2, PassedKeeps DEF SentIsOwn
  <2> QED
    BY <1>2, <2>1 DEF Met
<1> QED
  BY <1>1, <1>2 DEF Met

\* The store answers a mutation of a game: what it accepts it has passed, and
\* the score it tells is in the row.
LEMMA AnswerIsTold ==
  ASSUME GameBounds, TablesTyped, NEW m \in Payloads, m.hint \in {None, m.att},
         receipts[m.req] # None /\ receipts[m.req].of = m => Told(m, receipts[m.req].score),
         NEW reply, reply = Record(rows, receipts, m), Commits(reply)
  PROVE  /\ TablesGrow
         /\ reply.answer \notin Refusals => Told(m, reply.score)'
         /\ \A r \in Requests :
              \/ receipts'[r] = receipts[r]
              \/ /\ r = m.req /\ receipts'[r].of = m
                 /\ receipts'[r].score = reply.score /\ reply.answer \notin Refusals
<1>1. /\ m \in Mutation /\ ~m.bare /\ m.att \in Attempts
      /\ m.rev \in Nat /\ m.score \in Nat /\ Target(m) = m.att
  BY PayloadFields DEF Target
<1>2. TablesGrow /\ rows' = reply.rows
  BY <1>1, RecordTypes, RecordGrows DEF TablesGrow, Commits
<1>3. \A r \in Requests :
        \/ receipts'[r] = receipts[r]
        \/ /\ r = m.req /\ receipts'[r].of = m /\ receipts'[r].score = reply.score
           /\ reply.answer \notin Refusals
  BY <1>1, RecordReceipts
<1>4. ASSUME reply.answer \notin Refusals
      PROVE  Told(m, reply.score)'
  <2>1. CASE Repeated(m, reply)
    <3>1. Told(m, reply.score)
      BY <2>1 DEF Repeated
    <3> QED
      BY <1>2, <3>1, PassedKeeps
  <2>2. CASE Rebuilt(m, reply)
    BY <1>1, <1>2, <2>2 DEF Rebuilt, Told, PassedBy, InRow
  <2>3. CASE Inserted(m, reply)
    <3>1. rows'[m.att] = Made(m)
      BY <1>1, <1>2, <2>3 DEF Inserted, TablesTyped, TablesGrow
    <3>2. Made(m) \in Row
      BY <1>1 DEF Made, Row, Mutation
    <3>3. Made(m) # None
      BY <3>2, ScoreAssumption
    <3> QED
      BY <1>1, <2>3, <3>1, <3>3 DEF Inserted, Made, Told, PassedBy, InRow
  <2>4. CASE Passed(m, reply)
    <3>1. rows[m.att] \in Row /\ rows[m.att] # None
      BY <1>1, <2>4 DEF Passed, TablesTyped
    <3>2. rows[m.att].rev \in Nat /\ rows[m.att].score \in Nat
      BY <3>1 DEF Row
    <3> QED
      BY <1>1, <1>2, <2>4, <3>1, <3>2 DEF Passed, Told, PassedBy, InRow
  <2>5. CASE Raised(m, reply)
    <3>1. reply.rows = RaisedTo(m, m.rev) /\ reply.score = m.score
      BY <1>1, <2>5 DEF Raised, BareHinted
    <3>2. rows[m.att] \in Row /\ rows[m.att] # None
      BY <1>1, <2>5 DEF Raised, TablesTyped
    <3>3. rows'[m.att].rev = m.rev /\ rows'[m.att].score = m.score
      BY <1>1, <1>2, <3>1, <3>2 DEF RaisedTo, TablesTyped, Row
    <3>4. rows'[m.att] # None
      BY <1>1, <1>2, <3>2 DEF TablesGrow, Grown
    <3> QED
      BY <1>1, <3>1, <3>3, <3>4 DEF Told, PassedBy, InRow
  <2>6. ~Refused(m, reply)
    BY <1>4 DEF Refused
  <2> QED
    BY <1>1, <2>1, <2>2, <2>3, <2>4, <2>5, <2>6, RecordCases
<1> QED
  BY <1>2, <1>3, <1>4

-----------------------------------------------------------------------------
\* A step of the backend leaves the game alone: what the game takes for so is
\* so in later tables.
LEMMA GameFitsStill ==
  ASSUME GameBounds, TablesGrow, SentIsOwn, UNCHANGED <<made, sent>>, NEW g \in AGame,
         GameFits(g)
  PROVE  GameFits(g)'
<1>1. Confirmed(g)'
  BY ConfirmedKeeps DEF GameFits, AGame
<1> QED
  BY <1>1 DEF GameFits

LEMMA BackendMoves ==
  ASSUME GameBounds, GameInv, TablesGrow, UNCHANGED gameVars, game # None => Player \in up',
         HeldIsSent', JobIsOfSent', AnswersAreTold', \A m \in published' : Safe(m)',
         \A m \in sent : Safe(m) \/ m \in OnItsWay => Safe(m)' \/ m \in OnItsWay'
  PROVE  GameInv'
<1>1. /\ game' = game /\ slot' = slot /\ made' = made /\ sent' = sent
      /\ SentIsOwn /\ GameIsOwn /\ SettledIsNewest /\ TablesTyped'
  BY DEF gameVars, GameInv, GameIndInv, TablesGrow
<1>2. SentIsOwn'
  BY <1>1 DEF SentIsOwn
<1>3. GameIsOwn'
  <2>1. ASSUME game # None
        PROVE  GameFits(game)'
    <3>1. PICK g \in AGame : g = game
      BY <1>1, <2>1 DEF GameIsOwn
    <3>2. GameFits(g)
      BY <1>1, <2>1, <3>1 DEF GameIsOwn
    <3>3. GameFits(g)'
      BY <1>1, <3>2, GameFitsStill
    <3> QED
      BY <1>1, <3>1, <3>3 DEF GameFits, Confirmed, InRow
  <2>2. ASSUME slot # None
        PROVE  Confirmed(slot)'
    <3>1. PICK g \in ASavePoint : g = slot
      BY <1>1, <2>2 DEF GameIsOwn
    <3>2. Confirmed(g)
      BY <1>1, <2>2, <3>1 DEF GameIsOwn
    <3>3. Confirmed(g)'
      BY <3>2, ConfirmedKeeps DEF ASavePoint
    <3> QED
      BY <1>1, <3>1, <3>3 DEF Confirmed, InRow
  <2> QED
    BY <1>1, <2>1, <2>2 DEF GameIsOwn
<1>4. SettledIsNewest'
  <2> SUFFICES ASSUME game # None, game.settled
               PROVE  SettledIsNewest'
    BY <1>1 DEF SettledIsNewest
  <2>1. PICK a \in Attempts, score \in Nat : a = game.att /\ score = game.score
    BY <1>1 DEF GameIsOwn, AGame
  <2>2. Met(a, score) => Met(a, score)'
    BY <1>1, MetKeeps
  <2> QED
    BY <1>1, <2>1, <2>2 DEF SettledIsNewest, Newest, Met, InRow, PassedBy
<1>5. game # None => LastIsSafe(game)'
  <2> SUFFICES ASSUME game # None, game.last # None
               PROVE  LastIsSafe(game)'
    BY <1>1 DEF LastIsSafe
  <2>1. PICK m \in sent : m = game.last
    BY <1>1 DEF GameIsOwn, GameFits
  <2>2. Safe(m) \/ m \in OnItsWay
    BY <2>1 DEF GameInv, GameIndInv, LastIsSafe
  <2>3. Safe(m)' \/ m \in OnItsWay'
    BY <2>2
  <2> QED
    BY <1>1, <2>1, <2>3 DEF LastIsSafe, Safe, PassedBy
<1> QED
  BY <1>1, <1>2, <1>3, <1>4, <1>5 DEF GameInv, GameIndInv, LastIsSafe

-----------------------------------------------------------------------------
\* A task of the queue stays one.
LEMMA TasksStay ==
  ASSUME GameBounds, TablesGrow, sent \subseteq sent', queue' \in [Procs -> Seq(ATask)]
  PROVE  queue' \in [Procs -> Seq(ATask')]
<1>1. ASSUME NEW point \in ASavePoint, Confirmed(point)
      PROVE  Confirmed(point)'
  BY <1>1, ConfirmedKeeps DEF ASavePoint
<1>2. ATask \subseteq ATask'
  BY <1>1 DEF ATask
<1>3. \A s \in Seq(ATask) : s \in Seq(ATask')
  BY <1>2, SeqMonotonic
<1> QED
  BY <1>3

\* The writer goes on with a mutation m that was sent: to another step, with its
\* journal written or removed, or done with it.
LEMMA WriterMoves ==
  ASSUME GameBounds, GameInv, TablesGrow, UNCHANGED <<gameVars, up, orphans>>,
         NEW m \in sent, NEW next, job' = [job EXCEPT ![Player] = next], JobFits(next)',
         queue' \in [Procs -> Seq(ATask)],
         \A n \in OnItsWay : n = m \/ n \in nondur[Player] \/ n \in SavesQueued',
         published' \in {published, published \cup {m}}, refused \subseteq refused',
         aside \subseteq aside',
         \/ spool' = spool \/ spool' = [spool EXCEPT ![m.req] = None]
         \/ spool' = [spool EXCEPT ![m.req] = m] /\ m \in published',
         \/ pend' = pend \/ pend' = [pend EXCEPT ![Player] = @ \ ForRequest(@, m.req)]
         \/ pend' = [pend EXCEPT ![Player] = @ \cup {m}] /\ m \in published',
         \/ nondur' = nondur \/ nondur' = [nondur EXCEPT ![Player] = @ \ ForRequest(@, m.req)]
         \/ nondur' = [nondur EXCEPT ![Player] = @ \cup {m}],
         AnswersAreTold',
         Safe(m) => Safe(m)', m \in published' => m \in published \/ Safe(m)',
         \/ Safe(m)' \/ m \in nondur'[Player]
         \/ next.at \notin {"idle", "next"} /\ next.m = m
  PROVE  GameInv'
<1>1. /\ sent' = sent /\ orphans' = orphans /\ Player \in Procs
      /\ SentIsOwn /\ HeldIsSent /\ JobIsOfSent /\ GameIsOwn
      /\ \A n \in published : Safe(n)
  BY DEF gameVars, GameInv, GameIndInv, GameBounds
<1>2. /\ m \in Payloads /\ m.req \in Requests
      /\ \A n \in sent : n # m => n \in Payloads /\ n.req \in Requests /\ n.req # m.req
  BY <1>1, PayloadFields DEF SentIsOwn
<1>3. HeldIsSent'
  <2>1. published' \subseteq sent'
    BY <1>1 DEF HeldIsSent
  <2>2. /\ spool' \in [Requests -> published' \cup {None}]
        /\ \A r \in Requests : spool'[r] # None => spool'[r].req = r
    <3>1. /\ spool \in [Requests -> published' \cup {None}]
          /\ \A r \in Requests : spool[r] # None => spool[r].req = r
      BY <1>1 DEF HeldIsSent
    <3>2. CASE spool' = spool
      BY <3>1, <3>2
    <3>3. CASE spool' = [spool EXCEPT ![m.req] = None]
      BY <1>2, <3>1, <3>3
    <3>4. CASE spool' = [spool EXCEPT ![m.req] = m] /\ m \in published'
      BY <1>2, <3>1, <3>4
    <3> QED
      BY <3>2, <3>3, <3>4
  <2>3. pend' \in [Procs -> SUBSET published']
    <3>1. pend \in [Procs -> SUBSET published'] /\ pend[Player] \subseteq published'
      BY <1>1 DEF HeldIsSent
    <3>2. pend[Player] \ ForRequest(pend[Player], m.req) \in SUBSET published'
      BY <3>1
    <3>3. m \in published' => pend[Player] \cup {m} \in SUBSET published'
      BY <3>1
    <3> QED
      BY <3>1, <3>2, <3>3
  <2>4. nondur' \in [Procs -> SUBSET sent']
    <3>1. nondur \in [Procs -> SUBSET sent'] /\ nondur[Player] \subseteq sent'
      BY <1>1 DEF HeldIsSent
    <3>2. nondur[Player] \ ForRequest(nondur[Player], m.req) \in SUBSET sent'
      BY <3>1
    <3>3. nondur[Player] \cup {m} \in SUBSET sent'
      BY <1>1, <3>1
    <3> QED
      BY <3>1, <3>2, <3>3
  <2>5. queue' \in [Procs -> Seq(ATask')]
    BY <1>1, TasksStay
  <2> QED
    BY <1>1, <2>1, <2>2, <2>3, <2>4, <2>5 DEF HeldIsSent
<1>4. JobIsOfSent' /\ job'[Player] = next
  BY <1>1 DEF JobIsOfSent
<1>5. ASSUME NEW n \in sent, Safe(n)
      PROVE  Safe(n)'
  <2>1. CASE n = m
    BY <1>5, <2>1
  <2>2. CASE n # m
    <3>1. spool'[n.req] = spool[n.req]
      BY <1>1, <1>2, <2>2 DEF HeldIsSent
    <3>2. PassedBy(n) => PassedBy(n)'
      BY <1>2, <2>2, PassedKeeps
    <3> QED
      BY <1>1, <1>5, <3>1, <3>2 DEF Safe
  <2> QED
    BY <2>1, <2>2
<1>6. ASSUME NEW n \in OnItsWay, n \in sent
      PROVE  Safe(n)' \/ n \in OnItsWay'
  <2>1. CASE n = m
    BY <1>4, <2>1 DEF OnItsWay, AtWriter
  <2>2. CASE n # m /\ n \in nondur[Player]
    <3>1. n \in nondur'[Player]
      BY <1>1, <1>2, <2>2 DEF HeldIsSent, ForRequest
    <3> QED
      BY <3>1 DEF OnItsWay
  <2>3. CASE n \in SavesQueued'
    BY <2>3 DEF OnItsWay
  <2> QED
    BY <1>6, <2>1, <2>2, <2>3
<1>7. \A n \in published' : Safe(n)'
  BY <1>1, <1>5 DEF HeldIsSent
<1>8. game # None => Player \in up'
  BY <1>1 DEF GameIsOwn
<1> QED
  BY <1>3, <1>4, <1>5, <1>6, <1>7, <1>8, BackendMoves

-----------------------------------------------------------------------------
\* What a step says of a mutation in a receipt, an event or an answer.
ReceiptsTell ==
  \A r \in Requests :
    \/ receipts'[r] = receipts[r]
    \/ \E n \in sent, score \in Nat :
         receipts'[r].of = n /\ receipts'[r].score = score /\ n.req = r /\ Told(n, score)'
EventTells(m) ==
  \/ event' = event
  \/ \E state, score : /\ event' = [event EXCEPT ![m.req] = [state |-> state, score |-> score]]
                       /\ state = "committed" => Told(m, score)'
AnswerTells(m) ==
  \/ answer' \in {answer, None}
  \/ \E result, score :
       /\ result \in Results
       /\ answer' = [m |-> m, result |-> result, score |-> score]
       /\ result = "ok" => Told(m, score)'

LEMMA EmitTells ==
  ASSUME NEW m, NEW state, NEW score, Emit(Player, m, state, score),
         state = "committed" => Told(m, score)'
  PROVE  EventTells(m)
BY DEF Emit, EventTells

LEMMA AnswersStay ==
  ASSUME GameBounds, GameInv, TablesGrow, UNCHANGED gameVars, NEW m \in sent,
         ReceiptsTell, EventTells(m), AnswerTells(m)
  PROVE  AnswersAreTold'
<1>1. /\ sent' = sent /\ SentIsOwn /\ AnswersAreTold
  BY DEF gameVars, GameInv, GameIndInv
<1>2. m \in Payloads /\ m.req \in Requests /\ \A n \in sent : n \in Payloads
  BY <1>1, PayloadFields DEF SentIsOwn
<1>3. \A n \in sent : \A score : Told(n, score) => Told(n, score)'
  BY <1>2, PassedKeeps
<1>4. ASSUME NEW r \in Requests, receipts'[r] # None
      PROVE  /\ receipts'[r].of \in sent' /\ receipts'[r].of.req = r
             /\ Told(receipts[r].of, receipts[r].score)'
  <2>1. CASE receipts'[r] = receipts[r]
    <3>1. PICK n \in sent, score \in Nat :
            receipts[r].of = n /\ n.req = r /\ receipts[r].score = score /\ Told(n, score)
      BY <1>1, <1>4, <2>1 DEF AnswersAreTold, Told
    <3>2. Told(n, score)'
      BY <1>3, <3>1
    <3> QED
      BY <1>1, <2>1, <3>1, <3>2 DEF Told, PassedBy, InRow
  <2>2. CASE \E n \in sent, score \in Nat :
               receipts'[r].of = n /\ receipts'[r].score = score /\ n.req = r /\ Told(n, score)'
    BY <1>1, <2>2 DEF Told, PassedBy, InRow
  <2> QED
    BY <2>1, <2>2 DEF ReceiptsTell
<1>5. DOMAIN event' = Requests
  BY <1>1 DEF AnswersAreTold, EventTells
<1>6. ASSUME NEW r \in Requests, event'[r] # None, event'[r].state = "committed"
      PROVE  \E n \in sent' : n.req = r /\ Told(n, event[r].score)'
  <2>1. CASE event'[r] = event[r]
    <3>1. PICK n \in sent : n.req = r /\ Told(n, event[r].score)
      BY <1>1, <1>6, <2>1 DEF AnswersAreTold
    <3>2. PICK score : score = event[r].score
      OBVIOUS
    <3>3. Told(n, score)'
      BY <1>3, <3>1, <3>2
    <3> QED
      BY <1>1, <2>1, <3>1, <3>2, <3>3 DEF Told, PassedBy, InRow
  <2>2. CASE event'[r] # event[r]
    <3>1. PICK state, score :
            /\ event' = [event EXCEPT ![m.req] = [state |-> state, score |-> score]]
            /\ state = "committed" => Told(m, score)'
      BY <2>2 DEF EventTells
    <3>2. r = m.req /\ event'[r] = [state |-> state, score |-> score]
      BY <1>1, <1>2, <2>2, <3>1 DEF AnswersAreTold
    <3>3. Told(m, score)'
      BY <1>6, <3>1, <3>2
    <3> QED
      BY <1>1, <3>2, <3>3 DEF Told, PassedBy, InRow
  <2> QED
    BY <2>1, <2>2
<1>7. ASSUME answer' # None
      PROVE  /\ answer'.m \in sent' /\ answer'.result \in Results
             /\ answer'.result = "ok" => Told(answer.m, answer.score)'
  <2>1. CASE answer' = answer
    <3>1. PICK n \in sent : n = answer.m
      BY <1>1, <1>7, <2>1 DEF AnswersAreTold
    <3>2. ASSUME answer.result = "ok"
          PROVE  Told(n, answer.score)'
      <4>1. PICK score : score = answer.score
        OBVIOUS
      <4>2. Told(n, score)'
        BY <1>1, <1>3, <1>7, <2>1, <3>1, <3>2, <4>1 DEF AnswersAreTold
      <4> QED
        BY <2>1, <4>1, <4>2 DEF Told, PassedBy, InRow
    <3>3. answer.result \in Results
      BY <1>1, <1>7, <2>1 DEF AnswersAreTold
    <3> QED
      BY <1>1, <2>1, <3>1, <3>2, <3>3 DEF Told, PassedBy, InRow
  <2>2. CASE answer' # answer
    <3>1. PICK result, score :
            /\ result \in Results
            /\ answer' = [m |-> m, result |-> result, score |-> score]
            /\ result = "ok" => Told(m, score)'
      BY <1>7, <2>2 DEF AnswerTells
    <3> QED
      BY <1>1, <3>1 DEF Told, PassedBy, InRow
  <2> QED
    BY <2>1, <2>2
<1> QED
  BY <1>4, <1>5, <1>6, <1>7 DEF AnswersAreTold

\* When the writer is done with a mutation, it is idle or goes on with the rest
\* of a replay.
LEMMA DoneFits ==
  ASSUME NEW of, TodoIsSent(of.todo)', NEW m, NEW result, NEW score,
         NEW reqs, Done(Player, m, of, result, score, reqs) \/ EndReplay(Player, of, reqs)
  PROVE  /\ \E next : /\ next.at \in {"idle", "next"} /\ JobFits(next)'
                      /\ job' = [job EXCEPT ![Player] = next]
         /\ \/ answer' = answer
            \/ answer' = [m |-> m, result |-> result, score |-> score]
<1>1. CASE job' = [job EXCEPT ![Player] = Idle]
  <2>1. Idle.at = "idle" /\ JobFits(Idle)'
    BY DEF Idle, JobFits
  <2> QED
    BY <1>1, <2>1 DEF Done, EndReplay
<1>2. CASE job' = [job EXCEPT ![Player] = [at |-> "next", replay |-> of.replay,
                                           todo |-> of.todo]]
  <2> DEFINE next == [at |-> "next", replay |-> of.replay, todo |-> of.todo]
  <2>1. next.at = "next" /\ JobFits(next)'
    BY DEF JobFits, TodoIsSent
  <2> HIDE DEF next
  <2> QED
    BY <1>2, <2>1 DEF Done, EndReplay, next
<1> QED
  BY <1>1, <1>2 DEF Done, EndReplay

-----------------------------------------------------------------------------
\* The writer is at a mutation, with this behind it.
InHand(m, of) ==
  /\ m \in sent /\ TodoIsSent(of.todo)
  /\ queue' \in [Procs -> Seq(ATask)]
  /\ \A n \in OnItsWay : n = m \/ n \in nondur[Player] \/ n \in SavesQueued'
  /\ UNCHANGED <<gameVars, up, orphans>>

LEMMA HandFacts ==
  ASSUME GameBounds, GameInv, NEW m, NEW of, InHand(m, of)
  PROVE  /\ m \in Payloads /\ m.req \in Requests /\ m # None /\ m # Garbled
         /\ Player \in Procs /\ TablesTyped /\ HeldIsSent /\ JobIsOfSent
         /\ spool[m.req] \in {None, m}
         /\ spool[m.req] = m => m \in published
         /\ m \in published => Safe(m)
         /\ sent' = sent
<1>1. SentIsOwn /\ HeldIsSent /\ m \in sent
  BY DEF GameInv, GameIndInv, InHand
<1>2. m \in Payloads /\ m.req \in Requests /\ m # None /\ m # Garbled
  BY <1>1, PayloadFields DEF SentIsOwn
<1>3. spool[m.req] \in {None, m} /\ (spool[m.req] = m => m \in published)
  <2>1. spool[m.req] \in published \cup {None} /\ published \subseteq sent
    BY <1>1, <1>2 DEF HeldIsSent
  <2>2. spool[m.req] # None => spool[m.req].req = m.req
    BY <1>1, <1>2 DEF HeldIsSent
  <2> QED
    BY <1>1, <1>2, <2>1, <2>2 DEF SentIsOwn
<1> QED
  BY <1>1, <1>2, <1>3 DEF GameInv, GameIndInv, GameBounds, InHand, gameVars

\* It goes into the spool, where no other mutation of its request can be, or
\* the spool fails.
LEMMA PublishMoves ==
  ASSUME GameBounds, GameInv, NEW m, NEW of, InHand(m, of), Publish(Player, m, of),
         UNCHANGED tables
  PROVE  GameInv'
<1> DEFINE next == At("record", m, TRUE, of)
<1>1. /\ m \in sent /\ m.req \in Requests /\ HeldIsSent /\ sent' = sent
      /\ TablesGrow /\ receipts' = receipts
  BY HandFacts, SameTablesGrow DEF InHand
<1>2. /\ spool' = [spool EXCEPT ![m.req] = m] /\ published' = published \cup {m}
      /\ pend' = [pend EXCEPT ![Player] = @ \cup {m}]
      /\ nondur' = [nondur EXCEPT ![Player] = @ \ ForRequest(@, m.req)]
      /\ job' = [job EXCEPT ![Player] = next]
      /\ UNCHANGED <<refused, aside, event, answer>>
  BY DEF Publish, MarkSpooled
<1>3. JobFits(next)'
  BY <1>1, <1>2 DEF JobFits, At, TodoIsSent, InHand
<1>4. spool'[m.req] = m
  BY <1>1, <1>2 DEF HeldIsSent
<1>5. Safe(m)'
  BY <1>4 DEF Safe
<1>6. AnswersAreTold'
  BY <1>1, <1>2, AnswersStay DEF InHand, ReceiptsTell, EventTells, AnswerTells
<1> HIDE DEF next
<1> QED
  BY <1>1, <1>2, <1>3, <1>5, <1>6, WriterMoves DEF InHand

LEMMA NotSpooledMoves ==
  ASSUME GameBounds, GameInv, NEW m, NEW of, InHand(m, of), NotSpooled(Player, m, of),
         UNCHANGED tables
  PROVE  GameInv'
<1> DEFINE next == At("record", m, FALSE, of)
<1>1. /\ m \in sent /\ sent' = sent /\ TablesGrow /\ rows' = rows /\ receipts' = receipts
  BY HandFacts, SameTablesGrow DEF InHand
<1>2. /\ job' = [job EXCEPT ![Player] = next]
      /\ UNCHANGED <<spool, pend, nondur, published, refused, aside, event, answer>>
  BY DEF NotSpooled, ghosts
<1>3. /\ JobFits(next)' /\ next.at = "record" /\ next.m = m
  BY <1>1, <1>2 DEF JobFits, At, TodoIsSent, InHand
<1>4. Safe(m) => Safe(m)'
  BY <1>1, <1>2 DEF Safe, PassedBy, InHand
<1>5. AnswersAreTold'
  BY <1>1, <1>2, AnswersStay DEF InHand, ReceiptsTell, EventTells, AnswerTells
<1> HIDE DEF next
<1> QED
  BY <1>1, <1>2, <1>3, <1>4, <1>5, WriterMoves DEF InHand

LEMMA SpoolForMoves ==
  ASSUME GameBounds, GameInv, NEW m, NEW of, InHand(m, of), SpoolFor(Player, m, of),
         UNCHANGED tables
  PROVE  GameInv'
<1>1. spool[m.req] \in {None, m} /\ None # Garbled /\ m # Garbled
  BY HandFacts DEF GameBounds
<1>2. Publish(Player, m, of) \/ NotSpooled(Player, m, of)
  BY <1>1 DEF SpoolFor
<1> QED
  BY <1>2, PublishMoves, NotSpooledMoves

\* A failure keeps it in memory, or knows it in the spool.
LEMMA FailedMoves ==
  ASSUME GameBounds, GameInv, NEW m, NEW of, InHand(m, of),
         \/ KeepAfterException(Player, m)
         \/ /\ nondur' = [nondur EXCEPT ![Player] = @ \cup {m}]
            /\ Emit(Player, m, "recovery", 0) /\ UNCHANGED pend,
         Done(Player, m, of, "failed", 0, {}), UNCHANGED <<tables, spool, ghosts>>
  PROVE  GameInv'
<1>1. /\ m \in sent /\ sent' = sent /\ m.req \in Requests /\ Player \in Procs /\ HeldIsSent
      /\ spool[m.req] = m => m \in published
      /\ m \in published => Safe(m)
      /\ TablesGrow /\ rows' = rows /\ receipts' = receipts
      /\ UNCHANGED <<published, refused, aside, orphans, spool>>
  BY HandFacts, SameTablesGrow DEF InHand, ghosts
<1>2. \/ /\ pend' = [pend EXCEPT ![Player] = @ \cup {m}] /\ m \in published'
         /\ nondur' = nondur
      \/ nondur' = [nondur EXCEPT ![Player] = @ \cup {m}] /\ pend' = pend
  BY <1>1 DEF KeepAfterException
<1>3. EventTells(m)
  BY EmitTells DEF KeepAfterException
<1>4. PICK next : /\ next.at \in {"idle", "next"} /\ JobFits(next)'
                  /\ job' = [job EXCEPT ![Player] = next]
  <2>1. TodoIsSent(of.todo)'
    BY <1>1 DEF InHand, TodoIsSent
  <2> QED
    BY <2>1, DoneFits
<1>5. AnswersAreTold'
  <2>1. TodoIsSent(of.todo)'
    BY <1>1 DEF InHand, TodoIsSent
  <2>2. AnswerTells(m)
    BY <2>1, DoneFits DEF AnswerTells, Results
  <2> QED
    BY <1>1, <1>3, <2>2, AnswersStay DEF InHand, ReceiptsTell
<1>6. Safe(m) => Safe(m)'
  BY <1>1 DEF Safe, PassedBy
<1>7. Safe(m)' \/ m \in nondur'[Player]
  BY <1>1, <1>2, <1>6 DEF HeldIsSent
<1> QED
  BY <1>1, <1>2, <1>4, <1>5, <1>6, <1>7, WriterMoves DEF InHand

\* The database cannot be written now, or is not usable.
LEMMA BusyMoves ==
  ASSUME GameBounds, GameInv, NEW m, NEW of, InHand(m, of), m \in published,
         NEW rest \in {of, Stopped(of)}, Done(Player, m, rest, "pending", 0, {}),
         EventTells(m), UNCHANGED <<tables, nondur, published, refused>>,
         \/ UNCHANGED <<spool, pend, aside>>
         \/ /\ spool' = [spool EXCEPT ![m.req] = None] /\ aside' = aside \cup {m}
            /\ pend' = [pend EXCEPT ![Player] = @ \ ForRequest(@, m.req)],
         TodoIsSent(rest.todo)
  PROVE  GameInv'
<1>1. /\ m \in sent /\ sent' = sent /\ Safe(m)
      /\ TablesGrow /\ rows' = rows /\ receipts' = receipts
      /\ UNCHANGED <<published, refused, orphans>>
  BY HandFacts, SameTablesGrow DEF InHand
<1>2. TodoIsSent(rest.todo)'
  BY <1>1 DEF TodoIsSent
<1>3. PICK next : /\ next.at \in {"idle", "next"} /\ JobFits(next)'
                  /\ job' = [job EXCEPT ![Player] = next]
  BY <1>2, DoneFits
<1>4. AnswerTells(m)
  BY <1>2, DoneFits DEF AnswerTells, Results
<1>5. AnswersAreTold'
  BY <1>1, <1>4, AnswersStay DEF InHand, ReceiptsTell
<1>6. Safe(m)'
  BY <1>1 DEF Safe, PassedBy
<1> QED
  BY <1>1, <1>3, <1>5, <1>6, WriterMoves DEF InHand

\* The store answers: it accepts the mutation, which it has passed then, or
\* refuses it.
LEMMA AnsweredMoves ==
  ASSUME GameBounds, GameInv, NEW m, NEW of, InHand(m, of), NEW durable \in BOOLEAN,
         durable => m \in published, Answered(Player, m, durable, of)
  PROVE  GameInv'
<1>1. PICK reply : reply = Record(rows, receipts, m)
  OBVIOUS
<1>2. PICK ok \in BOOLEAN : ok <=> reply.answer \notin Refusals
  OBVIOUS
<1>3. PICK word \in {"unlink", "drop"} : word = IF ok THEN "unlink" ELSE "drop"
  OBVIOUS
<1> DEFINE next == [At(word, m, durable, of) EXCEPT !.score = reply.score]
<1>4. /\ Commits(reply) /\ refused' = IF ok THEN refused ELSE refused \cup {m}
      /\ job' = [job EXCEPT ![Player] = next]
      /\ UNCHANGED <<spool, pend, nondur, event, answer, published, aside>>
  BY <1>1, <1>2, <1>3 DEF Answered
<1>5. /\ m \in Payloads /\ m \in sent /\ sent' = sent /\ m.req \in Requests /\ TablesTyped
      /\ m.hint \in {None, m.att} /\ SentIsOwn /\ AnswersAreTold
  BY HandFacts DEF InHand, GameInv, GameIndInv, SentIsOwn
<1>6. receipts[m.req] # None /\ receipts[m.req].of = m => Told(m, receipts[m.req].score)
  BY <1>5 DEF AnswersAreTold
<1>7. /\ TablesGrow /\ (ok => Told(m, reply.score)')
      /\ \A r \in Requests :
           \/ receipts'[r] = receipts[r]
           \/ r = m.req /\ receipts'[r].of = m /\ receipts'[r].score = reply.score /\ ok
  BY <1>1, <1>2, <1>4, <1>5, <1>6, AnswerIsTold
<1>8. ReceiptsTell
  BY <1>5, <1>7 DEF ReceiptsTell, Told
<1>9. AnswersAreTold'
  BY <1>4, <1>5, <1>7, <1>8, AnswersStay DEF InHand, EventTells, AnswerTells
<1>10. /\ next.at = word /\ next.m = m /\ next.durable = durable /\ next.todo = of.todo
       /\ next.score = reply.score
  BY DEF At
<1> HIDE DEF next
<1>11. JobFits(next)'
  <2>1. next.at = "unlink" => Told(next.m, next.score)'
    BY <1>3, <1>7, <1>10 DEF Told, PassedBy, InRow
  <2>2. TodoIsSent(next.todo)'
    BY <1>4, <1>5, <1>10 DEF TodoIsSent, InHand
  <2>3. next.at = "drop" => next.m \in refused'
    BY <1>3, <1>4, <1>10
  <2> QED
    BY <1>4, <1>5, <1>10, <2>1, <2>2, <2>3 DEF JobFits
<1>12. Safe(m) => Safe(m)'
  BY <1>4, <1>5, <1>7, PassedKeeps DEF Safe, InHand
<1> QED
  BY <1>4, <1>5, <1>7, <1>9, <1>10, <1>11, <1>12, WriterMoves DEF InHand

LEMMA ApplyMoves ==
  ASSUME GameBounds, GameInv, NEW m, NEW of, InHand(m, of), NEW durable \in BOOLEAN,
         durable => m \in published, Apply(Player, m, durable, of)
  PROVE  GameInv'
<1>1. CASE Answered(Player, m, durable, of)
  BY <1>1, AnsweredMoves
<1>2. TodoIsSent(of.todo) /\ TodoIsSent(Stopped(of).todo)
  BY DEF InHand, TodoIsSent, Stopped
<1>3. CASE KeepInMemory(Player, m, of) /\ UNCHANGED tables
  BY <1>3, FailedMoves DEF KeepInMemory
<1>4. CASE durable /\ Busy(Player, m, durable, of) /\ UNCHANGED tables
  <2>1. /\ Done(Player, m, Stopped(of), "pending", 0, {})
        /\ UNCHANGED <<spool, pend, nondur, published, refused, aside>>
    BY <1>4 DEF Busy, ghosts
  <2>2. EventTells(m)
    BY <1>4, EmitTells DEF Busy
  <2> QED
    BY <1>2, <1>4, <2>1, <2>2, BusyMoves
<1>5. CASE durable /\ Unusable(Player, m, durable, of) /\ UNCHANGED tables
  <2>1. spool[m.req] \in {None, m} /\ m # Garbled
    BY HandFacts
  <2>2. Done(Player, m, of, "pending", 0, {}) /\ UNCHANGED <<nondur, published, refused>>
    BY <1>5 DEF Unusable
  <2>3. EventTells(m)
    BY <1>5, EmitTells DEF Unusable
  <2>4. \/ UNCHANGED <<spool, pend, aside>>
        \/ /\ spool' = [spool EXCEPT ![m.req] = None] /\ aside' = aside \cup {m}
           /\ pend' = [pend EXCEPT ![Player] = @ \ ForRequest(@, m.req)]
    BY <1>5, <2>1 DEF Unusable
  <2> QED
    BY <1>2, <1>5, <2>2, <2>3, <2>4, BusyMoves
<1> QED
  BY <1>1, <1>3, <1>4, <1>5 DEF Apply, Busy, Unusable

-----------------------------------------------------------------------------
\* The steps of the writer.
LEMMA StartSaveMoves ==
  ASSUME GameBounds, GameInv, UNCHANGED gameVars, StartSave(Player)
  PROVE  GameInv'
<1> DEFINE first == Head(queue[Player])
<1>1. /\ job[Player] = Idle /\ queue[Player] # <<>> /\ first.do = "save"
      /\ queue' = [queue EXCEPT ![Player] = Tail(@)]
      /\ UNCHANGED <<tables, orphans, up, scan>>
      /\ queue \in [Procs -> Seq(ATask)] /\ Player \in Procs /\ queue[Player] \in Seq(ATask)
  BY DEF StartSave, GameInv, GameIndInv, HeldIsSent, GameBounds
<1>2. /\ first \in ATask /\ Tail(queue[Player]) \in Seq(ATask)
      /\ ToSet(queue[Player]) = {first} \cup ToSet(Tail(queue[Player]))
  BY <1>1, TailSet
<1>3. PICK m \in sent : m = first.m
  BY <1>1, <1>2 DEF ATask
<1>4. queue' \in [Procs -> Seq(ATask)] /\ queue'[Player] = Tail(queue[Player])
  BY <1>1, <1>2
<1>5. PICK of : of = Submission
  OBVIOUS
<1>6. InHand(m, of)
  <2>1. TodoIsSent(of.todo)
    BY <1>5 DEF Submission, TodoIsSent
  <2>2. AtWriter = {}
    BY <1>1 DEF AtWriter, Idle
  <2>3. \A n \in SavesQueued : n = m \/ n \in SavesQueued'
    BY <1>2, <1>3, <1>4 DEF SavesQueued
  <2> QED
    BY <1>1, <1>4, <2>1, <2>2, <2>3 DEF InHand, OnItsWay
<1>7. CASE SpoolFor(Player, m, of)
  BY <1>1, <1>6, <1>7, SpoolForMoves
<1>8. CASE /\ KeepAfterException(Player, m) /\ Done(Player, m, of, "failed", 0, {})
           /\ UNCHANGED <<spool, ghosts>>
  BY <1>1, <1>6, <1>8, FailedMoves
<1> QED
  BY <1>3, <1>5, <1>7, <1>8 DEF StartSave

\* What is left of a replay beside one item of it.
LEMMA ItemInHand ==
  ASSUME GameBounds, GameInv, job[Player].at = "next", NEW one, one \in job[Player].todo,
         UNCHANGED <<gameVars, orphans, up, queue>>, NEW of, of = Rest(Player, one)
  PROVE  InHand(one.m, of) /\ (~one.fresh => one.m \in published)
<1>1. TodoIsSent(job[Player].todo) /\ queue \in [Procs -> Seq(ATask)]
  BY DEF GameInv, GameIndInv, JobIsOfSent, JobFits, HeldIsSent
<1>2. of.todo = job[Player].todo \ {one}
  BY DEF Rest
<1>3. one.m \in sent /\ (~one.fresh => one.m \in published)
  BY <1>1 DEF TodoIsSent
<1>4. TodoIsSent(of.todo)
  BY <1>1, <1>2 DEF TodoIsSent
<1> QED
  BY <1>1, <1>3, <1>4 DEF InHand, OnItsWay, AtWriter, SavesQueued

LEMMA RetryFreshMoves ==
  ASSUME GameBounds, GameInv, UNCHANGED gameVars, RetryFresh(Player)
  PROVE  GameInv'
<1>1. job[Player].at = "next" /\ UNCHANGED <<tables, orphans, up, scan, queue>>
  BY DEF RetryFresh
<1>2. PICK item \in job[Player].todo : SpoolFor(Player, item.m, Rest(Player, item))
  BY DEF RetryFresh
<1>3. PICK of : of = Rest(Player, item)
  OBVIOUS
<1>4. InHand(item.m, of)
  BY <1>1, <1>3, ItemInHand
<1> QED
  BY <1>1, <1>2, <1>3, <1>4, SpoolForMoves

\* What the writer is at, when it is at a mutation.
LEMMA JobInHand ==
  ASSUME GameBounds, GameInv, job[Player].at \in {"record", "unlink", "drop"},
         UNCHANGED <<gameVars, orphans, up, queue>>, NEW now, now = job[Player]
  PROVE  /\ InHand(now.m, now) /\ JobFits(now) /\ now.durable \in BOOLEAN
         /\ now.durable => now.m \in published
<1>1. JobFits(now) /\ queue \in [Procs -> Seq(ATask)]
  BY DEF GameInv, GameIndInv, JobIsOfSent, HeldIsSent
<1> QED
  BY <1>1 DEF InHand, JobFits, OnItsWay, AtWriter, SavesQueued

LEMMA RecordSpooledMoves ==
  ASSUME GameBounds, GameInv, UNCHANGED gameVars, RecordSpooled(Player)
  PROVE  GameInv'
<1>1. UNCHANGED <<orphans, up, scan, queue>>
  BY DEF RecordSpooled
<1>2. CASE job[Player].at = "record" /\ Apply(Player, job[Player].m, job[Player].durable, job[Player])
  <2>1. PICK now : now = job[Player]
    OBVIOUS
  <2>2. /\ InHand(now.m, now) /\ now.durable \in BOOLEAN
        /\ now.durable => now.m \in published
    BY <1>1, <1>2, <2>1, JobInHand
  <2> QED
    BY <1>2, <2>1, <2>2, ApplyMoves
<1>3. ASSUME job[Player].at = "next", NEW item \in job[Player].todo, ~item.fresh,
             Apply(Player, item.m, TRUE, Rest(Player, item))
      PROVE  GameInv'
  <2>1. PICK of : of = Rest(Player, item)
    OBVIOUS
  <2>2. InHand(item.m, of) /\ item.m \in published
    BY <1>1, <1>3, <2>1, ItemInHand
  <2> QED
    BY <1>3, <2>1, <2>2, ApplyMoves
<1> QED
  BY <1>2, <1>3 DEF RecordSpooled

\* What Unlink and Drop remove is passed by the table, or refused.
LEMMA EndOfMutationMoves ==
  ASSUME GameBounds, GameInv, NEW m, NEW of, InHand(m, of),
         PassedBy(m) \/ m \in refused, NEW state, NEW result \in Results, NEW score,
         state = "committed" \/ result = "ok" => Told(m, score),
         NEW reqs, Done(Player, m, of, result, score, reqs), Emit(Player, m, state, score),
         Forget(Player, m), Removed(m) \/ UNCHANGED spool, UNCHANGED <<tables, ghosts>>
  PROVE  GameInv'
<1>1. /\ m \in sent /\ sent' = sent /\ m \in Payloads
      /\ TablesGrow /\ rows' = rows /\ receipts' = receipts
      /\ UNCHANGED <<published, refused, aside, orphans>>
  BY HandFacts, SameTablesGrow DEF InHand, ghosts
<1>2. TodoIsSent(of.todo)'
  BY <1>1 DEF InHand, TodoIsSent
<1>3. PICK next : /\ next.at \in {"idle", "next"} /\ JobFits(next)'
                  /\ job' = [job EXCEPT ![Player] = next]
  BY <1>2, DoneFits
<1>4. Told(m, score) => Told(m, score)'
  BY <1>1, PassedKeeps
<1>5. AnswerTells(m) /\ EventTells(m)
  BY <1>2, <1>4, DoneFits, EmitTells DEF AnswerTells
<1>6. AnswersAreTold'
  BY <1>1, <1>5, AnswersStay DEF InHand, ReceiptsTell
<1>7. Safe(m)'
  BY <1>1 DEF Safe, PassedBy
<1> QED
  BY <1>1, <1>3, <1>6, <1>7, WriterMoves DEF InHand, Forget, Removed

LEMMA UnlinkMoves ==
  ASSUME GameBounds, GameInv, UNCHANGED gameVars, Unlink(Player)
  PROVE  GameInv'
<1>1. PICK now : now = job[Player]
  OBVIOUS
<1>2. now.at = "unlink" /\ UNCHANGED <<tables, orphans, up, scan, queue, ghosts>>
  BY <1>1 DEF Unlink
<1>3. InHand(now.m, now) /\ Told(now.m, now.score)
  BY <1>1, <1>2, JobInHand DEF JobFits
<1>4. /\ Removed(now.m) \/ UNCHANGED spool
      /\ Forget(Player, now.m) /\ Emit(Player, now.m, "committed", now.score)
      /\ Done(Player, now.m, now, "ok", now.score, {now.m.req})
  BY <1>1 DEF Unlink
<1> QED
  BY <1>2, <1>3, <1>4, EndOfMutationMoves DEF Told, Results

LEMMA DropMoves ==
  ASSUME GameBounds, GameInv, UNCHANGED gameVars, Drop(Player)
  PROVE  GameInv'
<1>1. PICK now : now = job[Player]
  OBVIOUS
<1>2. now.at = "drop" /\ UNCHANGED <<tables, orphans, up, scan, queue, ghosts>>
  BY <1>1 DEF Drop
<1>3. InHand(now.m, now) /\ now.m \in refused
  BY <1>1, <1>2, JobInHand DEF JobFits
<1>4. CASE /\ Removed(now.m) \/ UNCHANGED spool
           /\ Forget(Player, now.m) /\ Emit(Player, now.m, "refused", 0)
           /\ Done(Player, now.m, now, "refused", 0, {now.m.req})
  BY <1>2, <1>3, <1>4, EndOfMutationMoves DEF Results
<1>5. CASE /\ KeepAfterException(Player, now.m)
           /\ Done(Player, now.m, now, "failed", 0, {}) /\ UNCHANGED spool
  BY <1>2, <1>3, <1>5, FailedMoves
<1>6. CASE EndReplay(Player, now, {}) /\ UNCHANGED <<spool, pend, nondur, event>>
  <2>1. /\ now.m \in sent /\ sent' = sent /\ TodoIsSent(now.todo)
        /\ TablesGrow /\ rows' = rows /\ receipts' = receipts
        /\ UNCHANGED <<published, refused, aside, orphans>>
    BY <1>2, <1>3, HandFacts, SameTablesGrow DEF InHand, ghosts
  <2>2. TodoIsSent(now.todo)'
    BY <2>1 DEF TodoIsSent
  <2>3. PICK next : /\ next.at \in {"idle", "next"} /\ JobFits(next)'
                    /\ job' = [job EXCEPT ![Player] = next]
    BY <1>6, <2>2, DoneFits
  <2>4. answer' = answer
    BY <1>6 DEF EndReplay
  <2>5. AnswersAreTold'
    BY <1>6, <2>1, <2>4, AnswersStay DEF ReceiptsTell, EventTells, AnswerTells
  <2>6. Safe(now.m)'
    BY <1>3, <2>1 DEF Safe
  <2> QED
    BY <1>3, <1>6, <2>1, <2>3, <2>5, <2>6, WriterMoves DEF InHand
<1> QED
  BY <1>1, <1>4, <1>5, <1>6 DEF Drop

\* A step of the reader or the writer that keeps tables, journals and answers.
LEMMA QuietMoves ==
  ASSUME GameBounds, GameInv, UNCHANGED <<gameVars, tables, spool, orphans, ghosts, answer>>,
         UNCHANGED <<nondur, up>>, AnswersAreTold' \/ UNCHANGED event,
         pend' \in [Procs -> SUBSET published], queue' \in [Procs -> Seq(ATask)],
         \/ UNCHANGED job
         \/ /\ AtWriter = {}
            /\ \E next : JobFits(next)' /\ job' = [job EXCEPT ![Player] = next],
         SavesQueued \subseteq SavesQueued'
  PROVE  GameInv'
<1>1. /\ sent' = sent /\ Player \in Procs /\ SentIsOwn /\ HeldIsSent /\ JobIsOfSent /\ GameIsOwn
      /\ AnswersAreTold /\ \A n \in published : Safe(n)
      /\ TablesGrow /\ rows' = rows /\ receipts' = receipts
      /\ published' = published /\ refused' = refused /\ aside' = aside
  BY SameTablesGrow DEF gameVars, ghosts, GameInv, GameIndInv, GameBounds
<1>2. HeldIsSent'
  <2>1. queue' \in [Procs -> Seq(ATask')]
    BY <1>1, TasksStay
  <2> QED
    BY <1>1, <2>1 DEF HeldIsSent
<1>3. JobIsOfSent'
  <2>1. CASE UNCHANGED job
    BY <1>1, <2>1 DEF JobIsOfSent, JobFits, TodoIsSent, Told, PassedBy, InRow
  <2>2. ASSUME NEW next, JobFits(next)', job' = [job EXCEPT ![Player] = next]
        PROVE  JobIsOfSent'
    <3>1. DOMAIN job' = Procs /\ job'[Player] = next
      BY <1>1, <2>2 DEF JobIsOfSent
    <3> QED
      BY <2>2, <3>1 DEF JobIsOfSent
  <2> QED
    BY <2>1, <2>2
<1>4. AnswersAreTold'
  <2>1. CASE UNCHANGED event
    BY <1>1, <2>1 DEF AnswersAreTold, Told, PassedBy, InRow
  <2> QED
    BY <2>1
<1>5. \A n : Safe(n) => Safe(n)'
  BY <1>1 DEF Safe, PassedBy
<1>6. OnItsWay \subseteq OnItsWay'
  BY DEF OnItsWay, AtWriter
<1>7. game # None => Player \in up'
  BY <1>1 DEF GameIsOwn
<1> QED
  BY <1>1, <1>2, <1>3, <1>4, <1>5, <1>6, <1>7, BackendMoves

LEMMA StartRetryMoves ==
  ASSUME GameBounds, GameInv, UNCHANGED gameVars, StartRetry(Player)
  PROVE  GameInv'
<1> DEFINE first == Head(queue[Player])
<1>1. /\ job[Player] = Idle /\ queue[Player] # <<>> /\ first.do = "retry"
      /\ queue' = [queue EXCEPT ![Player] = Tail(@)]
      /\ UNCHANGED <<tables, spool, orphans, up, pend, nondur, event, ghosts>>
      /\ queue[Player] \in Seq(ATask) /\ queue \in [Procs -> Seq(ATask)] /\ Player \in Procs
      /\ pend \in [Procs -> SUBSET published] /\ nondur \in [Procs -> SUBSET sent]
      /\ published \subseteq sent /\ published' = published /\ sent' = sent
  BY DEF StartRetry, GameInv, GameIndInv, HeldIsSent, GameBounds, ghosts, gameVars
<1>2. /\ Tail(queue[Player]) \in Seq(ATask)
      /\ ToSet(queue[Player]) = {first} \cup ToSet(Tail(queue[Player]))
  BY <1>1, TailSet
<1>3. queue' \in [Procs -> Seq(ATask)] /\ queue'[Player] = Tail(queue[Player])
  BY <1>1, <1>2
<1>4. SavesQueued \subseteq SavesQueued'
  BY <1>1, <1>2, <1>3 DEF SavesQueued
<1>5. PICK of : of = [replay |-> first.reqs,
                      todo |-> {[m |-> m, fresh |-> FALSE] : m \in pend[Player]}
                               \cup {[m |-> m, fresh |-> TRUE] : m \in nondur[Player]}]
  OBVIOUS
<1>6. TodoIsSent(of.todo)'
  <2>1. pend[Player] \subseteq published /\ nondur[Player] \subseteq sent
    BY <1>1
  <2>2. ASSUME NEW item \in of.todo
        PROVE  /\ item.m \in sent /\ item.fresh \in BOOLEAN
               /\ ~item.fresh => item.m \in published
    <3>1. CASE \E m \in pend[Player] : item = [m |-> m, fresh |-> FALSE]
      BY <1>1, <2>1, <3>1
    <3>2. CASE \E m \in nondur[Player] : item = [m |-> m, fresh |-> TRUE]
      BY <2>1, <3>2
    <3> QED
      BY <1>5, <3>1, <3>2
  <2> QED
    BY <1>1, <2>2 DEF TodoIsSent
<1>7. AtWriter = {}
  BY <1>1 DEF AtWriter, Idle
<1>8. CASE EndReplay(Player, of, {})
  <2>1. /\ \E next : JobFits(next)' /\ job' = [job EXCEPT ![Player] = next]
        /\ UNCHANGED answer
    BY <1>6, <1>8, DoneFits DEF EndReplay
  <2> QED
    BY <1>1, <1>3, <1>4, <1>7, <2>1, QuietMoves
<1>9. CASE /\ job' = [job EXCEPT ![Player] = [at |-> "next", replay |-> of.replay,
                                             todo |-> of.todo]]
           /\ UNCHANGED answer
  <2> DEFINE next == [at |-> "next", replay |-> of.replay, todo |-> of.todo]
  <2>1. JobFits(next)'
    BY <1>6 DEF JobFits, TodoIsSent
  <2> HIDE DEF next
  <2>2. job' = [job EXCEPT ![Player] = next]
    BY <1>9 DEF next
  <2> QED
    BY <1>1, <1>3, <1>4, <1>7, <1>9, <2>1, <2>2, QuietMoves
<1> QED
  BY <1>1, <1>5, <1>8, <1>9 DEF StartRetry

\* The reader finds journals of its own game only, none of them garbled.
LEMMA ScanMoves ==
  ASSUME GameBounds, GameInv, UNCHANGED gameVars, Scan(Player)
  PROVE  GameInv'
<1>1. /\ HeldIsSent /\ Player \in Procs /\ queue[Player] \in Seq(ATask)
      /\ \A r \in Requests : spool[r] # Garbled
  <2>1. HeldIsSent /\ SentIsOwn /\ Player \in Procs
    BY DEF GameInv, GameIndInv, GameBounds
  <2>2. \A m \in published : m # Garbled
    BY <2>1, PayloadFields DEF HeldIsSent, SentIsOwn
  <2> QED
    BY <2>1, <2>2 DEF HeldIsSent, GameBounds
<1>2. spool' = spool
  BY <1>1 DEF Scan, Ungarbled, HeldIsSent
<1>3. Journals \subseteq published
  BY <1>1 DEF Journals, HeldIsSent
<1>4. /\ pend' = [pend EXCEPT ![Player] = @ \cup Journals]
      /\ UNCHANGED <<tables, orphans, up, nondur, event, job, answer, ghosts>>
  BY DEF Scan, Schedule
<1>5. pend' \in [Procs -> SUBSET published]
  <2>1. pend[Player] \cup Journals \in SUBSET published
    BY <1>1, <1>3 DEF HeldIsSent
  <2> QED
    BY <1>1, <1>4, <2>1 DEF HeldIsSent
<1>6. queue' \in [Procs -> Seq(ATask)] /\ SavesQueued \subseteq SavesQueued'
  <2>1. CASE queue' = queue
    BY <1>1, <2>1 DEF HeldIsSent, SavesQueued
  <2>2. ASSUME NEW candidates, queue' = [queue EXCEPT ![Player] = Append(@, RetryAll(candidates))],
               candidates \subseteq Requests
        PROVE  queue' \in [Procs -> Seq(ATask)] /\ SavesQueued \subseteq SavesQueued'
    <3>1. RetryAll(candidates) \in ATask
      BY <2>2 DEF RetryAll, ATask
    <3>2. /\ Append(queue[Player], RetryAll(candidates)) \in Seq(ATask)
          /\ ToSet(queue[Player]) \subseteq ToSet(Append(queue[Player], RetryAll(candidates)))
      BY <1>1, <3>1, AppendedSet
    <3>3. /\ queue' \in [Procs -> Seq(ATask)]
          /\ queue'[Player] = Append(queue[Player], RetryAll(candidates))
      BY <1>1, <2>2, <3>2 DEF HeldIsSent
    <3> QED
      BY <3>2, <3>3 DEF SavesQueued
  <2>3. RequestsOf(pend[Player] \cup Journals \cup nondur[Player]) \ retrying[Player]
          \subseteq Requests
    <3>1. pend[Player] \cup Journals \cup nondur[Player] \subseteq sent
      BY <1>1, <1>3 DEF HeldIsSent
    <3>2. \A m \in sent : m.req \in Requests
      BY PayloadFields DEF GameInv, GameIndInv, SentIsOwn
    <3> QED
      BY <3>1, <3>2 DEF RequestsOf
  <2> QED
    BY <2>1, <2>2, <2>3 DEF Scan, Schedule
<1> QED
  BY <1>2, <1>4, <1>5, <1>6, QuietMoves

\* What the store's receipt says is recorded.
LEMMA RefreshMoves ==
  ASSUME GameBounds, GameInv, Refresh
  PROVE  GameInv'
<1>1. PICK r : r = game.last.req
  OBVIOUS
<1>2. /\ UNCHANGED gameVars /\ receipts[r] # None
      /\ event' = [event EXCEPT ![r] = [state |-> "committed", score |-> receipts[r].score]]
      /\ UNCHANGED <<tables, spool, orphans, up, pend, nondur, queue, job, answer, ghosts>>
      /\ game # None /\ game.st = "pending"
  BY <1>1 DEF Refresh, RefreshStatus
<1>3. /\ HeldIsSent /\ AnswersAreTold /\ SentIsOwn /\ TablesTyped /\ sent' = sent
      /\ game.last \in sent
  BY <1>2 DEF GameInv, GameIndInv, GameIsOwn, GameFits, gameVars
<1>4. r \in Requests
  BY <1>1, <1>3, PayloadFields DEF SentIsOwn
<1>5. PICK m, score : /\ m \in sent /\ m = receipts[r].of
                      /\ m.req = r /\ score = receipts[r].score /\ Told(m, score)
  BY <1>2, <1>3, <1>4 DEF AnswersAreTold
<1>6. TablesGrow /\ rows' = rows /\ receipts' = receipts
  BY <1>2, <1>3, SameTablesGrow
<1>7. Told(m, score)'
  BY <1>3, <1>5, <1>6, PassedKeeps DEF SentIsOwn
<1>8. EventTells(m)
  BY <1>2, <1>5, <1>7 DEF EventTells
<1>9. AnswersAreTold'
  BY <1>2, <1>5, <1>6, <1>8, AnswersStay DEF ReceiptsTell, AnswerTells
<1>10. SavesQueued' = SavesQueued
  BY <1>2 DEF SavesQueued
<1> QED
  BY <1>2, <1>3, <1>9, <1>10, QuietMoves DEF HeldIsSent

-----------------------------------------------------------------------------
\* What a dead writer left behind becomes a journal, and no other mutation is in
\* its place.
LEMMA PromotedIsIt ==
  ASSUME GameBounds, GameInv, Start(Player), NEW r \in Requests
  PROVE  \/ /\ spool'[r] = spool[r]
            /\ \A m \in orphans : m.req = r => spool[r] \notin {None, Garbled}
         \/ /\ spool[r] \in {None, Garbled} /\ spool'[r] \in orphans /\ spool'[r].req = r
            /\ spool'[r] \in published'
            /\ \A m \in orphans : m.req = r => spool'[r] = m
<1>1. PICK promoted : promoted = {m \in orphans : spool[m.req] \in {None, Garbled}}
  OBVIOUS
<1>2. /\ spool' = [q \in Requests |-> IF ForRequest(promoted, q) # {}
                     THEN CHOOSE m \in promoted : m.req = q ELSE spool[q]]
      /\ published' = published \cup promoted
      /\ orphans \subseteq sent /\ SentIsOwn
  BY <1>1 DEF Start, GameInv, GameIndInv, HeldIsSent
<1>3. CASE ForRequest(promoted, r) = {}
  BY <1>1, <1>2, <1>3 DEF ForRequest
<1>4. CASE ForRequest(promoted, r) # {}
  <2>1. PICK n \in promoted : n.req = r
    BY <1>4 DEF ForRequest
  <2>2. spool'[r] \in promoted /\ spool'[r].req = r
    BY <1>2, <1>4, <2>1
  <2>3. \A m \in orphans : m.req = r => spool'[r] = m
    BY <1>1, <1>2, <2>2 DEF SentIsOwn
  <2> QED
    BY <1>1, <1>2, <2>2, <2>3
<1> QED
  BY <1>3, <1>4

LEMMA StartMoves ==
  ASSUME GameBounds, GameInv, UNCHANGED gameVars, Start(Player)
  PROVE  GameInv'
<1>1. /\ UNCHANGED <<tables, pend, nondur, event, queue, job, answer, refused>>
      /\ up' = up \cup {Player} /\ orphans' = {}
      /\ published \subseteq published' /\ published' \subseteq published \cup orphans
      /\ aside' = aside \cup {m \in orphans : spool[m.req] \notin {None, Garbled, m}}
      /\ sent' = sent /\ DOMAIN spool' = Requests
      /\ spool' = [r \in Requests |-> spool'[r]]
  BY DEF Start, memory, gameVars
<1>2. /\ HeldIsSent /\ SentIsOwn /\ JobIsOfSent /\ AnswersAreTold /\ Player \in Procs
      /\ \A m \in published : Safe(m)
      /\ TablesGrow /\ rows' = rows /\ receipts' = receipts
  BY <1>1, SameTablesGrow DEF GameInv, GameIndInv, GameBounds
<1>3. \A m \in sent : m.req \in Requests /\ m # None /\ m # Garbled
  BY <1>2, PayloadFields DEF SentIsOwn
<1>4. HeldIsSent'
  <2>1. published' \subseteq sent' /\ orphans' \subseteq sent'
    BY <1>1, <1>2 DEF HeldIsSent
  <2>2. ASSUME NEW r \in Requests
        PROVE  /\ spool'[r] \in published' \cup {None}
               /\ spool'[r] # None => spool'[r].req = r
    BY <1>1, <1>2, PromotedIsIt DEF HeldIsSent
  <2>3. pend' \in [Procs -> SUBSET published'] /\ nondur' \in [Procs -> SUBSET sent']
    BY <1>1, <1>2 DEF HeldIsSent
  <2>4. queue' \in [Procs -> Seq(ATask')]
    BY <1>1, <1>2, TasksStay DEF HeldIsSent
  <2> QED
    BY <1>1, <2>1, <2>2, <2>3, <2>4 DEF HeldIsSent
<1>5. JobIsOfSent'
  <2>1. \A todo : TodoIsSent(todo) => TodoIsSent(todo)'
    BY <1>1 DEF TodoIsSent
  <2>2. \A now : JobFits(now) => JobFits(now)'
    BY <1>1, <1>2, <2>1 DEF JobFits, TodoIsSent, Told, PassedBy, InRow
  <2> QED
    BY <1>1, <1>2, <2>2 DEF JobIsOfSent, JobFits, TodoIsSent, Told, PassedBy, InRow
<1>6. AnswersAreTold'
  BY <1>1, <1>2 DEF AnswersAreTold, Told, PassedBy, InRow
<1>7. ASSUME NEW m \in sent, Safe(m)
      PROVE  Safe(m)'
  <2>1. m.req \in Requests
    BY <1>3
  <2>2. CASE spool[m.req] = m
    BY <1>3, <2>1, <2>2, PromotedIsIt DEF Safe
  <2>3. CASE m \in orphans
    BY <1>1, <1>3, <2>1, <2>3, PromotedIsIt DEF Safe
  <2>4. CASE PassedBy(m) \/ m \in refused \cup aside
    BY <1>1, <1>2, <2>4 DEF Safe, PassedBy
  <2> QED
    BY <1>7, <2>2, <2>3, <2>4 DEF Safe
<1>8. OnItsWay' = OnItsWay
  BY <1>1 DEF OnItsWay, SavesQueued, AtWriter
<1>9. \A m \in published' : Safe(m)'
  BY <1>1, <1>2, <1>7 DEF HeldIsSent, Safe
<1>10. game # None => Player \in up'
  BY <1>1
<1> QED
  BY <1>2, <1>4, <1>5, <1>6, <1>7, <1>8, <1>9, <1>10, BackendMoves

\* The game dies with its process; what was being journaled may be left behind.
LEMMA DieMoves ==
  ASSUME GameBounds, GameInv, DieWithGame
  PROVE  GameInv'
<1>1. /\ UNCHANGED <<tables, spool, ghosts, slot, made, sent>> /\ game' = None
      /\ pend' = [pend EXCEPT ![Player] = {}] /\ nondur' = [nondur EXCEPT ![Player] = {}]
      /\ queue' = [queue EXCEPT ![Player] = <<>>] /\ job' = [job EXCEPT ![Player] = Idle]
      /\ event' = [r \in Requests |-> None] /\ answer' = None
      /\ orphans \subseteq orphans' /\ orphans' \subseteq orphans \cup BeingSpooled(Player)
  BY DEF DieWithGame, Die
<1>2. /\ HeldIsSent /\ SentIsOwn /\ JobIsOfSent /\ AnswersAreTold /\ GameIsOwn
      /\ Player \in Procs /\ \A m \in published : Safe(m)
      /\ TablesGrow /\ rows' = rows /\ receipts' = receipts
      /\ published' = published /\ refused' = refused /\ aside' = aside
  BY <1>1, SameTablesGrow DEF GameInv, GameIndInv, GameBounds, ghosts
<1>3. BeingSpooled(Player) \subseteq sent
  <2>1. ASSUME queue[Player] # <<>>, Head(queue[Player]).do = "save"
        PROVE  Head(queue[Player]).m \in sent
    <3>1. queue[Player] \in Seq(ATask)
      BY <1>2 DEF HeldIsSent
    <3>2. Head(queue[Player]) \in ATask
      BY <2>1, <3>1, TailSet
    <3> QED
      BY <2>1, <3>2 DEF ATask
  <2>2. ASSUME job[Player].at = "next", NEW one \in job[Player].todo
        PROVE  one.m \in sent
    BY <1>2, <2>2 DEF JobIsOfSent, JobFits, TodoIsSent
  <2> QED
    BY <2>1, <2>2 DEF BeingSpooled
<1>4. SentIsOwn'
  BY <1>1, <1>2 DEF SentIsOwn
<1>5. HeldIsSent'
  <2>1. published' \subseteq sent' /\ orphans' \subseteq sent'
    BY <1>1, <1>2, <1>3 DEF HeldIsSent
  <2>2. <<>> \in Seq(ATask)
    OBVIOUS
  <2>3. queue' \in [Procs -> Seq(ATask)]
    BY <1>1, <1>2, <2>2 DEF HeldIsSent
  <2>4. queue' \in [Procs -> Seq(ATask')]
    BY <1>1, <1>2, <2>3, TasksStay
  <2> QED
    BY <1>1, <1>2, <2>1, <2>4 DEF HeldIsSent
<1>6. JobIsOfSent'
  BY <1>1, <1>2 DEF JobIsOfSent, JobFits, Idle
<1>7. AnswersAreTold'
  BY <1>1, <1>2 DEF AnswersAreTold, Told, PassedBy, InRow
<1>8. GameIsOwn' /\ SettledIsNewest'
  <2>1. slot # None => Confirmed(slot)'
    BY <1>1, <1>2 DEF GameIsOwn, Confirmed, InRow
  <2> QED
    BY <1>1, <1>2, <2>1 DEF GameIsOwn, SettledIsNewest, Confirmed, InRow
<1>9. \A m \in published' : Safe(m)'
  BY <1>1, <1>2 DEF Safe, PassedBy
<1>10. TablesTyped'
  BY <1>2 DEF TablesGrow
<1> QED
  BY <1>1, <1>4, <1>5, <1>6, <1>7, <1>8, <1>9, <1>10 DEF GameInv, GameIndInv

-----------------------------------------------------------------------------
\* A step of the game leaves the backend alone, hands it tasks, and forgets
\* answers.
LEMMA TasksRemain ==
  ASSUME sent \subseteq sent', UNCHANGED tables
  PROVE  ATask \subseteq ATask' /\ \A s \in Seq(ATask) : s \in Seq(ATask')
<1>1. ATask \subseteq ATask'
  BY DEF ATask, Confirmed, InRow, tables
<1> QED
  BY <1>1, SeqMonotonic

LEMMA GameMoves ==
  ASSUME GameBounds, GameInv, UNCHANGED backend, answer' \in {answer, None},
         sent \subseteq sent', SentIsOwn', queue' \in [Procs -> Seq(ATask')],
         SavesQueued \subseteq SavesQueued', GameIsOwn', SettledIsNewest',
         game' # None => LastIsSafe(game)'
  PROVE  GameInv'
<1>1. /\ UNCHANGED <<tables, spool, orphans, up, pend, nondur, event, job, published, refused, aside>>
      /\ rows' = rows /\ receipts' = receipts /\ TablesTyped'
  BY DEF backend, memory, ghosts, tables, GameInv, TablesTyped
<1>2. HeldIsSent /\ JobIsOfSent /\ AnswersAreTold /\ \A m \in published : Safe(m)
  BY DEF GameInv, GameIndInv
<1>3. HeldIsSent'
  BY <1>1, <1>2 DEF HeldIsSent
<1>4. JobIsOfSent'
  BY <1>1, <1>2 DEF JobIsOfSent, JobFits, TodoIsSent, Told, PassedBy, InRow
<1>5. AnswersAreTold'
  BY <1>1, <1>2 DEF AnswersAreTold, Told, PassedBy, InRow
<1>6. \A m \in published' : Safe(m)'
  BY <1>1, <1>2 DEF Safe, PassedBy
<1> QED
  BY <1>1, <1>3, <1>4, <1>5, <1>6 DEF GameInv, GameIndInv

\* The game hands over the mutations "more".
Hands(before, after, more) ==
  /\ before \in Seq([do : {"save"}, m : more]) /\ after \in Seq([do : {"save"}, m : more])
  /\ {task.m : task \in ToSet(before) \cup ToSet(after)} = more

LEMMA HandsNothing == Hands(<<>>, <<>>, {})
<1>1. ToSet(<<>>) = {}
  BY DEF ToSet
<1> QED
  BY <1>1 DEF Hands

LEMMA HandsOne ==
  ASSUME NEW m
  PROVE  Hands(<<Save(m)>>, <<>>, {m}) /\ Hands(<<>>, <<Save(m)>>, {m})
<1>1. ToSet(<<>>) = {} /\ ToSet(<<Save(m)>>) = {Save(m)}
  BY DEF ToSet
<1>2. Save(m) \in [do : {"save"}, m : {m}] /\ Save(m).m = m
  BY DEF Save
<1> QED
  BY <1>1, <1>2 DEF Hands

\* What it hands over are payloads with requests of their own.
MoreIsOwn(more) ==
  /\ more \subseteq Payloads
  /\ \A m \in more : m.req \in 1 .. made' /\ m.hint \in {None, m.att}
  /\ \A m \in more : \A n \in sent \cup more : m.req = n.req => m = n

LEMMA SentGrows ==
  ASSUME GameInv, NEW more, MoreIsOwn(more), sent' = sent \cup more, made' \in Nat,
         made <= made'
  PROVE  SentIsOwn'
BY DEF GameInv, GameIndInv, SentIsOwn, MoreIsOwn

LEMMA SavePointIsOne ==
  ASSUME NEW g \in AGame, Confirmed(g)
  PROVE  /\ SavePoint(g) \in ASavePoint /\ Confirmed(SavePoint(g))
         /\ SlotTask(g) \in ATask /\ SlotTask(g).do = "slot"
<1>1. SavePoint(g) \in ASavePoint /\ Confirmed(SavePoint(g))
  BY DEF SavePoint, ASavePoint, AGame, Confirmed
<1> QED
  BY <1>1 DEF SlotTask, ATask

LEMMA ElementsOf ==
  ASSUME NEW S, NEW s \in Seq(S)
  PROVE  ToSet(s) \subseteq S
<1>1. DOMAIN s = 1 .. Len(s) /\ \A i \in 1 .. Len(s) : s[i] \in S
  OBVIOUS
<1> QED
  BY <1>1 DEF ToSet

LEMMA JoinedSets ==
  ASSUME NEW S, NEW q \in Seq(S), NEW u \in Seq(S), NEW v \in Seq(S),
         NEW w \in Seq(S)
  PROVE  /\ q \o u \o v \o w \in Seq(S)
         /\ ToSet(q \o u \o v \o w) = ToSet(q) \cup ToSet(u) \cup ToSet(v) \cup ToSet(w)
<1>1. PICK r : r = q \o u
  OBVIOUS
<1>2. PICK t : t = r \o v
  OBVIOUS
<1>3. r \in Seq(S) /\ ToSet(r) = ToSet(q) \cup ToSet(u)
  BY <1>1, JoinedSet
<1>4. t \in Seq(S) /\ ToSet(t) = ToSet(r) \cup ToSet(v)
  BY <1>2, <1>3, JoinedSet
<1>5. t \o w \in Seq(S) /\ ToSet(t \o w) = ToSet(t) \cup ToSet(w)
  BY <1>4, JoinedSet
<1> QED
  BY <1>1, <1>2, <1>3, <1>4, <1>5

LEMMA SaveSlotIsOne ==
  ASSUME NEW g \in AGame, Confirmed(g)
  PROVE  SaveSlot(g) \in Seq(ATask) /\ \A task \in ToSet(SaveSlot(g)) : task.do = "slot"
<1>1. SlotTask(g) \in ATask /\ SlotTask(g).do = "slot"
  BY SavePointIsOne
<1>2. ToSet(<<>>) = {} /\ ToSet(<<SlotTask(g)>>) = {SlotTask(g)}
  BY DEF ToSet
<1>3. <<>> \in Seq(ATask) /\ <<SlotTask(g)>> \in Seq(ATask)
  BY <1>1
<1> QED
  BY <1>1, <1>2, <1>3 DEF SaveSlot

\* The queue of the writer grows by saves and a save point.
LEMMA QueueGrows ==
  ASSUME GameBounds, GameInv, UNCHANGED tables, NEW more, sent' = sent \cup more,
         NEW g \in AGame, Confirmed(g), NEW before, NEW after, Hands(before, after, more),
         NEW s \in Seq(ATask'), queue' = [queue EXCEPT ![Player] = s],
         ToSet(s) = ToSet(queue[Player]) \cup ToSet(before) \cup ToSet(SaveSlot(g)) \cup ToSet(after)
  PROVE  queue' \in [Procs -> Seq(ATask')] /\ SavesQueued' = SavesQueued \cup more
<1>1. Player \in Procs /\ queue \in [Procs -> Seq(ATask')]
  BY TasksRemain DEF GameInv, GameIndInv, HeldIsSent, GameBounds
<1>2. queue' \in [Procs -> Seq(ATask')] /\ queue'[Player] = s
  BY <1>1
<1>3. \A task \in ToSet(before) \cup ToSet(after) : task.do = "save"
  <2>1. ToSet(before) \cup ToSet(after) \subseteq [do : {"save"}, m : more]
    BY ElementsOf DEF Hands
  <2> QED
    BY <2>1
<1>4. \A task \in ToSet(SaveSlot(g)) : task.do = "slot"
  BY SaveSlotIsOne
<1>5. {t \in ToSet(s) : t.do = "save"}
        = {t \in ToSet(queue[Player]) : t.do = "save"} \cup ToSet(before) \cup ToSet(after)
  BY <1>3, <1>4
<1>6. more = {task.m : task \in ToSet(before) \cup ToSet(after)}
  BY DEF Hands
<1>7. SavesQueued' = {task.m : task \in {t \in ToSet(s) : t.do = "save"}}
  BY <1>2 DEF SavesQueued
<1> QED
  BY <1>2, <1>5, <1>6, <1>7 DEF SavesQueued

\* The game becomes g.
LEMMA BecomesMoves ==
  ASSUME GameBounds, GameInv, UNCHANGED <<backend, slot>>, answer' \in {answer, None},
         NEW more, MoreIsOwn(more), sent' = sent \cup more, made' \in Nat, made <= made',
         queue' \in [Procs -> Seq(ATask')], SavesQueued \cup more \subseteq SavesQueued',
         Player \in up, NEW g \in AGame, game' = g, GameFits(g)', g.settled => Newest(g)',
         g.last # None => g.last \in more \/ Safe(g.last) \/ g.last \in OnItsWay
  PROVE  GameInv'
<1>1. /\ up' = up /\ slot' = slot /\ rows' = rows /\ GameIsOwn /\ SentIsOwn'
      /\ UNCHANGED <<spool, orphans, refused, aside, nondur, job>>
  BY SentGrows DEF GameInv, GameIndInv, backend, tables, memory, ghosts
<1>2. GameIsOwn'
  <2>1. slot' # None => Confirmed(slot)'
    BY <1>1 DEF GameIsOwn, Confirmed, InRow
  <2>2. GameFits(game)'
    BY DEF GameFits, Confirmed, InRow
  <2> QED
    BY <1>1, <2>1, <2>2 DEF GameIsOwn
<1>3. SettledIsNewest'
  BY DEF SettledIsNewest, Newest, Met, InRow, PassedBy
<1>4. LastIsSafe(game)'
  BY <1>1 DEF LastIsSafe, Safe, PassedBy, OnItsWay, AtWriter
<1> QED
  BY <1>1, <1>2, <1>3, <1>4, GameMoves

LEMMA ProceedFromMoves ==
  ASSUME GameBounds, GameInv, UNCHANGED <<backend, slot>>,
         NEW point \in AGame, Confirmed(point), NEW g \in AGame,
         NEW before, NEW after, ProceedFrom(point, g, before, after), NEW more,
         Hands(before, after, more), MoreIsOwn(more), made' \in Nat, made <= made',
         Player \in up,
         sent' = sent \cup more => GameFits(g)' /\ (g.settled => Newest(g)'),
         g.last # None => g.last \in more \/ Safe(g.last) \/ g.last \in OnItsWay
  PROVE  GameInv'
<1>1. sent' = sent \cup more
  <2>1. ToSet(before \o after) = ToSet(before) \cup ToSet(after)
    BY JoinedSet DEF Hands
  <2> QED
    BY <2>1 DEF ProceedFrom, Hands
<1>2. queue' \in [Procs -> Seq(ATask')] /\ SavesQueued' = SavesQueued \cup more
  <2>1. PICK q, middle, s : /\ q = queue[Player] /\ middle = SaveSlot(point)
                            /\ s = q \o before \o middle \o after
    OBVIOUS
  <2>2. queue' = [queue EXCEPT ![Player] = s] /\ UNCHANGED tables
    BY <2>1 DEF ProceedFrom, backend
  <2>3. PICK A : A = ATask'
    OBVIOUS
  <2>4. ATask \subseteq A /\ \A t \in Seq(ATask) : t \in Seq(A)
    BY <1>1, <2>2, <2>3, TasksRemain
  <2>5. q \in Seq(A)
    BY <2>1, <2>4 DEF GameInv, GameIndInv, HeldIsSent, GameBounds
  <2>6. middle \in Seq(A)
    BY <2>1, <2>4, SaveSlotIsOne
  <2>7. before \in Seq(A) /\ after \in Seq(A)
    <3>1. [do : {"save"}, m : more] \subseteq A
      BY <1>1, <2>3 DEF ATask
    <3> QED
      BY <3>1, SeqMonotonic DEF Hands
  <2>8. /\ q \o before \o middle \o after \in Seq(A)
        /\ ToSet(q \o before \o middle \o after)
             = ToSet(q) \cup ToSet(before) \cup ToSet(middle) \cup ToSet(after)
    BY <2>5, <2>6, <2>7, JoinedSets
  <2>9. /\ s \in Seq(ATask')
        /\ ToSet(s) = ToSet(queue[Player]) \cup ToSet(before) \cup ToSet(SaveSlot(point))
                        \cup ToSet(after)
    BY <2>1, <2>3, <2>8
  <2> QED
    BY <1>1, <2>2, <2>9, QueueGrows, ZenonT(60)
<1>3. PICK dirty \in BOOLEAN : dirty = SlotIsQueued
  BY DEF SlotIsQueued
<1>4. PICK next \in AGame : next = [g EXCEPT !.dirty = dirty]
  BY <1>3 DEF AGame
<1>5. game' = next /\ answer' = None
  BY <1>3, <1>4 DEF ProceedFrom
<1>6. /\ next.att = g.att /\ next.score = g.score /\ next.settled = g.settled
      /\ next.confirmed = g.confirmed /\ next.st = g.st /\ next.last = g.last
      /\ next.queued = g.queued /\ next.hint = g.hint
  BY <1>4 DEF AGame
<1>7. GameFits(next)' /\ (next.settled => Newest(next)')
  BY <1>1, <1>6 DEF GameFits, Newest, Confirmed, Met, InRow, PassedBy
<1> QED
  BY <1>1, <1>2, <1>5, <1>6, <1>7, BecomesMoves

LEMMA ProceedMoves ==
  ASSUME GameBounds, GameInv, UNCHANGED <<backend, slot>>, NEW g \in AGame,
         NEW before, NEW after, Proceed(g, before, after), NEW more,
         Hands(before, after, more), MoreIsOwn(more), made' \in Nat, made <= made',
         Player \in up, Confirmed(g),
         sent' = sent \cup more => GameFits(g)' /\ (g.settled => Newest(g)'),
         g.last # None => g.last \in more \/ Safe(g.last) \/ g.last \in OnItsWay
  PROVE  GameInv'
BY ProceedFromMoves DEF Proceed

-----------------------------------------------------------------------------
\* The steps of the game.
LEMMA RowsAreTyped ==
  ASSUME GameInv, NEW a \in Attempts, rows[a] # None
  PROVE  rows[a].rev \in Nat /\ rows[a].score \in Nat
BY DEF GameInv, TablesTyped, Row

\* The open game, as it is and with what it tells the player.
LEMMA GameNow ==
  ASSUME GameBounds, GameInv, game # None
  PROVE  /\ game \in AGame /\ Player \in up /\ GameFits(game) /\ LastIsSafe(game)
         /\ game.settled => Newest(game)
         /\ SentIsOwn /\ made \in Nat
BY DEF GameInv, GameIndInv, GameIsOwn, SettledIsNewest, SentIsOwn

LEMMA SameFits ==
  ASSUME UNCHANGED <<backend, made>>, sent' = sent, NEW g, GameFits(g)
  PROVE  GameFits(g)' /\ (Newest(g) => Newest(g)')
<1>1. rows' = rows
  BY DEF backend, tables
<1> QED
  BY <1>1 DEF GameFits, Confirmed, Newest, Met, InRow, PassedBy

\* Nothing is handed over.
LEMMA QuietProceeds ==
  ASSUME GameBounds, GameInv, UNCHANGED <<backend, slot, made>>, Player \in up,
         NEW g \in AGame, GameFits(g), LastIsSafe(g), g.settled => Newest(g),
         Proceed(g, <<>>, <<>>)
  PROVE  GameInv'
<1>1. made' \in Nat /\ made <= made' /\ MoreIsOwn({})
  BY DEF GameInv, GameIndInv, SentIsOwn, MoreIsOwn
<1>2. sent' = sent \cup {} => GameFits(g)' /\ (g.settled => Newest(g)')
  BY SameFits
<1>3. Confirmed(g)
  BY DEF GameFits
<1>4. g.last # None => g.last \in {} \/ Safe(g.last) \/ g.last \in OnItsWay
  BY DEF LastIsSafe
<1> QED
  BY <1>1, <1>2, <1>3, <1>4, HandsNothing, ProceedMoves

LEMMA PayloadIsOne ==
  ASSUME NEW req \in Requests, NEW att \in Attempts, NEW hint \in Attempts \cup {None},
         NEW rev \in Nat \ {0}, NEW score \in Nat
  PROVE  [req |-> req, att |-> att, hint |-> hint, bare |-> FALSE, rev |-> rev,
          score |-> score, kind |-> Kind] \in Payloads
BY DEF Payloads

\* The next payload is new.
LEMMA PayloadIsNew ==
  ASSUME GameBounds, GameInv, made < MaxRequests, made' = made + 1, NEW g \in AGame,
         g.hint \in {None, g.att}, NEW m, m = Payload(g, made + 1, g.rev + 1, g.score)
  PROVE  /\ m \in Payloads /\ m # None /\ m.req = made + 1 /\ m.att = g.att
         /\ m.hint = g.hint /\ m.score = g.score /\ m.req \in 1 .. made'
         /\ \A n \in sent : n.req # m.req
         /\ MoreIsOwn({m}) /\ made' \in Nat /\ made <= made'
<1>1. made \in Nat /\ MaxRequests \in Nat /\ made + 1 \in Requests
  BY DEF GameBounds, GameInv, GameIndInv, SentIsOwn
<1>2. /\ m = [req |-> made + 1, att |-> g.att, hint |-> g.hint, bare |-> FALSE,
              rev |-> g.rev + 1, score |-> g.score, kind |-> Kind]
      /\ g.att \in Attempts /\ g.hint \in Attempts \cup {None} /\ g.rev \in Nat
      /\ g.score \in Nat
  BY DEF Payload, AGame
<1>3. m \in Payloads
  <2>1. g.rev + 1 \in Nat \ {0}
    BY <1>2
  <2>2. g.att \in Attempts /\ g.hint \in Attempts \cup {None} /\ g.score \in Nat
    BY <1>2
  <2>3. m = [req |-> made + 1, att |-> g.att, hint |-> g.hint, bare |-> FALSE,
             rev |-> g.rev + 1, score |-> g.score, kind |-> Kind]
    BY <1>2
  <2> QED
    BY <1>1, <2>1, <2>2, <2>3, PayloadIsOne
<1>4. m # None
  BY <1>3, PayloadFields
<1>5. m.req = made + 1 /\ m.att = g.att /\ m.hint = g.hint /\ m.score = g.score
  BY <1>2
<1>6. \A n \in sent : n.req # m.req
  BY <1>1, <1>5 DEF GameInv, GameIndInv, SentIsOwn
<1> QED
  BY <1>1, <1>3, <1>4, <1>5, <1>6 DEF MoreIsOwn

\* A score is handed over, or waits in the game: it is the newest now.
LEMMA HandedOverMoves ==
  ASSUME GameBounds, GameInv, UNCHANGED <<backend, slot>>, Player \in up, NEW g \in AGame,
         GameFits(g), LastIsSafe(g), made < MaxRequests, made' = made + 1,
         NEW m, m = Payload(g, made + 1, g.rev + 1, g.score),
         NEW next \in AGame, next = [g EXCEPT !.rev = @ + 1],
         NEW point \in AGame, Confirmed(point), NEW before, NEW after, Hands(before, after, {m}),
         g.st \in {"saving", "pending"} =>
           /\ game' = [next EXCEPT !.queued = m, !.dirty = SlotIsQueued]
           /\ queue' = [queue EXCEPT ![Player] = @ \o SaveSlot(point)]
           /\ UNCHANGED <<answer, sent>>,
         g.st \notin {"saving", "pending"} =>
           ProceedFrom(point, Sending(next, m), before, after)
  PROVE  GameInv'
<1>1. /\ rows' = rows /\ UNCHANGED tables /\ made \in Nat /\ SentIsOwn
      /\ g.hint \in {None, g.att} /\ Confirmed(g)
  BY DEF backend, tables, GameInv, GameIndInv, SentIsOwn, GameFits
<1>2. /\ m \in Payloads /\ m # None /\ m.req = made + 1 /\ m.att = g.att
      /\ m.hint = g.hint /\ m.score = g.score /\ m.req \in 1 .. made'
      /\ \A n \in sent : n.req # m.req
      /\ MoreIsOwn({m}) /\ made' \in Nat /\ made <= made'
  BY <1>1, PayloadIsNew
<1>3. CASE g.st \in {"saving", "pending"}
  <2>1. PICK dirty \in BOOLEAN : dirty = SlotIsQueued
    BY DEF SlotIsQueued
  <2>2. PICK then \in AGame : then = [next EXCEPT !.queued = m, !.dirty = dirty]
    <3>1. [next EXCEPT !.queued = m, !.dirty = dirty] \in AGame
      BY <1>2 DEF AGame
    <3> QED
      BY <3>1
  <2>3. /\ game' = then /\ queue' = [queue EXCEPT ![Player] = @ \o SaveSlot(point)]
        /\ UNCHANGED <<answer, sent>>
    BY <1>3, <2>1, <2>2
  <2>4. /\ then.att = g.att /\ then.score = g.score /\ then.settled = g.settled
        /\ then.confirmed = g.confirmed /\ then.st = g.st /\ then.last = g.last
        /\ then.queued = m /\ then.hint = g.hint
    BY <2>2 DEF AGame
  <2>5. queue' \in [Procs -> Seq(ATask')] /\ SavesQueued \cup {} \subseteq SavesQueued'
    <3>1. PICK q, slots : q = queue[Player] /\ slots = SaveSlot(point)
      OBVIOUS
    <3>2. q \in Seq(ATask) /\ queue \in [Procs -> Seq(ATask)] /\ Player \in Procs
      BY <3>1 DEF GameInv, GameIndInv, HeldIsSent, GameBounds
    <3>3. slots \in Seq(ATask)
      BY <3>1, SaveSlotIsOne
    <3>4. q \o slots \in Seq(ATask) /\ ToSet(q \o slots) = ToSet(q) \cup ToSet(slots)
      BY <3>2, <3>3, JoinedSet
    <3>5. PICK s : s = q \o slots
      OBVIOUS
    <3>6. queue' = [queue EXCEPT ![Player] = s]
      BY <2>3, <3>1, <3>5
    <3>7. s \in Seq(ATask') /\ ToSet(queue[Player]) \subseteq ToSet(s)
      BY <1>1, <2>3, <3>1, <3>4, <3>5, TasksRemain
    <3>8. queue \in [Procs -> Seq(ATask')]
      BY <1>1, <2>3, <3>2, TasksRemain
    <3>9. queue' \in [Procs -> Seq(ATask')] /\ queue'[Player] = s
      BY <3>2, <3>6, <3>7, <3>8
    <3> QED
      BY <3>7, <3>9 DEF SavesQueued
  <2>6. GameFits(then)'
    BY <1>1, <1>2, <1>3, <2>3, <2>4 DEF GameFits, Confirmed, InRow
  <2>7. Newest(then)'
    BY <1>2, <1>3, <2>4 DEF Newest
  <2>8. MoreIsOwn({}) /\ sent' = sent \cup {}
    BY <2>3 DEF MoreIsOwn
  <2>9. then.last # None => then.last \in {} \/ Safe(then.last) \/ then.last \in OnItsWay
    BY <2>4 DEF LastIsSafe
  <2> QED
    BY <1>2, <2>3, <2>5, <2>6, <2>7, <2>8, <2>9, BecomesMoves
<1>4. CASE g.st \notin {"saving", "pending"}
  <2>1. PICK then \in AGame : then = Sending(next, m)
    <3>1. Sending(next, m) \in AGame
      BY <1>2 DEF AGame, Sending
    <3> QED
      BY <3>1
  <2>2. ProceedFrom(point, then, before, after)
    BY <1>4, <2>1
  <2>3. /\ then.att = g.att /\ then.score = g.score /\ then.settled = g.settled
        /\ then.confirmed = g.confirmed /\ then.st = "saving" /\ then.last = m
        /\ then.queued = g.queued /\ then.hint = g.hint
    BY <2>1 DEF AGame, Sending
  <2>4. ASSUME sent' = sent \cup {m}
        PROVE  GameFits(then)' /\ Newest(then)'
    <3>1. g.queued # None => g.queued.req \in 1 .. made' /\ g.queued.req # m.req
      BY <1>1, <1>2 DEF GameFits
    <3>2. GameFits(then)'
      BY <1>1, <1>2, <2>3, <2>4, <3>1 DEF GameFits, Confirmed, InRow
    <3>3. Newest(then)'
      BY <1>2, <2>3 DEF Newest
    <3> QED
      BY <3>2, <3>3
  <2> QED
    BY <1>2, <2>2, <2>3, <2>4, ProceedFromMoves
<1> QED
  BY <1>3, <1>4

LEMMA ConfirmedIsNewest ==
  ASSUME GameBounds, GameInv, NEW g \in AGame, GameFits(g), g.confirmed = g.score
  PROVE  Newest(g)
<1>1. g.confirmed # None
  BY DEF AGame, GameBounds
<1> QED
  BY <1>1 DEF Newest, Met, GameFits, Confirmed

LEMMA SendingIsOne ==
  ASSUME GameBounds, GameInv, NEW g \in AGame, made < MaxRequests, NEW next \in AGame,
         NEW m, m = Payload(g, made + 1, g.rev + 1, g.score)
  PROVE  Sending(next, m) \in AGame
<1>1. made + 1 \in Requests
  BY DEF GameBounds, GameInv, GameIndInv, SentIsOwn
<1>2. m \in Payloads
  BY <1>1, PayloadIsOne DEF Payload, AGame
<1> QED
  BY <1>2 DEF AGame, Sending

LEMMA NextRevision ==
  ASSUME NEW g \in AGame
  PROVE  [g EXCEPT !.rev = @ + 1] \in AGame
BY DEF AGame

LEMMA SubmitScoreMoves ==
  ASSUME GameBounds, GameInv, UNCHANGED <<backend, slot>>, Player \in up, NEW g \in AGame,
         GameFits(g), LastIsSafe(g), SubmitScore(g)
  PROVE  GameInv'
<1>1. CASE g.confirmed = g.score
  BY <1>1, ConfirmedIsNewest, QuietProceeds DEF SubmitScore
<1>2. ASSUME g.confirmed # g.score
      PROVE  GameInv'
  <2>1. PICK m : m = Payload(g, made + 1, g.rev + 1, g.score)
    OBVIOUS
  <2>2. PICK next \in AGame : next = [g EXCEPT !.rev = @ + 1]
    BY NextRevision
  <2>3. made < MaxRequests /\ made' = made + 1
    BY <1>2 DEF SubmitScore
  <2>4. PICK then \in AGame : then = Sending(next, m)
    BY <2>1, <2>2, <2>3, SendingIsOne
  <2>5. Confirmed(next) /\ Confirmed(then)
    BY <2>2, <2>4 DEF GameFits, Confirmed, AGame, Sending
  <2>6. Hands(<<Save(m)>>, <<>>, {m})
    BY HandsOne
  <2>7. CASE g.st \in {"saving", "pending"}
    <3>1. /\ game' = [next EXCEPT !.queued = m, !.dirty = SlotIsQueued]
          /\ queue' = [queue EXCEPT ![Player] = @ \o SaveSlot(next)]
          /\ UNCHANGED <<answer, sent>>
      BY <1>2, <2>1, <2>2, <2>7 DEF SubmitScore
    <3> QED
      BY <2>1, <2>2, <2>3, <2>5, <2>6, <2>7, <3>1, HandedOverMoves
  <2>8. CASE g.st \notin {"saving", "pending"}
    <3>1. ProceedFrom(then, Sending(next, m), <<Save(m)>>, <<>>)
      BY <1>2, <2>1, <2>2, <2>4, <2>8 DEF SubmitScore, Proceed
    <3> QED
      BY <2>1, <2>2, <2>3, <2>5, <2>6, <2>8, <3>1, HandedOverMoves
  <2> QED
    BY <2>7, <2>8
<1> QED
  BY <1>1, <1>2

\* The same after the save point.
LEMMA SaveThenSubmitMoves ==
  ASSUME GameBounds, GameInv, UNCHANGED <<backend, slot>>, Player \in up, NEW g \in AGame,
         GameFits(g), LastIsSafe(g), SaveThenSubmit(g)
  PROVE  GameInv'
<1>1. CASE g.confirmed = g.score
  BY <1>1, ConfirmedIsNewest, QuietProceeds DEF SaveThenSubmit
<1>2. ASSUME g.confirmed # g.score
      PROVE  GameInv'
  <2>1. PICK m : m = Payload(g, made + 1, g.rev + 1, g.score)
    OBVIOUS
  <2>2. PICK next \in AGame : next = [g EXCEPT !.rev = @ + 1]
    BY NextRevision
  <2>3. made < MaxRequests /\ made' = made + 1
    BY <1>2 DEF SaveThenSubmit
  <2>4. Confirmed(g) /\ Hands(<<>>, <<Save(m)>>, {m})
    BY HandsOne DEF GameFits
  <2>5. CASE g.st \in {"saving", "pending"}
    <3>1. /\ game' = [next EXCEPT !.queued = m, !.dirty = SlotIsQueued]
          /\ queue' = [queue EXCEPT ![Player] = @ \o SaveSlot(g)]
          /\ UNCHANGED <<answer, sent>>
      BY <1>2, <2>1, <2>2, <2>5 DEF SaveThenSubmit
    <3> QED
      BY <2>1, <2>2, <2>3, <2>4, <2>5, <3>1, HandedOverMoves
  <2>6. CASE g.st \notin {"saving", "pending"}
    <3>1. ProceedFrom(g, Sending(next, m), <<>>, <<Save(m)>>)
      BY <1>2, <2>1, <2>2, <2>6 DEF SaveThenSubmit
    <3> QED
      BY <2>1, <2>2, <2>3, <2>4, <2>6, <3>1, HandedOverMoves
  <2> QED
    BY <2>5, <2>6
<1> QED
  BY <1>1, <1>2

LEMMA SettleMoves ==
  ASSUME GameBounds, GameInv, Settle
  PROVE  GameInv'
<1>1. game # None /\ UNCHANGED <<backend, slot>>
  BY DEF Settle, FrameIsReady
<1>2. game \in AGame /\ Player \in up /\ GameFits(game) /\ LastIsSafe(game)
  BY <1>1, GameNow
<1>3. PICK s \in (game.score + 1) .. MaxScore :
        SubmitScore([game EXCEPT !.score = s, !.settled = TRUE])
  BY DEF Settle
<1>4. s \in Nat
  BY <1>2, <1>3 DEF AGame, GameBounds
<1>5. PICK g \in AGame : g = [game EXCEPT !.score = s, !.settled = TRUE]
  <2>1. [game EXCEPT !.score = s, !.settled = TRUE] \in AGame
    BY <1>2, <1>4 DEF AGame
  <2> QED
    BY <2>1
<1>6. /\ g.att = game.att /\ g.confirmed = game.confirmed /\ g.st = game.st
      /\ g.last = game.last /\ g.queued = game.queued /\ g.hint = game.hint
  BY <1>2, <1>5 DEF AGame
<1>7. GameFits(g) /\ LastIsSafe(g)
  BY <1>2, <1>6 DEF GameFits, Confirmed, LastIsSafe
<1> QED
  BY <1>1, <1>2, <1>3, <1>5, <1>7, SubmitScoreMoves

LEMMA MoveIsBlockedMoves ==
  ASSUME GameBounds, GameInv, MoveIsBlocked
  PROVE  GameInv'
<1>1. game # None /\ UNCHANGED <<backend, slot>>
  BY DEF MoveIsBlocked, FrameIsReady
<1>2. game \in AGame /\ Player \in up /\ GameFits(game) /\ LastIsSafe(game)
  BY <1>1, GameNow
<1>3. PICK g \in AGame : g = [game EXCEPT !.settled = TRUE]
  <2>1. [game EXCEPT !.settled = TRUE] \in AGame
    BY <1>2 DEF AGame
  <2> QED
    BY <2>1
<1>4. /\ g.att = game.att /\ g.confirmed = game.confirmed /\ g.st = game.st
      /\ g.last = game.last /\ g.queued = game.queued /\ g.hint = game.hint
  BY <1>2, <1>3 DEF AGame
<1>5. GameFits(g) /\ LastIsSafe(g)
  BY <1>2, <1>4 DEF GameFits, Confirmed, LastIsSafe
<1>6. SaveThenSubmit(g)
  BY <1>3 DEF MoveIsBlocked
<1> QED
  BY <1>1, <1>2, <1>5, <1>6, SaveThenSubmitMoves

LEMMA ContinueMoves ==
  ASSUME GameBounds, GameInv, Continue
  PROVE  GameInv'
<1>1. game # None /\ UNCHANGED <<backend, slot, made>>
  BY DEF Continue, FrameIsReady
<1>2. game \in AGame /\ Player \in up /\ GameFits(game) /\ LastIsSafe(game)
  BY <1>1, GameNow
<1>3. PICK g \in AGame : g = [game EXCEPT !.settled = FALSE]
  <2>1. [game EXCEPT !.settled = FALSE] \in AGame
    BY <1>2 DEF AGame
  <2> QED
    BY <2>1
<1>4. /\ g.att = game.att /\ g.confirmed = game.confirmed /\ g.st = game.st
      /\ g.last = game.last /\ g.queued = game.queued /\ g.hint = game.hint /\ ~g.settled
  BY <1>2, <1>3 DEF AGame
<1>5. GameFits(g) /\ LastIsSafe(g)
  BY <1>2, <1>4 DEF GameFits, Confirmed, LastIsSafe
<1>6. Proceed(g, <<>>, <<>>)
  BY <1>3 DEF Continue
<1> QED
  BY <1>1, <1>2, <1>4, <1>5, <1>6, QuietProceeds

\* An answer tells a score of what the game last sent: that is recorded now, and
\* what waits in the game comes next.
LEMMA SucceededMoves ==
  ASSUME GameBounds, GameInv, game # None, UNCHANGED <<backend, slot, made>>,
         NEW score \in Nat, Told(game.last, score), game.last # None, Succeeded(score)
  PROVE  GameInv'
<1>1. /\ game \in AGame /\ Player \in up /\ GameFits(game) /\ LastIsSafe(game)
      /\ game.settled => Newest(game)
      /\ SentIsOwn /\ made \in Nat /\ rows' = rows /\ TablesTyped
  BY GameNow DEF backend, tables, GameInv
<1>2. /\ game.last \in sent /\ game.last \in Payloads /\ game.last.att = game.att
      /\ PassedBy(game.last) /\ InRow(game.att, score) /\ Confirmed(game)
  BY <1>1 DEF GameFits, SentIsOwn, Told
<1>3. PICK total : total = IF game.confirmed = None \/ game.confirmed < score THEN score
                           ELSE game.confirmed
  OBVIOUS
<1>4. total \in Nat /\ total # None /\ InRow(game.att, total)
  BY <1>1, <1>2, <1>3 DEF AGame, Confirmed, GameBounds
<1>5. PICK g \in AGame : g = [game EXCEPT !.st = "saved", !.hint = game.att,
                                         !.confirmed = total, !.queued = None]
  <2>1. [game EXCEPT !.st = "saved", !.hint = game.att, !.confirmed = total,
                     !.queued = None] \in AGame
    BY <1>1, <1>4 DEF AGame
  <2> QED
    BY <2>1
<1>6. /\ g.att = game.att /\ g.score = game.score /\ g.settled = game.settled
      /\ g.confirmed = total /\ g.st = "saved" /\ g.last = game.last
      /\ g.queued = None /\ g.hint = game.att
  BY <1>1, <1>5 DEF AGame
<1>7. Confirmed(g)
  BY <1>4, <1>6 DEF Confirmed
<1>8. game.settled =>
        \/ Met(game.att, game.score)
        \/ game.queued # None /\ game.queued.score = game.score
  BY <1>1, <1>2 DEF Newest, Met
<1>9. CASE game.queued # None /\ game.queued.score # total
  <2>1. game.queued \in Payloads
    BY <1>1, <1>9 DEF AGame
  <2>2. PICK m \in Payloads : m = [game.queued EXCEPT !.hint = game.att]
    <3>1. [game.queued EXCEPT !.hint = game.att] \in Payloads
      BY <1>1, <2>1 DEF Payloads, AGame
    <3> QED
      BY <3>1
  <2>3. /\ m.req = game.queued.req /\ m.att = game.att /\ m.hint = game.att
        /\ m.score = game.queued.score /\ m # None
    <3>1. m.req = game.queued.req /\ m.att = game.queued.att /\ m.hint = game.att
          /\ m.score = game.queued.score
      BY <2>1, <2>2 DEF Payloads
    <3> QED
      BY <1>1, <1>9, <3>1, PayloadFields DEF GameFits
  <2>4. m.req \in 1 .. made' /\ \A n \in sent : n.req # m.req
    BY <1>1, <1>9, <2>3 DEF GameFits
  <2>5. MoreIsOwn({m})
    BY <2>3, <2>4 DEF MoreIsOwn
  <2>6. PICK then \in AGame : then = Sending(g, m)
    <3>1. Sending(g, m) \in AGame
      BY DEF AGame, Sending
    <3> QED
      BY <3>1
  <2>7. /\ then.att = game.att /\ then.score = game.score /\ then.settled = game.settled
        /\ then.confirmed = total /\ then.st = "saving" /\ then.last = m
        /\ then.queued = None /\ then.hint = game.att
    BY <1>6, <2>6 DEF AGame, Sending
  <2>8. Proceed(then, <<>>, <<Save(m)>>)
    BY <1>3, <1>5, <1>9, <2>2, <2>6 DEF Succeeded
  <2>9. ASSUME sent' = sent \cup {m}
        PROVE  GameFits(then)' /\ (then.settled => Newest(then)')
    <3>1. GameFits(then)'
      BY <1>1, <1>4, <2>3, <2>7, <2>9 DEF GameFits, Confirmed, InRow
    <3>2. Met(then.att, then.score) => Met(then.att, then.score)'
      BY <1>1, <2>9 DEF Met, InRow, PassedBy
    <3>3. then.settled => Newest(then)'
      <4>1. then.settled => Met(then.att, then.score) \/ then.last.score = then.score
        BY <1>8, <2>3, <2>7
      <4> QED
        BY <2>3, <2>7, <3>2, <4>1 DEF Newest
    <3> QED
      BY <3>1, <3>3
  <2>10. Hands(<<>>, <<Save(m)>>, {m}) /\ then.last \in {m} /\ Confirmed(then)
    BY <1>4, <2>7, HandsOne DEF Confirmed
  <2> QED
    BY <1>1, <2>5, <2>8, <2>9, <2>10, ProceedMoves
<1>10. CASE ~(game.queued # None /\ game.queued.score # total)
  <2>1. Proceed(g, <<>>, <<>>)
    BY <1>3, <1>5, <1>10 DEF Succeeded
  <2>2. GameFits(g)
    BY <1>1, <1>6, <1>7 DEF GameFits
  <2>3. g.settled => Newest(g)
    BY <1>4, <1>6, <1>8, <1>10 DEF Newest, Met
  <2>4. LastIsSafe(g)
    BY <1>1, <1>6 DEF LastIsSafe
  <2> QED
    BY <1>1, <2>1, <2>2, <2>3, <2>4, QuietProceeds
<1> QED
  BY <1>9, <1>10

\* Nothing is handed over, and the game becomes g.
LEMMA TurnsMoves ==
  ASSUME GameBounds, GameInv, UNCHANGED <<backend, slot, made, sent>>, Player \in up,
         answer' \in {answer, None}, queue' \in [Procs -> Seq(ATask)],
         SavesQueued \subseteq SavesQueued', NEW g \in AGame, game' = g, GameFits(g),
         g.settled => Newest(g),
         LastIsSafe(g)
  PROVE  GameInv'
<1>1. MoreIsOwn({}) /\ sent' = sent \cup {} /\ made' \in Nat /\ made <= made'
  BY DEF MoreIsOwn, GameInv, GameIndInv, SentIsOwn
<1>2. queue' \in [Procs -> Seq(ATask')]
  BY TasksRemain DEF backend
<1>3. GameFits(g)' /\ (g.settled => Newest(g)')
  BY SameFits
<1>4. g.last # None => g.last \in {} \/ Safe(g.last) \/ g.last \in OnItsWay
  BY DEF LastIsSafe
<1> QED
  BY <1>1, <1>2, <1>3, <1>4, BecomesMoves

LEMMA FailedTurns ==
  ASSUME GameBounds, GameInv, game # None, UNCHANGED <<backend, slot, made>>,
         NEW st \in {"pending", "failed", "refused"}, Failed(st), game.last # None,
         game.st \notin {"idle", "saved"}
  PROVE  GameInv'
<1>1. /\ game \in AGame /\ Player \in up /\ GameFits(game) /\ LastIsSafe(game)
      /\ game.settled => Newest(game)
  BY GameNow
<1>2. PICK g \in AGame : g = [game EXCEPT !.st = st]
  <2>1. [game EXCEPT !.st = st] \in AGame
    BY <1>1 DEF AGame
  <2> QED
    BY <2>1
<1>3. /\ g.att = game.att /\ g.score = game.score /\ g.settled = game.settled
      /\ g.confirmed = game.confirmed /\ g.st = st /\ g.last = game.last
      /\ g.queued = game.queued /\ g.hint = game.hint
  BY <1>1, <1>2 DEF AGame
<1>4. GameFits(g) /\ LastIsSafe(g)
  BY <1>1, <1>3 DEF GameFits, Confirmed, LastIsSafe
<1>5. g.settled => Newest(g)
  BY <1>1, <1>3 DEF Newest
<1>6. /\ game' = g /\ answer' = None /\ queue' = queue /\ sent' = sent
  BY <1>2 DEF Failed
<1>7. queue' \in [Procs -> Seq(ATask)] /\ SavesQueued \subseteq SavesQueued'
  BY <1>6 DEF SavesQueued, GameInv, GameIndInv, HeldIsSent
<1> QED
  BY <1>1, <1>4, <1>5, <1>6, <1>7, TurnsMoves

LEMMA PollMoves ==
  ASSUME GameBounds, GameInv, Poll
  PROVE  GameInv'
<1>1. game # None /\ answer # None /\ UNCHANGED <<backend, slot, made>>
  BY DEF Poll
<1>2. /\ game \in AGame /\ Player \in up /\ GameFits(game) /\ LastIsSafe(game)
      /\ game.settled => Newest(game)
      /\ AnswersAreTold
  BY <1>1, GameNow DEF GameInv, GameIndInv
<1>3. CASE answer' = None /\ UNCHANGED <<game, queue, sent>>
  <2>1. queue' \in [Procs -> Seq(ATask)] /\ SavesQueued \subseteq SavesQueued'
    BY <1>3 DEF SavesQueued, GameInv, GameIndInv, HeldIsSent
  <2>2. PICK g \in AGame : g = game
    BY <1>2
  <2> QED
    BY <1>1, <1>2, <1>3, <2>1, <2>2, TurnsMoves
<1>4. CASE /\ game.st = "saving" /\ answer.m = game.last
           /\ answer.result = "ok" /\ Succeeded(answer.score)
  <2>1. Told(game.last, answer.score) /\ game.last # None
    BY <1>1, <1>2, <1>4 DEF AnswersAreTold, GameFits
  <2>2. PICK score \in Nat : score = answer.score
    BY <2>1 DEF Told
  <2> QED
    BY <1>1, <1>4, <2>1, <2>2, SucceededMoves
<1>5. CASE game.st = "saving" /\ answer.result # "ok" /\ Failed(answer.result)
  <2>1. answer.result \in {"pending", "failed", "refused"} /\ game.last # None
    BY <1>1, <1>2, <1>5 DEF AnswersAreTold, Results, GameFits
  <2>2. PICK st \in {"pending", "failed", "refused"} : st = answer.result
    BY <2>1
  <2> QED
    BY <1>1, <1>5, <2>1, <2>2, FailedTurns
<1> QED
  BY <1>3, <1>4, <1>5 DEF Poll

\* A status of the request is of what the game last sent.
LEMMA PollStatusMoves ==
  ASSUME GameBounds, GameInv, PollStatus
  PROVE  GameInv'
<1>1. game # None /\ game.st = "pending" /\ UNCHANGED <<backend, slot, made>>
  BY DEF PollStatus
<1>2. /\ GameFits(game) /\ SentIsOwn /\ AnswersAreTold
  BY <1>1, GameNow DEF GameInv, GameIndInv
<1>3. game.last # None /\ game.last \in sent /\ game.last.req \in Requests
  BY <1>1, <1>2, PayloadFields DEF GameFits, SentIsOwn
<1>4. PICK status : status = Status(game.last.req)
  OBVIOUS
<1>5. CASE status.state = "committed" /\ Succeeded(status.score)
  <2>1. event[game.last.req] # None /\ status = event[game.last.req]
    BY <1>4, <1>5 DEF Status, PollStatus
  <2>2. Told(game.last, status.score)
    BY <1>2, <1>3, <1>5, <2>1 DEF AnswersAreTold, SentIsOwn
  <2>3. PICK score \in Nat : score = status.score
    BY <2>2 DEF Told
  <2> QED
    BY <1>1, <1>3, <1>5, <2>2, <2>3, SucceededMoves
<1>6. CASE Failed("refused")
  BY <1>1, <1>3, <1>6, FailedTurns
<1> QED
  BY <1>4, <1>5, <1>6 DEF PollStatus

LEMMA TaskIsAdded ==
  ASSUME GameBounds, GameInv, NEW task \in ATask,
         queue' = [queue EXCEPT ![Player] = Append(@, task)]
  PROVE  queue' \in [Procs -> Seq(ATask)] /\ SavesQueued \subseteq SavesQueued'
<1>1. PICK q : q = queue[Player]
  OBVIOUS
<1>2. q \in Seq(ATask) /\ queue \in [Procs -> Seq(ATask)] /\ Player \in Procs
  BY <1>1 DEF GameInv, GameIndInv, HeldIsSent, GameBounds
<1>3. Append(q, task) \in Seq(ATask) /\ ToSet(Append(q, task)) = ToSet(q) \cup {task}
  BY <1>2, AppendedSet
<1>4. queue' \in [Procs -> Seq(ATask)] /\ queue'[Player] = Append(q, task)
  BY <1>1, <1>2, <1>3
<1> QED
  BY <1>1, <1>3, <1>4 DEF SavesQueued

\* A game that has just begun has nothing to show.
LEMMA NewGameFits ==
  ASSUME NEW a \in Attempts, NEW g, g = NewGame(a)
  PROVE  /\ g \in AGame /\ ~g.settled /\ g.last = None /\ g.queued = None /\ g.st = "idle"
         /\ GameFits(g) /\ GameFits(g)' /\ Confirmed(g)
<1>1. g \in AGame
  BY DEF NewGame, AGame
<1>2. /\ g.att = a /\ g.settled = FALSE /\ g.confirmed = None /\ g.st = "idle"
      /\ g.last = None /\ g.queued = None /\ g.hint = None
  BY DEF NewGame
<1> QED
  BY <1>1, <1>2 DEF GameFits, Confirmed

\* What failed is sent again in the same words.
LEMMA TryAgainMoves ==
  ASSUME GameBounds, GameInv, TryAgain
  PROVE  GameInv'
<1>1. game # None /\ game.st = "failed" /\ UNCHANGED <<backend, slot, made>> /\ answer' = None
  BY DEF TryAgain
<1>2. /\ game \in AGame /\ Player \in up /\ GameFits(game) /\ LastIsSafe(game)
      /\ game.settled => Newest(game)
      /\ SentIsOwn
  BY <1>1, GameNow
<1>3. PICK m \in sent : m = game.last
  BY <1>1, <1>2 DEF GameFits
<1>4. m \in Payloads /\ m.hint = game.hint /\ game.last # None
  BY <1>1, <1>2, <1>3 DEF GameFits, SentIsOwn
<1>5. [m EXCEPT !.hint = game.hint] = m
  BY <1>4 DEF Payloads
<1>6. /\ game' = Sending(game, m) /\ sent' = sent
      /\ queue' = [queue EXCEPT ![Player] = Append(@, Save(m))]
  <2>1. PICK again : again = [game.last EXCEPT !.hint = game.hint]
    OBVIOUS
  <2>2. /\ game' = Sending(game, again) /\ sent' = sent \cup {again}
        /\ queue' = [queue EXCEPT ![Player] = Append(@, Save(again))]
    BY <2>1 DEF TryAgain
  <2>3. again = m
    BY <1>3, <1>5, <2>1
  <2> QED
    BY <1>3, <2>2, <2>3
<1>7. PICK g \in AGame : g = Sending(game, m)
  <2>1. Sending(game, m) \in AGame
    BY <1>2, <1>4 DEF Sending, AGame
  <2> QED
    BY <2>1
<1>8. /\ g.att = game.att /\ g.score = game.score /\ g.settled = game.settled
      /\ g.confirmed = game.confirmed /\ g.st = "saving" /\ g.last = game.last
      /\ g.queued = game.queued /\ g.hint = game.hint
  BY <1>2, <1>3, <1>7 DEF AGame, Sending
<1>9. GameFits(g) /\ LastIsSafe(g)
  BY <1>1, <1>2, <1>8 DEF GameFits, Confirmed, LastIsSafe
<1>10. g.settled => Newest(g)
  BY <1>2, <1>8 DEF Newest
<1>11. queue' \in [Procs -> Seq(ATask)] /\ SavesQueued \subseteq SavesQueued'
  <2>1. Save(m) \in ATask
    BY <1>3 DEF Save, ATask
  <2> QED
    BY <1>6, <2>1, TaskIsAdded
<1> QED
  BY <1>1, <1>2, <1>6, <1>7, <1>9, <1>10, <1>11, TurnsMoves

\* A new game takes nothing along but what was waiting, which it hands over.
LEMMA ResetMoves ==
  ASSUME GameBounds, GameInv, Reset
  PROVE  GameInv'
<1>1. game # None /\ UNCHANGED <<backend, slot, made>>
  BY DEF Reset
<1>2. /\ game \in AGame /\ Player \in up /\ GameFits(game) /\ SentIsOwn /\ made \in Nat
  BY <1>1, GameNow
<1>3. PICK a \in Attempts :
        Proceed(NewGame(a), IF game.queued = None THEN <<>>
                            ELSE <<Save([game.queued EXCEPT !.hint = game.hint])>>, <<>>)
  BY DEF Reset, Unused
<1>4. PICK g : g = NewGame(a)
  OBVIOUS
<1>5. g \in AGame /\ ~g.settled /\ g.last = None /\ LastIsSafe(g)
  BY <1>4, NewGameFits DEF LastIsSafe
<1>6. GameFits(g) /\ GameFits(g)' /\ Confirmed(g)
  BY <1>4, NewGameFits
<1>7. CASE game.queued = None
  BY <1>1, <1>2, <1>3, <1>4, <1>5, <1>6, <1>7, QuietProceeds
<1>8. CASE game.queued # None
  <2>1. PICK m : m = [game.queued EXCEPT !.hint = game.hint]
    OBVIOUS
  <2>2. game.queued \in Payloads
    BY <1>2, <1>8 DEF AGame
  <2>3. m \in Payloads /\ m.req = game.queued.req /\ m.att = game.queued.att /\ m.hint = game.hint
    BY <1>2, <2>1, <2>2 DEF Payloads, AGame
  <2>4. MoreIsOwn({m})
    BY <1>1, <1>2, <1>8, <2>3 DEF MoreIsOwn, GameFits
  <2>5. Hands(<<Save(m)>>, <<>>, {m}) /\ Proceed(g, <<Save(m)>>, <<>>)
    BY <1>3, <1>4, <1>8, <2>1, HandsOne
  <2>6. made' \in Nat /\ made <= made'
    BY <1>1, <1>2
  <2> QED
    BY <1>1, <1>2, <1>5, <1>6, <2>4, <2>5, <2>6, ProceedMoves
<1> QED
  BY <1>7, <1>8

\* The save point goes to the writer, is written, or written at once.
LEMMA SaveAgainMoves ==
  ASSUME GameBounds, GameInv, SaveAgain
  PROVE  GameInv'
<1>1. /\ game # None /\ UNCHANGED <<backend, slot, made, sent, answer>>
      /\ queue' = [queue EXCEPT ![Player] = Append(@, SlotTask(game))]
      /\ game' = [game EXCEPT !.dirty = FALSE]
  BY DEF SaveAgain
<1>2. /\ game \in AGame /\ Player \in up /\ GameFits(game) /\ LastIsSafe(game)
      /\ game.settled => Newest(game)
  BY <1>1, GameNow
<1>3. PICK g \in AGame : g = [game EXCEPT !.dirty = FALSE]
  <2>1. [game EXCEPT !.dirty = FALSE] \in AGame
    BY <1>2 DEF AGame
  <2> QED
    BY <2>1
<1>4. /\ g.att = game.att /\ g.score = game.score /\ g.settled = game.settled
      /\ g.confirmed = game.confirmed /\ g.st = game.st /\ g.last = game.last
      /\ g.queued = game.queued /\ g.hint = game.hint
  BY <1>2, <1>3 DEF AGame
<1>5. GameFits(g) /\ LastIsSafe(g) /\ (g.settled => Newest(g))
  BY <1>2, <1>4 DEF GameFits, Confirmed, LastIsSafe, Newest
<1>6. SlotTask(game) \in ATask
  BY <1>2, SavePointIsOne DEF GameFits
<1>7. queue' \in [Procs -> Seq(ATask)] /\ SavesQueued \subseteq SavesQueued'
  BY <1>1, <1>6, TaskIsAdded
<1> QED
  BY <1>1, <1>2, <1>3, <1>5, <1>7, TurnsMoves

\* A step that replaces the save point by another one, and may close the game.
LEMMA SlotMoves ==
  ASSUME GameBounds, GameInv, UNCHANGED <<backend, made, sent>>, answer' \in {answer, None},
         game' \in {game, None}, slot' \in ASavePoint, Confirmed(slot'),
         queue' \in [Procs -> Seq(ATask)], SavesQueued \subseteq SavesQueued'
  PROVE  GameInv'
<1>1. /\ rows' = rows /\ up' = up /\ UNCHANGED <<tables, spool, orphans, refused, aside, nondur, job>>
      /\ SentIsOwn /\ GameIsOwn /\ SettledIsNewest
  BY DEF backend, tables, memory, ghosts, GameInv, GameIndInv
<1>2. SentIsOwn'
  BY <1>1 DEF SentIsOwn
<1>3. queue' \in [Procs -> Seq(ATask')]
  BY <1>1, TasksRemain
<1>4. GameIsOwn'
  <2>1. Confirmed(slot)'
    BY <1>1 DEF Confirmed, InRow
  <2>2. game' # None => GameFits(game)'
    BY <1>1 DEF GameIsOwn, GameFits, Confirmed, InRow
  <2> QED
    BY <1>1, <2>1, <2>2 DEF GameIsOwn
<1>5. SettledIsNewest'
  BY <1>1 DEF SettledIsNewest, Newest, Met, InRow, PassedBy
<1>6. game' # None => LastIsSafe(game)'
  BY <1>1 DEF GameInv, GameIndInv, LastIsSafe, Safe, PassedBy, OnItsWay, AtWriter
<1> QED
  BY <1>2, <1>3, <1>4, <1>5, <1>6, GameMoves

LEMMA WriteSlotMoves ==
  ASSUME GameBounds, GameInv, WriteSlot
  PROVE  GameInv'
<1>1. PICK q, first : q = queue[Player] /\ first = Head(q)
  OBVIOUS
<1>2. /\ q # <<>> /\ first.do = "slot" /\ slot' = first.point
      /\ queue' = [queue EXCEPT ![Player] = Tail(q)]
      /\ UNCHANGED <<backend, answer, game, made, sent>>
      /\ q \in Seq(ATask) /\ queue \in [Procs -> Seq(ATask)] /\ Player \in Procs
  BY <1>1 DEF WriteSlot, GameInv, GameIndInv, HeldIsSent, GameBounds
<1>3. first \in ATask /\ Tail(q) \in Seq(ATask) /\ ToSet(q) = {first} \cup ToSet(Tail(q))
  BY <1>1, <1>2, TailSet
<1>4. first.point \in ASavePoint /\ Confirmed(first.point)
  BY <1>2, <1>3 DEF ATask
<1>5. queue' \in [Procs -> Seq(ATask)] /\ queue'[Player] = Tail(q)
  BY <1>2, <1>3
<1>6. SavesQueued \subseteq SavesQueued'
  BY <1>1, <1>2, <1>3, <1>5 DEF SavesQueued
<1> QED
  BY <1>2, <1>4, <1>5, <1>6, SlotMoves

\* Without one of its tasks that is not a save, the queue has the same saves.
LEMMA OneLess ==
  ASSUME NEW S, NEW q \in Seq(S), NEW i \in DOMAIN q
  PROVE  /\ RemoveAt(q, i) \in Seq(S)
         /\ \A task \in ToSet(q) : task = q[i] \/ task \in ToSet(RemoveAt(q, i))
<1>1. /\ Len(q) \in Nat /\ DOMAIN q = 1 .. Len(q) /\ i \in 1 .. Len(q)
      /\ \A k \in 1 .. Len(q) : q[k] \in S
  OBVIOUS
<1>2. PICK u : u = SubSeq(q, 1, i - 1)
  OBVIOUS
<1>3. PICK v : v = SubSeq(q, i + 1, Len(q))
  OBVIOUS
<1>4. /\ u \in Seq(S) /\ Len(u) = i - 1 /\ \A k \in 1 .. (i - 1) : u[k] = q[k]
  <2>1. /\ SubSeq(q, 1, i - 1) \in Seq(S)
        /\ Len(SubSeq(q, 1, i - 1)) = IF 1 <= i - 1 THEN (i - 1) - 1 + 1 ELSE 0
        /\ \A k \in 1 .. ((i - 1) - 1 + 1) : SubSeq(q, 1, i - 1)[k] = q[1 + k - 1]
    BY <1>1, SubSeqProperties
  <2> QED
    BY <1>1, <1>2, <2>1
<1>5. /\ v \in Seq(S) /\ Len(v) = Len(q) - i
      /\ \A k \in 1 .. (Len(q) - i) : v[k] = q[i + k]
  <2>1. /\ SubSeq(q, i + 1, Len(q)) \in Seq(S)
        /\ Len(SubSeq(q, i + 1, Len(q))) = IF i + 1 <= Len(q) THEN Len(q) - (i + 1) + 1 ELSE 0
        /\ \A k \in 1 .. (Len(q) - (i + 1) + 1) : SubSeq(q, i + 1, Len(q))[k] = q[(i + 1) + k - 1]
    BY <1>1, SubSeqProperties
  <2> QED
    BY <1>1, <1>3, <2>1
<1>6. RemoveAt(q, i) = u \o v
  BY <1>2, <1>3 DEF RemoveAt
<1>7. u \o v \in Seq(S) /\ ToSet(u \o v) = ToSet(u) \cup ToSet(v)
  BY <1>4, <1>5, JoinedSet
<1>8. ASSUME NEW task \in ToSet(q), task # q[i]
      PROVE  task \in ToSet(u) \cup ToSet(v)
  <2>1. PICK k \in 1 .. Len(q) : task = q[k]
    BY <1>1 DEF ToSet
  <2>2. DOMAIN u = 1 .. (i - 1) /\ DOMAIN v = 1 .. (Len(q) - i)
    BY <1>1, <1>4, <1>5
  <2>3. CASE k < i
    BY <1>1, <1>4, <2>1, <2>2, <2>3 DEF ToSet
  <2>4. CASE k > i
    <3>1. k - i \in 1 .. (Len(q) - i) /\ i + (k - i) = k
      BY <1>1, <2>4
    <3>2. v[k - i] = q[k]
      BY <1>5, <3>1
    <3> QED
      BY <2>1, <2>2, <3>1, <3>2 DEF ToSet
  <2> QED
    BY <1>1, <1>8, <2>1, <2>3, <2>4
<1> QED
  BY <1>6, <1>7, <1>8

\* A game that is left takes its save point out of the queue and writes it.
LEMMA LeaveMoves ==
  ASSUME GameBounds, GameInv, Leave
  PROVE  GameInv'
<1>1. game # None /\ game' = None /\ UNCHANGED <<backend, made, sent>> /\ answer' = None
  BY DEF Leave
<1>2. slot' \in ASavePoint /\ Confirmed(slot')
  BY <1>1, GameNow, SavePointIsOne DEF Leave, GameFits
<1>3. PICK q : q = queue[Player]
  OBVIOUS
<1>4. q \in Seq(ATask) /\ queue \in [Procs -> Seq(ATask)] /\ Player \in Procs
  BY <1>3 DEF GameInv, GameIndInv, HeldIsSent, GameBounds
<1>5. queue' \in [Procs -> Seq(ATask)] /\ SavesQueued \subseteq SavesQueued'
  <2>1. CASE ~SlotIsQueued
    <3>1. queue' = queue
      BY <1>4, <2>1 DEF Leave
    <3> QED
      BY <1>4, <3>1 DEF SavesQueued
  <2>2. CASE SlotIsQueued
    <3>1. PICK i \in SlotsQueued : i = CHOOSE k \in SlotsQueued : TRUE
      BY <2>2 DEF SlotIsQueued
    <3>2. i \in DOMAIN q /\ q[i].do = "slot"
      BY <1>3, <3>1 DEF SlotsQueued
    <3>3. PICK s : s = RemoveAt(q, i)
      OBVIOUS
    <3>4. s \in Seq(ATask) /\ \A task \in ToSet(q) : task = q[i] \/ task \in ToSet(s)
      BY <1>4, <3>2, <3>3, OneLess
    <3>5. queue' = [queue EXCEPT ![Player] = s]
      BY <1>3, <2>2, <3>1, <3>3 DEF Leave
    <3>6. queue' \in [Procs -> Seq(ATask)] /\ queue'[Player] = s
      BY <1>4, <3>4, <3>5
    <3> QED
      BY <1>3, <3>2, <3>4, <3>6 DEF SavesQueued
  <2> QED
    BY <2>1, <2>2
<1> QED
  BY <1>1, <1>2, <1>5, SlotMoves

\* A game begins, or goes on from its save point.
LEMMA OpenMoves ==
  ASSUME GameBounds, GameInv, Open
  PROVE  GameInv'
<1>1. Player \in up /\ UNCHANGED <<backend, slot>>
  BY DEF Open
<1>2. ASSUME NEW a \in Attempts, Proceed(NewGame(a), <<>>, <<>>), UNCHANGED made
      PROVE  GameInv'
  <2>1. PICK g : g = NewGame(a)
    OBVIOUS
  <2>2. g \in AGame /\ ~g.settled /\ g.last = None /\ GameFits(g)
    BY <2>1, NewGameFits
  <2> QED
    BY <1>1, <1>2, <2>1, <2>2, QuietProceeds DEF LastIsSafe
<1>3. CASE slot # None
  <2>1. slot \in ASavePoint /\ Confirmed(slot)
    BY <1>3 DEF GameInv, GameIndInv, GameIsOwn
  <2>2. PICK g : g = [NewGame(slot.att) EXCEPT
                        !.rev = slot.rev, !.score = slot.score,
                        !.settled = slot.settled, !.confirmed = slot.confirmed]
    OBVIOUS
  <2>3. /\ g \in AGame /\ g.att = slot.att /\ g.score = slot.score /\ g.settled = slot.settled
        /\ g.confirmed = slot.confirmed /\ g.st = "idle" /\ g.last = None
        /\ g.queued = None /\ g.hint = None
    BY <2>1, <2>2 DEF NewGame, AGame, ASavePoint
  <2>4. GameFits(g) /\ LastIsSafe(g)
    BY <2>1, <2>3 DEF GameFits, Confirmed, LastIsSafe
  <2>5. CASE SaveThenSubmit(g)
    BY <1>1, <2>3, <2>4, <2>5, SaveThenSubmitMoves
  <2>6. CASE /\ ~(g.settled /\ (g.confirmed = None \/ g.confirmed < g.score))
             /\ Proceed(g, <<>>, <<>>) /\ UNCHANGED made
    <3>1. g.settled => Newest(g)
      <4> SUFFICES ASSUME g.settled
                   PROVE  InRow(g.att, g.score)
        BY <2>3 DEF Newest, Met
      <4>1. g.confirmed \in Nat /\ g.score \in Nat /\ g.att \in Attempts /\ g.confirmed >= g.score
        BY <2>3, <2>6 DEF AGame
      <4>2. rows[g.att] # None /\ rows[g.att].score >= g.confirmed
        BY <2>4, <2>6 DEF GameFits, Confirmed, InRow
      <4>3. rows[g.att].score \in Nat
        BY <4>1, <4>2, RowsAreTyped
      <4> QED
        BY <4>1, <4>2, <4>3 DEF InRow
    <3> QED
      BY <1>1, <2>3, <2>4, <2>6, <3>1, QuietProceeds
  <2> QED
    BY <1>3, <2>2, <2>5, <2>6 DEF Open
<1> QED
  BY <1>2, <1>3 DEF Open, Unused

-----------------------------------------------------------------------------
LEMMA GameInvInit ==
  ASSUME GameBounds, GameInit
  PROVE  GameInv
<1>1. game = None /\ slot = None /\ made = 0 /\ sent = {} /\ OutboxInit /\ Player \in Procs
  BY DEF GameInit, GameBounds
<1>2. TablesTyped /\ \A r \in Requests : receipts[r] = None
  BY <1>1 DEF OutboxInit, TablesInit, TablesTyped
<1>3. SentIsOwn
  BY <1>1 DEF SentIsOwn
<1>4. HeldIsSent
  <2>1. {} \in SUBSET published /\ {} \in SUBSET sent /\ <<>> \in Seq(ATask)
    OBVIOUS
  <2> QED
    BY <1>1, <2>1 DEF OutboxInit, HeldIsSent
<1>5. JobIsOfSent
  BY <1>1 DEF OutboxInit, JobIsOfSent, JobFits, Idle
<1>6. AnswersAreTold
  BY <1>1, <1>2 DEF OutboxInit, AnswersAreTold
<1>7. \A m \in published : Safe(m)
  BY <1>1 DEF OutboxInit
<1> QED
  BY <1>1, <1>2, <1>3, <1>4, <1>5, <1>6, <1>7
     DEF GameInv, GameIndInv, GameIsOwn, SettledIsNewest

LEMMA StutterMoves ==
  ASSUME GameBounds, GameInv, UNCHANGED playVars
  PROVE  GameInv'
<1>1. UNCHANGED <<gameVars, tables, spool, orphans, ghosts, answer, nondur, up, event,
                  pend, queue, job>>
  BY DEF playVars, outboxVars, memory
<1>2. /\ pend' \in [Procs -> SUBSET published] /\ queue' \in [Procs -> Seq(ATask)]
      /\ SavesQueued \subseteq SavesQueued'
  BY <1>1 DEF GameInv, GameIndInv, HeldIsSent, SavesQueued
<1> QED
  BY <1>1, <1>2, QuietMoves

\* Every state of a game has what it sent, waits for and shows in order with the
\* table, the spool and the writer.
THEOREM GameInductive ==
  ASSUME GameBounds
  PROVE  GameSpec => []GameInv
<1>1. GameInit => GameInv
  BY GameInvInit
<1>2. GameInv /\ [GameNext]_playVars => GameInv'
  <2> SUFFICES ASSUME GameInv, [GameNext]_playVars
               PROVE  GameInv'
    OBVIOUS
  <2>1. CASE UNCHANGED playVars
    BY <2>1, StutterMoves
  <2>2. CASE GameStep
    BY <2>2, SettleMoves, MoveIsBlockedMoves, ContinueMoves, PollMoves, PollStatusMoves,
       RefreshMoves, TryAgainMoves, ResetMoves, SaveAgainMoves, WriteSlotMoves, LeaveMoves, OpenMoves
       DEF GameStep
  <2>3. CASE BackendStep
    <3>1. UNCHANGED gameVars
      BY <2>3 DEF BackendStep
    <3>2. CASE Work(Player)
      BY <3>1, <3>2, StartSaveMoves, StartRetryMoves, RetryFreshMoves, RecordSpooledMoves,
         UnlinkMoves, DropMoves DEF Work
    <3>3. CASE Scan(Player) \/ Start(Player)
      BY <3>1, <3>3, ScanMoves, StartMoves
    <3> QED
      BY <2>3, <3>2, <3>3 DEF BackendStep
  <2>4. CASE DieWithGame
    BY <2>4, DieMoves
  <2> QED
    BY <2>1, <2>2, <2>3, <2>4 DEF GameNext
<1> QED
  BY <1>1, <1>2, PTL DEF GameSpec

\* A mutation the table has passed is recorded, or was overtaken.
LEMMA PassedIsKept ==
  ASSUME GameInv, NEW m \in Payloads, PassedBy(m)
  PROVE  Recorded(m) \/ Overtaken(m)
<1>1. m.att \in Attempts /\ m.score \in Nat
  BY DEF Payloads
<1>2. rows[m.att].score \in Nat
  BY <1>1, RowsAreTyped DEF PassedBy
<1> QED
  BY <1>1, <1>2 DEF PassedBy, Recorded, Overtaken

LEMMA SafeIsKept ==
  ASSUME GameInv, NEW m \in sent, Safe(m)
  PROVE  Kept(m) \/ Overtaken(m)
<1>1. m \in Payloads
  BY DEF GameInv, GameIndInv, SentIsOwn
<1> QED
  BY <1>1, PassedIsKept DEF Safe, Kept

LEMMA MetIsInRow ==
  ASSUME GameInv, NEW a, NEW score, Met(a, score)
  PROVE  InRow(a, score) \/ Forked(a)
<1>1. ASSUME NEW m \in sent, m.att = a, m.score = score, PassedBy(m)
      PROVE  InRow(a, score) \/ Forked(a)
  <2>1. Recorded(m) \/ Overtaken(m)
    BY <1>1, PassedIsKept DEF GameInv, GameIndInv, SentIsOwn
  <2> QED
    BY <1>1, <2>1 DEF Recorded, InRow, Forked
<1> QED
  BY <1>1 DEF Met

\* A score the board settled at is recorded, kept, on its way or waiting in the
\* game, through any faults, deaths, repeats and restored games.
THEOREM ScoresStay ==
  ASSUME GameBounds
  PROVE  GameSpec => []SettledIsKept
<1>1. GameInv => SettledIsKept
  <2> SUFFICES ASSUME GameInv, game # None, game.settled
               PROVE  SettledIsKept
    BY DEF SettledIsKept
  <2>1. /\ Newest(game) /\ LastIsSafe(game) /\ GameFits(game)
    BY DEF GameInv, GameIndInv, GameIsOwn, SettledIsNewest
  <2>2. CASE Met(game.att, game.score)
    BY <2>2, MetIsInRow DEF SettledIsKept
  <2>3. CASE game.last # None /\ game.last.score = game.score
    <3>1. PICK m \in sent : m = game.last /\ m.att = game.att /\ m.score = game.score
      BY <2>1, <2>3 DEF GameFits
    <3>2. Kept(m) \/ Overtaken(m) \/ m \in OnItsWay
      BY <2>1, <2>3, <3>1, SafeIsKept DEF LastIsSafe
    <3> QED
      BY <3>1, <3>2 DEF SettledIsKept, Forked
  <2> QED
    BY <2>1, <2>2, <2>3 DEF Newest, SettledIsKept
<1> QED
  BY <1>1, GameInductive, PTL

\* What a game or its save point takes for confirmed is in the table, and so is
\* a settled score that is shown as saved.
THEOREM ConfirmedStays ==
  ASSUME GameBounds
  PROVE  GameSpec => []ConfirmedIsRecorded
<1>1. GameInv => ConfirmedIsRecorded
  <2> SUFFICES ASSUME GameInv
               PROVE  ConfirmedIsRecorded
    OBVIOUS
  <2>1. game # None /\ game.settled /\ game.st = "saved" =>
          InRow(game.att, game.score) \/ Forked(game.att)
    BY MetIsInRow DEF GameInv, GameIndInv, SettledIsNewest, Newest
  <2> QED
    BY <2>1 DEF GameInv, GameIndInv, GameIsOwn, GameFits, Confirmed, ConfirmedIsRecorded
<1> QED
  BY <1>1, GameInductive, PTL

\* What a game had journaled is recorded, in its journal, refused or put aside,
\* unless a restored game used its revision again for a better score.
THEOREM JournalsOfGamesStay ==
  ASSUME GameBounds
  PROVE  GameSpec => []DurableIsKept
<1>1. GameInv => DurableIsKept
  <2> SUFFICES ASSUME GameInv, NEW m \in published
               PROVE  Kept(m) \/ Overtaken(m)
    BY DEF DurableIsKept
  <2>1. m \in sent /\ Safe(m)
    BY DEF GameInv, GameIndInv, HeldIsSent
  <2> QED
    BY <2>1, SafeIsKept
<1> QED
  BY <1>1, GameInductive, PTL

=============================================================================
