----------------------------- MODULE ScoreOutbox -----------------------------
(***************************************************************************)
(* The path of a score through the local backend: a writer thread journals *)
(* a mutation in the shared spool, records it, and unlinks the journal; a  *)
(* reader thread finds what is left in the spool, of this process or of    *)
(* another, and has the writer try again.  Steps fail and processes die.   *)
(***************************************************************************)
EXTENDS ScoreTables, Sequences, SequencesExt, FiniteSets

CONSTANTS
  Procs,       \* launchers that share the data directory; requests are 1, 2, ...
  Player,      \* the one in which a game is played (ScoreGame)
  Garbled,     \* what a file that cannot be parsed holds
  MaxTroubles, MaxRequests

VARIABLES
  spool,                \* pending/<request>.json
  orphans,              \* complete temporary files of dead writers
  up,                   \* the processes that run
  pend, nondur,         \* _pending_envelopes and _non_durable of a process
  retrying,             \* _retrying: requests of a scheduled replay
  queue, job,           \* the writer's tasks, and the one it is at
  scan,                 \* what the reader has listed and not yet used
  event,                \* _save_status of the player's process
  answer,               \* the result of the game's future, or None
  published, refused, aside,  \* history: journals published, refused, put aside
  troubles              \* bound: faults and deaths so far

memory == <<pend, nondur, retrying, scan, event>>
ghosts == <<published, refused, aside>>
outboxVars == <<tables, spool, orphans, up, memory, queue, job, answer, ghosts, troubles>>

Idle == [at |-> "idle"]
Save(m) == [do |-> "save", m |-> m]
RetryAll(requests) == [do |-> "retry", reqs |-> requests]
RequestsOf(ms) == {m.req : m \in ms}
ForRequest(ms, r) == {m \in ms : m.req = r}
Journals == {spool[r] : r \in {q \in Requests : spool[q] \notin {None, Garbled}}}

OutboxInit ==
  /\ TablesInit
  /\ spool = [r \in Requests |-> None] /\ orphans = {}
  /\ up = Procs
  /\ pend = [p \in Procs |-> {}] /\ nondur = [p \in Procs |-> {}]
  /\ retrying = [p \in Procs |-> {}] /\ scan = [p \in Procs |-> None]
  /\ event = [r \in Requests |-> None]
  /\ queue = [p \in Procs |-> <<>>] /\ job = [p \in Procs |-> Idle]
  /\ answer = None
  /\ published = {} /\ refused = {} /\ aside = {}
  /\ troubles = 0

Fault == troubles < MaxTroubles /\ troubles' = troubles + 1

\* _emit_save_event: the state of a save, and the score of a committed one, kept
\* for the game that asks.
Emit(p, m, state, score) ==
  event' = IF p = Player THEN [event EXCEPT ![m.req] = [state |-> state, score |-> score]]
           ELSE event

MarkSpooled(p, m) ==
  /\ pend' = [pend EXCEPT ![p] = @ \cup {m}]
  /\ nondur' = [nondur EXCEPT ![p] = @ \ ForRequest(@, m.req)]

Forget(p, m) ==
  /\ pend' = [pend EXCEPT ![p] = @ \ ForRequest(@, m.req)]
  /\ nondur' = [nondur EXCEPT ![p] = @ \ ForRequest(@, m.req)]

\* A submission has a future and no replay; a replay has the requests it was
\* scheduled for, and what is left of its snapshot.
Submission == [replay |-> None, todo |-> {}]
At(step, m, durable, of) ==
  [at |-> step, m |-> m, durable |-> durable, replay |-> of.replay, todo |-> of.todo, score |-> 0]

EndReplay(p, of, reqs) ==
  /\ job' = [job EXCEPT ![p] = Idle]
  /\ retrying' = [retrying EXCEPT ![p] = @ \ (of.replay \cup reqs)]
  /\ UNCHANGED answer

\* The writer is done with a mutation: its future is answered, or the replay
\* goes on.  "reqs" are no longer pending.
Done(p, m, of, result, score, reqs) ==
  IF of.replay = None
  THEN /\ job' = [job EXCEPT ![p] = Idle]
       /\ retrying' = [retrying EXCEPT ![p] = @ \ reqs]
       /\ answer' = IF p = Player THEN [m |-> m, result |-> result, score |-> score]
                    ELSE answer
  ELSE IF of.todo = {} THEN EndReplay(p, of, reqs)
  ELSE /\ job' = [job EXCEPT ![p] = [at |-> "next", replay |-> of.replay, todo |-> of.todo]]
       /\ retrying' = [retrying EXCEPT ![p] = @ \ reqs]
       /\ UNCHANGED answer

-----------------------------------------------------------------------------
\* The exception of a submission: what is not in the spool is kept in memory.
KeepAfterException(p, m) ==
  IF spool[m.req] = m
  THEN /\ pend' = [pend EXCEPT ![p] = @ \cup {m}] /\ UNCHANGED nondur
       /\ Emit(p, m, "pending", 0)
  ELSE /\ nondur' = [nondur EXCEPT ![p] = @ \cup {m}] /\ UNCHANGED pend
       /\ Emit(p, m, "not_durable", 0)

Publish(p, m, of) ==
  /\ spool' = [spool EXCEPT ![m.req] = m]
  /\ published' = published \cup {m}
  /\ MarkSpooled(p, m)
  /\ job' = [job EXCEPT ![p] = At("record", m, TRUE, of)]
  /\ UNCHANGED <<retrying, event, answer, refused, aside>>

\* The answer is the spool's, and nothing else is done.
Rejected(p, m, of) ==
  /\ Done(p, m, of, "refused", 0, {})
  /\ UNCHANGED <<spool, pend, nondur, event, ghosts>>

NotSpooled(p, m, of) ==
  /\ job' = [job EXCEPT ![p] = At("record", m, FALSE, of)]
  /\ UNCHANGED <<spool, pend, nondur, retrying, event, answer, ghosts>>

\* add_mutation: an existing journal of the request must be of this payload; a
\* garbled one is put aside first.
SpoolFor(p, m, of) ==
  LET existing == spool[m.req]
  IN \/ existing \in {None, Garbled, m} /\ Publish(p, m, of) /\ UNCHANGED troubles
     \/ existing \notin {None, Garbled, m} /\ Rejected(p, m, of) /\ UNCHANGED troubles
     \/ Fault /\ NotSpooled(p, m, of)
     \/ Fault /\ existing = Garbled /\ Rejected(p, m, of)

\* The next task is a submission; it fails before it begins when the maintenance
\* lock is not had in time.
StartSave(p) ==
  /\ job[p] = Idle /\ queue[p] # <<>> /\ Head(queue[p]).do = "save"
  /\ queue' = [queue EXCEPT ![p] = Tail(@)]
  /\ LET m == Head(queue[p]).m
     IN \/ SpoolFor(p, m, Submission)
        \/ /\ Fault
           /\ KeepAfterException(p, m)
           /\ Done(p, m, Submission, "failed", 0, {})
           /\ UNCHANGED <<spool, ghosts>>
  /\ UNCHANGED <<tables, orphans, up, scan>>

\* _retry_all: a snapshot of what is pending, then what is only in memory.
StartRetry(p) ==
  /\ job[p] = Idle /\ queue[p] # <<>> /\ Head(queue[p]).do = "retry"
  /\ queue' = [queue EXCEPT ![p] = Tail(@)]
  /\ LET of == [replay |-> Head(queue[p]).reqs,
                todo |-> {[m |-> m, fresh |-> FALSE] : m \in pend[p]}
                         \cup {[m |-> m, fresh |-> TRUE] : m \in nondur[p]}]
     IN IF of.todo = {} THEN EndReplay(p, of, {})
        ELSE /\ job' = [job EXCEPT ![p] = [at |-> "next", replay |-> of.replay,
                                            todo |-> of.todo]]
             /\ UNCHANGED <<retrying, answer>>
  /\ UNCHANGED <<tables, spool, orphans, up, pend, nondur, scan, event, ghosts, troubles>>

Rest(p, item) == [replay |-> job[p].replay, todo |-> job[p].todo \ {item}]

\* What was only in memory is journaled first, like a submission.
RetryFresh(p) ==
  /\ job[p].at = "next"
  /\ \E item \in job[p].todo :
       /\ \A other \in job[p].todo : other.fresh
       /\ SpoolFor(p, item.m, Rest(p, item))
  /\ UNCHANGED <<tables, orphans, up, scan, queue>>

-----------------------------------------------------------------------------
KeepInMemory(p, m, of) ==
  /\ nondur' = [nondur EXCEPT ![p] = @ \cup {m}]
  /\ Emit(p, m, "recovery", 0)
  /\ Done(p, m, of, "failed", 0, {})
  /\ UNCHANGED <<spool, pend, ghosts>>

\* _replay stops at a failure that will be tried again.
Stopped(of) == [of EXCEPT !.todo = {item \in @ : item.fresh}]

\* The database cannot be written now.
Busy(p, m, durable, of) ==
  IF ~durable THEN KeepInMemory(p, m, of)
  ELSE /\ Emit(p, m, "pending", 0)
       /\ Done(p, m, Stopped(of), "pending", 0, {})
       /\ UNCHANGED <<spool, pend, nondur, ghosts>>

\* The database is not usable: the journal is put aside for a person to look at.
Unusable(p, m, durable, of) ==
  IF ~durable THEN KeepInMemory(p, m, of)
  ELSE /\ IF spool[m.req] = None
          THEN Emit(p, m, "pending", 0) /\ UNCHANGED <<spool, pend, aside>>
          ELSE /\ spool' = [spool EXCEPT ![m.req] = None]
               /\ aside' = aside \cup ({spool[m.req]} \ {Garbled})
               /\ pend' = [pend EXCEPT ![p] = @ \ ForRequest(@, m.req)]
               /\ Emit(p, m, "aside", 0)
       /\ Done(p, m, of, "pending", 0, {})
       /\ UNCHANGED <<nondur, published, refused>>

\* The store answers.
Answered(p, m, durable, of) ==
  LET reply == Record(rows, receipts, m)
      ok == reply.answer \notin Refusals
  IN /\ Commits(reply)
     /\ refused' = IF ok THEN refused ELSE refused \cup {m}
     /\ job' = [job EXCEPT ![p] = [At(IF ok THEN "unlink" ELSE "drop", m, durable, of)
                                   EXCEPT !.score = reply.score]]
     /\ UNCHANGED <<spool, pend, nondur, retrying, event, answer, published, aside>>

\* A slip: trouble with the database ends the request like a refusal.
ApplyOrDrop(p, m, durable, of) ==
  \/ Answered(p, m, durable, of) /\ UNCHANGED troubles
  \/ /\ Fault /\ job' = [job EXCEPT ![p] = At("drop", m, durable, of)]
     /\ UNCHANGED <<tables, spool, pend, nondur, retrying, event, answer, ghosts>>

Apply(p, m, durable, of) ==
  \/ Answered(p, m, durable, of) /\ UNCHANGED troubles
  \/ Fault /\ Busy(p, m, durable, of) /\ UNCHANGED tables
  \/ Fault /\ Unusable(p, m, durable, of) /\ UNCHANGED tables

\* The spooled mutation is recorded; a replay begins here with what was pending.
RecordSpooled(p) ==
  /\ \/ /\ job[p].at = "record"
        /\ Apply(p, job[p].m, job[p].durable, job[p])
     \/ /\ job[p].at = "next"
        /\ \E item \in job[p].todo :
             ~item.fresh /\ Apply(p, item.m, TRUE, Rest(p, item))
  /\ UNCHANGED <<orphans, up, scan, queue>>

\* remove: by request, whatever the journal holds.
Removed(m) == spool' = [spool EXCEPT ![m.req] = None]

\* It is recorded.  A journal that cannot be removed stays, and is recorded again.
Unlink(p) ==
  /\ job[p].at = "unlink"
  /\ LET m == job[p].m
     IN /\ (Removed(m) /\ UNCHANGED troubles) \/ (Fault /\ UNCHANGED spool)
        /\ Forget(p, m)
        /\ Emit(p, m, "committed", job[p].score)
        /\ Done(p, m, job[p], "ok", job[p].score, {m.req})
  /\ UNCHANGED <<tables, orphans, up, scan, queue, ghosts>>

\* The store refuses it for good.  Removing the journal may fail, or not even
\* get the lock; then a replay is over.
Drop(p) ==
  /\ job[p].at = "drop"
  /\ LET m == job[p].m
     IN \/ /\ \/ job[p].durable /\ Removed(m) /\ UNCHANGED troubles
              \/ ~job[p].durable /\ UNCHANGED <<spool, troubles>>
              \/ job[p].durable /\ Fault /\ UNCHANGED spool
           /\ Forget(p, m)
           /\ Emit(p, m, "refused", 0)
           /\ Done(p, m, job[p], "refused", 0, {m.req})
        \/ /\ job[p].durable /\ job[p].replay = None /\ Fault
           /\ KeepAfterException(p, m)
           /\ Done(p, m, job[p], "failed", 0, {})
           /\ UNCHANGED spool
        \/ /\ job[p].durable /\ job[p].replay # None /\ Fault
           /\ EndReplay(p, job[p], {})
           /\ UNCHANGED <<spool, pend, nondur, event>>
  /\ UNCHANGED <<tables, orphans, up, scan, queue, ghosts>>

-----------------------------------------------------------------------------
Ungarbled == [r \in Requests |-> IF spool[r] = Garbled THEN None ELSE spool[r]]

\* list_envelopes: garbled files are put aside.
ScanList(p) ==
  /\ p \in up /\ scan[p] = None
  /\ scan' = [scan EXCEPT ![p] = Journals]
  /\ spool' = Ungarbled
  /\ UNCHANGED <<tables, orphans, up, pend, nondur, retrying, event, queue, job,
                 answer, ghosts, troubles>>

\* What was listed joins what is pending, although it may be recorded by now.
Schedule(p, listed) ==
  LET candidates == RequestsOf(pend[p] \cup listed \cup nondur[p]) \ retrying[p]
  IN /\ pend' = [pend EXCEPT ![p] = @ \cup listed]
     /\ IF candidates = {} THEN UNCHANGED <<retrying, queue>>
        ELSE /\ retrying' = [retrying EXCEPT ![p] = @ \cup candidates]
             /\ queue' = [queue EXCEPT ![p] = Append(@, RetryAll(candidates))]
     /\ UNCHANGED <<tables, orphans, up, nondur, event, job, answer, ghosts, troubles>>

ScanUse(p) ==
  /\ scan[p] # None /\ scan' = [scan EXCEPT ![p] = None]
  /\ Schedule(p, scan[p]) /\ UNCHANGED spool

\* The same where nothing comes between the two steps.
Scan(p) ==
  /\ p \in up /\ spool' = Ungarbled /\ Schedule(p, Journals) /\ UNCHANGED scan

\* _refresh_save_status: a receipt that can be read overrides the state.
RefreshStatus(r) ==
  /\ receipts[r] # None /\ receipts[r].good
  /\ event' = [event EXCEPT ![r] = [state |-> "committed", score |-> receipts[r].score]]
  /\ UNCHANGED <<tables, spool, orphans, up, pend, nondur, retrying, scan, queue, job,
                 answer, ghosts, troubles>>

\* get_save_status: the last event, or what memory holds.
Status(r) ==
  IF event[r] # None THEN event[r]
  ELSE IF ForRequest(pend[Player], r) # {} THEN [state |-> "pending", score |-> 0]
  ELSE IF ForRequest(nondur[Player], r) # {} THEN [state |-> "recovery", score |-> 0]
  ELSE None

-----------------------------------------------------------------------------
\* Receipts expire and are damaged, files are garbled.
Wear ==
  /\ Fault
  /\ \E r \in Requests :
       \/ /\ receipts[r] # None
          /\ receipts' \in {Expired(receipts, r), Damaged(receipts, r)}
          /\ UNCHANGED <<spool, aside>>
       \/ /\ spool[r] \notin {None, Garbled}
          /\ spool' = [spool EXCEPT ![r] = Garbled]
          /\ aside' = aside \cup {spool[r]} /\ UNCHANGED receipts
  /\ UNCHANGED <<rows, orphans, up, memory, queue, job, answer, published, refused>>

\* What a writer is about to journal.
BeingSpooled(p) ==
  IF job[p] = Idle /\ queue[p] # <<>> /\ Head(queue[p]).do = "save" THEN {Head(queue[p]).m}
  ELSE IF job[p].at = "next" THEN {item.m : item \in {i \in job[p].todo : i.fresh}}
  ELSE {}

\* A process dies: memory is gone; a temporary file may be left behind.
Die(p) ==
  /\ p \in up /\ Fault
  /\ up' = up \ {p}
  /\ pend' = [pend EXCEPT ![p] = {}] /\ nondur' = [nondur EXCEPT ![p] = {}]
  /\ retrying' = [retrying EXCEPT ![p] = {}] /\ scan' = [scan EXCEPT ![p] = None]
  /\ event' = IF p = Player THEN [r \in Requests |-> None] ELSE event
  /\ queue' = [queue EXCEPT ![p] = <<>>] /\ job' = [job EXCEPT ![p] = Idle]
  /\ orphans' \in {orphans} \cup {orphans \cup {m} : m \in BeingSpooled(p)}
  /\ answer' = IF p = Player THEN None ELSE answer
  /\ UNCHANGED <<tables, spool, ghosts>>

\* _recover_orphan_temps: a whole temporary file becomes the journal, unless
\* there is one.
Start(p) ==
  /\ p \notin up /\ up' = up \cup {p}
  /\ LET promoted == {m \in orphans : spool[m.req] \in {None, Garbled}}
     IN /\ spool' = [r \in Requests |->
             IF ForRequest(promoted, r) # {} THEN CHOOSE m \in promoted : m.req = r
             ELSE spool[r]]
        /\ published' = published \cup promoted
        /\ aside' = aside \cup {m \in orphans : spool[m.req] \notin {None, Garbled, m}}
  /\ orphans' = {}
  /\ UNCHANGED <<tables, memory, queue, job, answer, refused, troubles>>

Work(p) == \/ StartSave(p) \/ StartRetry(p) \/ RetryFresh(p) \/ RecordSpooled(p)
           \/ Unlink(p) \/ Drop(p)

-----------------------------------------------------------------------------
Recorded(m) ==
  /\ rows[m.att] # None
  /\ rows[m.att].rev >= m.rev /\ rows[m.att].score >= m.score

Kept(m) ==
  Recorded(m) \/ spool[m.req] = m \/ m \in orphans \/ m \in refused \cup aside

\* A game restored from behind its own submissions uses their revisions again:
\* the table has passed the revision of a better score.
Overtaken(m) ==
  rows[m.att] # None /\ rows[m.att].rev >= m.rev /\ rows[m.att].score < m.score

\* A score that was journaled is recorded, still in its journal, refused by the
\* store, or put aside, whoever replays, unlinks or dies meanwhile.  Only a game
\* with two histories of one attempt can lose one.
DurableIsKept == \A m \in published : Kept(m) \/ Overtaken(m)

=============================================================================
