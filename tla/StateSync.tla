----------------------------- MODULE StateSync -----------------------------
(***************************************************************************)
(* How a write of one key of local state becomes durable: several game     *)
(* processes share a journal file per key (PersistentStateOutbox) and the  *)
(* database (StateApply).  Each process has one writer thread that takes   *)
(* the submitted operations in order, allocates a revision from the clock  *)
(* file, publishes the journal, applies it to the database and removes it  *)
(* again, and that replays what it finds when it is told to retry.         *)
(*                                                                         *)
(* A journal that replaces another is preceded by a marker holding the one *)
(* replaced, so that a refusal by the database can restore it.  The steps  *)
(* from "replace" on in Holding are taken under the key's file lock, which *)
(* the operating system releases when the holder dies.                     *)
(*                                                                         *)
(* An operation's value is its own id, so a value shows whose contributions*)
(* are in it.                                                              *)
(***************************************************************************)
EXTENDS StateApply, Sequences

CONSTANTS
  Procs,       \* the game processes
  Launchers,   \* those that show the launcher's menu time and again
  Methods,     \* what users do: subset of {"set", "merge"}
  Intents,     \* whether a game also publishes journals itself: BOOLEAN
  Readings,    \* what the wall clock may read, at any time and in any order
  MaxOps,      \* bound on the operations users make
  MaxFaults,   \* bound on failing system calls, busy databases, lock timeouts
  MaxCrashes   \* bound on processes that die (and are started again)

VARIABLES
  journal,     \* the operation in the journal file of the key, or NoOp
  markers,     \* the reject markers beside it
  clock,       \* the revision in the clock file
  db,          \* the rows of the key
  queue,       \* per process: operations submitted to its writer, and whether
               \* they still need a revision (_unpublished_state)
  task,        \* per process: what its writer is doing
  held,        \* per process: _non_durable_state, an operation only in memory
  lastRev,     \* per process: _last_state_revision
  count,       \* operations submitted so far
  faults, crashes,
  published,   \* history: operations that reached the journal or the database
  promised     \* history, per process: operations the user was told are kept
               \* for a retry although they are in no file

files == <<journal, markers, clock, db>>
memory == <<queue, task, held, lastRev>>
bounds == <<count, faults, crashes>>
vars == <<files, memory, bounds, published, promised>>

Idle == [step |-> "idle", op |-> NoOp, prev |-> NoOp,
         journaled |-> FALSE, replay |-> FALSE]

\* _reject_marker_path and the contents of a reject transaction.
Marker(phase, inc, prev) == [phase |-> phase, inc |-> inc, prev |-> prev]

Steps == {"down", "idle", "put", "replace", "apply", "clean", "sweep",
          "reject", "drop", "restore", "unmark"}
Holding == {"replace", "sweep", "drop", "restore", "unmark"}

TypeOK ==
  /\ journal \in Operation \cup {NoOp}
  /\ markers \subseteq [phase : {"prepared", "rejected"}, inc : Operation,
                        prev : Operation \cup {NoOp}]
  /\ clock \in Nat /\ db \in Rows
  /\ queue \in [Procs -> Seq([op : Operation, fresh : BOOLEAN])]
  /\ task \in [Procs -> [step : Steps, op : Operation \cup {NoOp},
                         prev : Operation \cup {NoOp},
                         journaled : BOOLEAN, replay : BOOLEAN]]
  /\ held \in [Procs -> Operation \cup {NoOp}]
  /\ lastRev \in [Procs -> Nat]
  /\ count \in 0..MaxOps /\ faults \in 0..MaxFaults /\ crashes \in 0..MaxCrashes
  /\ published \subseteq Operation /\ promised \in [Procs -> SUBSET Operation]

Init ==
  /\ journal = NoOp /\ markers = {} /\ clock = 0 /\ db = EmptyRows
  /\ queue = [p \in Procs |-> <<>>]
  /\ task = [p \in Procs |-> Idle]
  /\ held = [p \in Procs |-> NoOp]
  /\ lastRev = [p \in Procs |-> 0]
  /\ count = 0 /\ faults = 0 /\ crashes = 0
  /\ published = {} /\ promised = [p \in Procs |-> {}]

-----------------------------------------------------------------------------
IsIdle(p) == task[p].step = "idle"
LockFree == \A p \in Procs : task[p].step \notin Holding

Running(p) == task[p].step # "down"

Goto(p, step) == task' = [task EXCEPT ![p].step = step]
Finish(p) == task' = [task EXCEPT ![p] = Idle]

\* Any finished write empties the process's memory of the key, whatever
\* operation it holds; a replay leaves it alone.
Forget(p) == held' = IF task[p].replay THEN held ELSE [held EXCEPT ![p] = NoOp]

Fault == faults < MaxFaults /\ faults' = faults + 1

\* _new_state_operation, _submit_state_operation: the user thread.
Submit(p, method, now) ==
  /\ count < MaxOps /\ Running(p)
  /\ LET revision == Later(lastRev[p] + 1, now)
         op == [method |-> method, rev |-> revision, ids |-> {count + 1},
                at |-> now, val |-> {count + 1}]
     IN /\ queue' = [queue EXCEPT ![p] = Append(@, [op |-> op, fresh |-> TRUE])]
        /\ lastRev' = [lastRev EXCEPT ![p] = revision]
  /\ count' = count + 1
  /\ UNCHANGED <<files, task, held, faults, crashes, published, promised>>

\* next_revision: above the clock file and all that was observed.
NextRevision(observed, now) == Later(Later(clock, observed) + 1, now)

\* _publish_state_journal, first half: an operation older than the journal
\* keeps its revision, any other gets the next one of the clock file.
Allocate(p, now) ==
  /\ IsIdle(p) /\ queue[p] # <<>> /\ Head(queue[p]).fresh
  /\ LET op == Head(queue[p]).op
         revision == NextRevision(Later(op.rev, journal.rev), now)
         revised == [op EXCEPT !.rev = revision]
         keeps == journal # NoOp /\ Before(op, journal)
     IN \/ /\ ~keeps
           /\ clock' = revision
           /\ lastRev' = [lastRev EXCEPT ![p] = Later(@, revision)]
           /\ task' = [task EXCEPT ![p] = [Idle EXCEPT !.step = "put", !.op = revised]]
           /\ UNCHANGED faults
        \/ /\ keeps
           /\ task' = [task EXCEPT ![p] = [Idle EXCEPT !.step = "put", !.op = op]]
           /\ UNCHANGED <<clock, lastRev, faults>>
        \/ /\ ~keeps /\ Fault    \* the clock file cannot be locked, written or synced
           /\ task' = [task EXCEPT ![p] = [Idle EXCEPT !.step = "put", !.op = op]]
           /\ clock' \in {clock, revision}
           /\ UNCHANGED lastRev
  /\ queue' = [queue EXCEPT ![p] = Tail(@)]
  /\ UNCHANGED <<journal, markers, db, held, count, crashes, published, promised>>

\* An operation that has its revision goes straight to the journal.
Take(p) ==
  /\ IsIdle(p) /\ queue[p] # <<>> /\ ~Head(queue[p]).fresh
  /\ task' = [task EXCEPT ![p] = [Idle EXCEPT !.step = "put", !.op = Head(queue[p]).op]]
  /\ queue' = [queue EXCEPT ![p] = Tail(@)]
  /\ UNCHANGED <<files, held, lastRev, bounds, published, promised>>

\* publish_slot_intent: a game that is about to close publishes the journal
\* from its own thread, while the writer is at whatever step it is outside
\* _state_publish_lock, and then submits it.  Newer than everything, it
\* replaces what is in the journal.
Intent(p, now) ==
  /\ Intents /\ count < MaxOps /\ Running(p)
  /\ task[p].step \notin {"put", "replace"} /\ LockFree
  /\ LET provisional == Later(lastRev[p] + 1, now)
         revision == NextRevision(Later(provisional, journal.rev), now)
         op == [method |-> "set", rev |-> revision, ids |-> {count + 1},
                at |-> now, val |-> {count + 1}]
     IN /\ clock' = revision
        /\ lastRev' = [lastRev EXCEPT ![p] = revision]
        /\ journal' = op
        /\ markers' = IF journal = NoOp THEN markers
                      ELSE markers \cup {Marker("prepared", op, journal)}
        /\ queue' = [queue EXCEPT ![p] = Append(@, [op |-> op, fresh |-> FALSE])]
        /\ published' = published \cup {op}
  /\ count' = count + 1
  /\ UNCHANGED <<db, task, held, faults, crashes, promised>>

-----------------------------------------------------------------------------
(***************************************************************************)
(* PersistentStateOutbox.put, and what the writer makes of its answer.     *)
(***************************************************************************)
Resolution(p) == IF journal = NoOp THEN [op |-> task[p].op, how |-> "incoming"]
                 ELSE Resolve(journal, task[p].op)

\* Something else than the operation stays in the journal: it is superseded.
PutSuperseded(p) ==
  /\ task[p].step = "put" /\ LockFree
  /\ \/ Resolution(p).how = "superseded"
     \/ Resolution(p).how = "duplicate" /\ journal # task[p].op
  /\ Finish(p)
  /\ lastRev' = [lastRev EXCEPT ![p] = Later(@, journal.rev)]
  /\ held' = IF Before(journal, held[p]) THEN held ELSE [held EXCEPT ![p] = NoOp]
  /\ UNCHANGED <<files, queue, bounds, published, promised>>

\* The operation is the journal already: go on and apply it.
PutAgain(p) ==
  /\ task[p].step = "put" /\ LockFree
  /\ Resolution(p).how = "duplicate" /\ journal = task[p].op
  /\ task' = [task EXCEPT ![p] = [@ EXCEPT !.step = "apply", !.prev = journal,
                                           !.journaled = TRUE]]
  /\ UNCHANGED <<files, queue, held, lastRev, bounds, published, promised>>

\* A slip: nothing keeps what is about to be replaced.
PutUnmarked(p) ==
  /\ task[p].step = "put" /\ LockFree /\ journal # NoOp
  /\ Resolution(p).how \in {"incoming", "merged"}
  /\ Goto(p, "replace")
  /\ UNCHANGED <<files, queue, held, lastRev, bounds, published, promised>>

\* _prepare_reject_transaction_locked: keep what is about to be replaced.
PutMark(p) ==
  /\ task[p].step = "put" /\ LockFree /\ journal # NoOp
  /\ Resolution(p).how \in {"incoming", "merged"}
  /\ markers' = {m \in markers : m.inc # Resolution(p).op}
                \cup {Marker("prepared", Resolution(p).op, journal)}
  /\ Goto(p, "replace")
  /\ UNCHANGED <<journal, clock, db, queue, held, lastRev, bounds, published, promised>>

ReadyToReplace(p) ==
  \/ task[p].step = "replace"
  \/ task[p].step = "put" /\ LockFree /\ journal = NoOp

\* The journal file is replaced, and the writer goes on with what is in it.
PutReplace(p) ==
  /\ ReadyToReplace(p)
  /\ journal' = Resolution(p).op
  /\ task' = [task EXCEPT ![p] = [@ EXCEPT !.step = "apply", !.op = journal',
                                           !.prev = journal, !.journaled = TRUE]]
  /\ lastRev' = [lastRev EXCEPT ![p] = Later(@, journal'.rev)]
  /\ published' = published \cup {task[p].op}
  /\ UNCHANGED <<markers, clock, db, queue, held, bounds, promised>>

\* The lock is not had in time, or a write fails: before the marker, between
\* the marker and the journal, or after the journal is replaced (its fsync).
PutFails(p) ==
  /\ task[p].step \in {"put", "replace"} /\ Fault
  /\ Goto(p, "apply")
  /\ \/ UNCHANGED <<journal, published>>
     \/ /\ ReadyToReplace(p)
        /\ journal' = Resolution(p).op
        /\ published' = published \cup {task[p].op}
  /\ UNCHANGED <<markers, clock, db, queue, held, lastRev, count, crashes, promised>>

-----------------------------------------------------------------------------
(***************************************************************************)
(* The database.                                                           *)
(***************************************************************************)
Applying(p) == task[p].step = "apply"
Answer(p) == Apply(db, task[p].op).answer

ApplyDone(p) ==
  /\ Applying(p) /\ Answer(p) \in {"committed", "merged_stale", "duplicate", "superseded"}
  /\ db' = Apply(db, task[p].op).rows
  /\ IF task[p].journaled THEN Goto(p, "clean") /\ UNCHANGED <<held, published>>
     ELSE /\ Finish(p) /\ Forget(p)
          /\ published' = published \cup {task[p].op}
  /\ UNCHANGED <<journal, markers, clock, queue, lastRev, bounds, promised>>

\* The database is locked or unavailable.  An operation that reached no
\* journal is kept in memory, if it is newer than the one kept there.
ApplyBusy(p) ==
  /\ Applying(p) /\ Fault
  /\ Finish(p)
  /\ IF task[p].journaled THEN UNCHANGED <<held, promised>>
     ELSE /\ held' = IF held[p] = NoOp \/ Before(held[p], task[p].op)
                     THEN [held EXCEPT ![p] = task[p].op] ELSE held
          /\ promised' = [promised EXCEPT ![p] = @ \cup {task[p].op}]
  /\ UNCHANGED <<files, queue, lastRev, count, crashes, published>>

\* A permanent refusal.
ApplyRefused(p) ==
  /\ Applying(p) /\ Answer(p) = "refused"
  /\ IF task[p].journaled THEN Goto(p, "reject") /\ UNCHANGED held
     ELSE Finish(p) /\ Forget(p)
  /\ UNCHANGED <<files, queue, lastRev, bounds, published, promised>>

-----------------------------------------------------------------------------
(***************************************************************************)
(* remove_if_current: the journal is removed if it is still the operation  *)
(* applied, then the prepared markers, one file after the other.           *)
(***************************************************************************)

\* A slip: the journal is never removed.
CleanNever(p) ==
  /\ task[p].step = "clean" /\ LockFree
  /\ Finish(p) /\ Forget(p)
  /\ UNCHANGED <<files, queue, lastRev, bounds, published, promised>>

Clean(p) ==
  /\ task[p].step = "clean" /\ LockFree
  /\ IF journal = task[p].op
     THEN journal' = NoOp /\ Goto(p, "sweep") /\ UNCHANGED held
     ELSE Finish(p) /\ Forget(p) /\ UNCHANGED journal
  /\ UNCHANGED <<markers, clock, db, queue, lastRev, bounds, published, promised>>

Prepared == {m \in markers : m.phase = "prepared"}

Sweep(p) ==
  /\ task[p].step = "sweep"
  /\ IF Prepared = {} THEN Finish(p) /\ Forget(p) /\ UNCHANGED markers
     ELSE /\ \E m \in Prepared : markers' = markers \ {m}
          /\ UNCHANGED <<task, held>>
  /\ UNCHANGED <<journal, clock, db, queue, lastRev, bounds, published, promised>>

CleanFails(p) ==
  /\ task[p].step \in {"clean", "sweep"} /\ Fault
  /\ Finish(p) /\ Forget(p)
  /\ UNCHANGED <<files, queue, lastRev, count, crashes, published, promised>>

-----------------------------------------------------------------------------
(***************************************************************************)
(* reject_and_restore_if_current: the marker says rejected, the journal    *)
(* moves to the quarantine, the operation it replaced comes back.          *)
(***************************************************************************)
MarkerOf(op) == {m \in markers : m.inc = op}

\* Without the restore, what it replaced is kept in memory.
KeepPrevious(p) ==
  held' = IF task[p].replay THEN held ELSE [held EXCEPT ![p] = task[p].prev]

Reject(p) ==
  /\ task[p].step = "reject" /\ LockFree
  /\ IF journal # task[p].op
     THEN Finish(p) /\ KeepPrevious(p) /\ UNCHANGED markers
     ELSE LET previous == IF MarkerOf(journal) = {} THEN task[p].prev
                          ELSE (CHOOSE m \in MarkerOf(journal) : TRUE).prev
          IN /\ markers' = (markers \ MarkerOf(journal))
                           \cup {Marker("rejected", journal, previous)}
             /\ Goto(p, "drop") /\ UNCHANGED held
  /\ UNCHANGED <<journal, clock, db, queue, lastRev, bounds, published, promised>>

\* _complete_reject_transaction
Drop(p) ==
  /\ task[p].step = "drop"
  /\ journal' = NoOp /\ Goto(p, "restore")
  /\ UNCHANGED <<markers, clock, db, queue, held, lastRev, bounds, published, promised>>


Restore(p) ==
  /\ task[p].step = "restore"
  /\ \E m \in MarkerOf(task[p].op) : journal' = m.prev
  /\ Goto(p, "unmark")
  /\ UNCHANGED <<markers, clock, db, queue, held, lastRev, bounds, published, promised>>

Unmark(p) ==
  /\ task[p].step = "unmark"
  /\ markers' = markers \ MarkerOf(task[p].op)
  /\ Finish(p) /\ Forget(p)
  /\ UNCHANGED <<journal, clock, db, queue, lastRev, bounds, published, promised>>

RejectFails(p) ==
  /\ task[p].step \in {"reject", "drop", "restore", "unmark"} /\ Fault
  /\ Finish(p) /\ KeepPrevious(p)
  /\ UNCHANGED <<files, queue, lastRev, count, crashes, published, promised>>

-----------------------------------------------------------------------------
(***************************************************************************)
(* _retry_all: recover the markers, replay the journal, try what is held   *)
(* in memory again.  A scan may be cut short or time out on a lock, so the *)
(* three happen in any order and any number of times.  Another key's work  *)
(* or a score may schedule it at any time.                                 *)
(***************************************************************************)

\* _scan_and_schedule_retry: what of this key makes it schedule a retry.  A
\* marker that is left alone does not.
Scans(p) == Running(p) /\ (journal # NoOp \/ held[p] # NoOp)

\* _recover_prepared_reject for a prepared marker, the rest of
\* _complete_reject_transaction for a rejected one.
AfterRecovery(m) ==
  LET current == IF m.phase = "rejected" /\ journal = m.inc THEN NoOp ELSE journal
  IN IF current = NoOp THEN m.prev ELSE current

Recoverable(m) == m.phase = "rejected" \/ AfterRecovery(m) = m.prev

Recover(p, m) ==
  /\ task[p].step \in {"idle", "down"} /\ LockFree
  /\ m \in markers /\ Recoverable(m)
  /\ journal' = AfterRecovery(m)
  /\ \/ markers' = markers \ {m} /\ UNCHANGED faults
     \/ Fault /\ UNCHANGED markers
  /\ UNCHANGED <<clock, db, memory, count, crashes, published, promised>>

\* _replay_state_entries_locked
Replay(p) ==
  /\ IsIdle(p) /\ journal # NoOp
  /\ task' = [task EXCEPT ![p] = [Idle EXCEPT !.step = "apply", !.op = journal,
                                              !.journaled = TRUE, !.replay = TRUE]]
  /\ UNCHANGED <<files, queue, held, lastRev, bounds, published, promised>>

\* _retry_all: the operation keeps the revision it had.
RetryHeld(p) ==
  /\ IsIdle(p) /\ held[p] # NoOp
  /\ task' = [task EXCEPT ![p] = [Idle EXCEPT !.step = "put", !.op = held[p]]]
  /\ UNCHANGED <<files, queue, held, lastRev, bounds, published, promised>>

\* The process dies.
Crash(p) ==
  /\ Running(p) /\ crashes < MaxCrashes /\ crashes' = crashes + 1
  /\ task' = [task EXCEPT ![p] = [Idle EXCEPT !.step = "down"]]
  /\ queue' = [queue EXCEPT ![p] = <<>>]
  /\ held' = [held EXCEPT ![p] = NoOp]
  /\ promised' = [promised EXCEPT ![p] = {}]
  /\ UNCHANGED <<files, lastRev, count, faults, published>>

\* It is started again: PersistentStateOutbox.__init__ recovers the markers
\* before anything else, unless that fails or exceeds its time budget, and
\* the revisions go on from the largest one known.
Start(p) ==
  /\ task[p].step = "down"
  /\ \/ (\A m \in markers : ~Recoverable(m)) /\ UNCHANGED faults
     \/ (\E m \in markers : Recoverable(m)) /\ Fault
  /\ Finish(p)
  /\ lastRev' = [lastRev EXCEPT ![p] = Later(Later(clock, journal.rev), HighWater(db))]
  /\ UNCHANGED <<files, queue, held, count, crashes, published, promised>>

Write(p) ==
  \/ \E now \in Readings : Allocate(p, now)
  \/ Take(p)
  \/ PutSuperseded(p) \/ PutAgain(p) \/ PutMark(p) \/ PutReplace(p)
  \/ ApplyDone(p) \/ ApplyRefused(p)
  \/ Clean(p) \/ Sweep(p)
  \/ Reject(p) \/ Drop(p) \/ Restore(p) \/ Unmark(p)

Retry(p) == Start(p) \/ Replay(p) \/ RetryHeld(p) \/ \E m \in markers : Recover(p, m)

Fails(p) == PutFails(p) \/ ApplyBusy(p) \/ CleanFails(p) \/ RejectFails(p) \/ Crash(p)

Next == \E p \in Procs :
  \/ \E method \in Methods, now \in Readings : Submit(p, method, now)
  \/ \E now \in Readings : Intent(p, now)
  \/ Write(p) \/ Retry(p) \/ Fails(p)

Spec == Init /\ [][Next]_vars

\* The writer thread of a running process works; a launcher's menu polls
\* (poll_pending_saves) and so retries while it finds a reason to.  A game that
\* runs by itself retries when it starts, if ever, and nothing starts a process.
Works(p) == Write(p) \/ (p \in Launchers /\ Scans(p) /\ Retry(p))

FairSpec == Spec /\ \A p \in Procs : WF_vars(Works(p))

-----------------------------------------------------------------------------
Settled == journal = NoOp /\ markers = {}

AtRest == Settled /\ \A p \in Procs : IsIdle(p) /\ held[p] = NoOp

\* The published operations the database accepts that no later accepted
\* replacement overrules.
Standing == {op \in published :
  /\ op.ids \cap Refused = {}
  /\ \A s \in published : s.method = "set" /\ s.ids \cap Refused = {}
                         => s = op \/ Before(s, op)}

\* Once no journal and no marker is left and no writer is at work, the database
\* has exactly what the published operations amount to: nothing that became
\* durable was lost by a crash, a refusal of a later operation, a removal that
\* raced another writer, or a journal brought back by an old marker
\* (put, remove_if_current, reject_and_restore_if_current, recover_transactions).
NothingIsLost ==
  AtRest => db.value = UNION {op.val : op \in Standing}

\* While it is not settled, what stands is in some file, the journal, a marker
\* or the database; or a writer that could not restore it has it in memory.
StandingIsSomewhere ==
  \A op \in Standing :
    \/ op.ids \subseteq journal.ids
    \/ \E m \in markers : op.ids \subseteq m.prev.ids
    \/ op.val \subseteq db.value
    \/ \E p \in Procs : op.ids \subseteq held[p].ids \cup task[p].op.ids

\* The case in which both are proved, for any constants: nothing is refused, and
\* users only replace the value, or only merge into it.  (A refusal brings an
\* older operation back, and a merge crosses a replacement, so that what stands
\* depends on their order; those cases are model-checked.)
OneMethod ==
  /\ Refused = {}
  /\ Methods \subseteq {"set"} \/ (Methods \subseteq {"merge"} /\ ~Intents)

\* The bounds and readings are numbers, launchers are processes, and there is an
\* id and a value for every operation.
SyncBounds ==
  /\ Launchers \subseteq Procs
  /\ Methods \subseteq {"set", "merge"} /\ Intents \in BOOLEAN
  /\ Readings \subseteq Nat /\ {MaxOps, MaxFaults, MaxCrashes} \subseteq Nat
  /\ 1..MaxOps \subseteq Ids \cap Levels

\* The journal never holds an operation older than the one it replaced by
\* writing: a put or an aggregate only moves it forward; only a refusal or a
\* recovery moves it back (resolve_operations under the key lock).
JournalMovesForward ==
  [][\A p \in Procs : PutReplace(p) => ~Before(journal', journal)]_vars

\* An operation id is never met with another payload, in the journal or in the
\* database, however often it is retried (state_operation_conflict).
NoConflict ==
  \A p \in Procs :
    /\ task[p].step = "put" /\ LockFree => Resolution(p).how # "conflict"
    /\ Applying(p) => Answer(p) # "conflict"

\* While some launcher keeps running, the journal and every queue and what a
\* launcher has only in memory drain, whichever process left the journal behind
\* (_scan_and_schedule_retry, _replay_state_entries).  The markers need not.
Drained ==
  /\ journal = NoOp
  /\ \A p \in Procs : Running(p) => IsIdle(p) /\ queue[p] = <<>>
  /\ \A p \in Launchers : held[p] = NoOp

Drains == (\E p \in Launchers : <>[]Running(p)) => <>[]Drained

-----------------------------------------------------------------------------
(***************************************************************************)
(* What the documents say and the code does not do.                        *)
(***************************************************************************)
\* "An older merge does not cross a replacement set" (spec.md): once settled
\* nothing of a merge older than the last published replacement is left.
NoOldMergeCrossesReset ==
  Settled => db.value \subseteq UNION {op.val : op \in Standing}

\* "pending_preserved": an operation the user was told is kept for a retry is
\* held, or in a file, or overruled by a later replacement.
PromiseIsKept ==
  \A p \in Procs : \A op \in promised[p] :
    \/ op = held[p]
    \/ \E q \in Procs : op.ids \subseteq task[q].op.ids
    \/ op.ids \subseteq journal.ids
    \/ op.val \subseteq db.value
    \/ \E s \in published : s.method = "set" /\ Before(op, s)

=============================================================================
