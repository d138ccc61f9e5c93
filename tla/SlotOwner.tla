------------------------------ MODULE SlotOwner ------------------------------
(***************************************************************************)
(* Who may write the one autosave slot of 2048.  Several windows, each a   *)
(* process with a writer thread of its own, open the game of one profile.  *)
(* A window reads the row, claims it with a compare-and-swap on the whole  *)
(* value it read, plays once the claim is acknowledged, and saves under    *)
(* the owner epoch it was given; a window that finds the row owned by      *)
(* another stops and asks before it takes over.                            *)
(*                                                                         *)
(* Writes travel as in StateSync, here in three steps: the operation is    *)
(* published in the journal file, applied to the database, and its answer  *)
(* polled by the game's frame loop.  The journal is the sequence of the    *)
(* operation in the file followed by those the reject markers keep.        *)
(*                                                                         *)
(* A board is a number, 0 for a new game.  The value of a saved state is   *)
(* the record of its owner, epoch, slot revision, status and board; it     *)
(* stands for the content hash too.  Time is a counter: a state that is    *)
(* built takes its next reading for a provisional revision, and so does a  *)
(* revision that the durable clock gives out.                              *)
(***************************************************************************)
EXTENDS Integers, Sequences, FiniteSetsExt

CONSTANTS
  Games,       \* the windows, each with an owner token of its own
  Past,        \* the token of a game that was played before
  None,        \* no value: a missing row, expectation, claim or answer
  Slots,       \* the rows the database may hold at first
  MaxMoves,    \* bound on the moves and restarts, and on the boards
  MaxSaves,    \* bound on the states the windows build, releases aside
  MaxFaults    \* bound on failing journals, busy databases and timeouts

ASSUME SlotAssumption ==
  /\ Past \notin Games /\ None \notin Games /\ None # Past
  /\ {MaxMoves, MaxSaves, MaxFaults} \subseteq Nat
  /\ 0 \notin Games

VARIABLES
  row,         \* save_slots: the value, and whether it can be read
  high,        \* the order of the receipt or barrier of the key
  journal,     \* the journal file of the key, then what its markers keep
  tick,        \* the last revision of the wall clock or the durable one
  game,        \* per window: the fields of the Game2048 object
  work,        \* per window: what its writer thread is doing
  held,        \* per window: an operation only in memory
  event,       \* per window: the last status of the key
  moves, faults,
  rowSeen,     \* history: the boards the row's writer had seen when it built it
  granted,     \* history: the owners and epochs the row has had
  confirmed    \* history, per window: the rows whose takeover was confirmed

store == <<row, high, rowSeen, granted>>
vars == <<store, journal, tick, game, work, held, event, moves, faults, confirmed>>

Value(who, epoch, srev, status, board) ==
  [who |-> who, epoch |-> epoch, srev |-> srev, status |-> status,
   board |-> board, form |-> "good"]

NoWork == [step |-> "idle", op |-> None, prev |-> None, journaled |-> FALSE, mine |-> FALSE]
NoEvent == [rev |-> 0, state |-> "none", val |-> None]

NoSave == [step |-> "none", op |-> None]

\* Game2048.__init__, which asks for the row.
NewGame ==
  [st |-> "loading", epoch |-> 0, srev |-> 0, expect |-> None, claim |-> None,
   board |-> 0, seen |-> {0}, built |-> 0, dirty |-> FALSE, pending |-> FALSE,
   shown |-> None, wanted |-> None, old |-> FALSE, leaving |-> FALSE,
   save |-> NoSave, load |-> "asked", got |-> None, ident |-> None,
   quarantine |-> "none", renew |-> FALSE,
   proved |-> FALSE]   \* history: an acknowledgement opened the game

Init ==
  /\ row \in Slots /\ high = 0 /\ rowSeen = {} /\ granted = {}
  /\ journal = <<>> /\ tick = 0
  /\ game = [i \in Games |-> NewGame]
  /\ work = [i \in Games |-> NoWork]
  /\ held = [i \in Games |-> None]
  /\ event = [i \in Games |-> NoEvent]
  /\ moves = 1 /\ faults = 0
  /\ confirmed = [i \in Games |-> {}]

Fault == faults < MaxFaults /\ faults' = faults + 1

\* The window is there and its frame loop runs.
Alive(i) == game[i].st \notin {"released", "closed", "crashed"}

-----------------------------------------------------------------------------
(***************************************************************************)
(* What a method of the game does to its fields.                           *)
(***************************************************************************)

\* _build_autosave_state, and the operation it is submitted as.
Build(g, i, status) ==
  [val |-> Value(i, g.epoch, g.srev + 1, status, g.board),
   expect |-> g.expect, rev |-> tick + 1, seen |-> g.seen]

CanBuild(g) == MapThenSumSet(LAMBDA i : game[i].built, Games) < MaxSaves
Built(g) == [g EXCEPT !.srev = @ + 1, !.built = @ + 1]

\* _save_autosave_slot once nothing holds it back.
Submit(g, i, status) ==
  LET op == Build(g, i, status)
  IN [Built(g) EXCEPT !.dirty = FALSE, !.save = [step |-> "sent", op |-> op],
                      !.claim = IF g.st = "claiming" THEN op.val ELSE @]

\* _save_autosave_slot: a claim or a save in flight holds it back, and any
\* state but ready drops it.
Autosave(g, i) ==
  IF g.st = "claiming" \/ (g.st = "ready" /\ g.save # NoSave) THEN [g EXCEPT !.dirty = TRUE]
  ELSE IF g.st = "ready" /\ CanBuild(g) THEN Submit(g, i, "active")
  ELSE g

\* _save_autosave_slot(allow_claim=True), on entering "claiming".
Claim(g, i) ==
  IF g.save = NoSave /\ CanBuild(g) THEN Submit(g, i, "active")
  ELSE [g EXCEPT !.dirty = TRUE]

\* _clear_slot_claim_expectations
Cleared(g) == [g EXCEPT !.expect = None, !.claim = None]

\* _begin_slot_load
Loading(g) == [g EXCEPT !.st = "loading", !.load = "asked", !.proved = FALSE]

\* _reload_after_unproven_claim
Reload(g) == Loading(Cleared([g EXCEPT !.pending = FALSE]))

\* reset
Reset(g, i) == Autosave([g EXCEPT !.st = "ready", !.board = 0, !.load = "none"], i)

\* _claim_result_is_authoritative
Authoritative(g, val) == val # None /\ val = g.claim

-----------------------------------------------------------------------------
(***************************************************************************)
(* Reading the row.  A window that reads late was opened late.             *)
(***************************************************************************)
Set(i, g) == game' = [game EXCEPT ![i] = g]

\* A state that is built takes a reading of the clock.
Ticks(i, g) == tick' = IF g.built = game[i].built THEN tick ELSE tick + 1
Act(i, g) == Set(i, g) /\ Ticks(i, g)

writing == <<store, journal, work, held, event>>
backend == <<writing, tick>>

\* ensure_profile_and_load_slot_async and load_slot_async on the read worker:
\* the row is read now and looked at later.
ReadRow(i) ==
  /\ game[i].load = "asked"
  /\ Set(i, [game[i] EXCEPT !.load = "done", !.got = row])
  /\ UNCHANGED <<backend, moves, faults, confirmed>>

\* The read fails, is not answered in time, or the profile is not there yet.
ReadFails(i) ==
  /\ game[i].st = "loading" /\ game[i].load = "asked" /\ Fault
  /\ Set(i, [game[i] EXCEPT !.load = "none", !.st = "failed"])
  /\ UNCHANGED <<backend, moves, confirmed>>

\* _poll_slot_load on a row this version can read: the part that gives the
\* window the board and, unless the row is its own, the claim to make.
Adopt(g, i, saved) ==
  LET mine == saved.who = i /\ saved.status = "active"
      next == [g EXCEPT !.board = saved.board, !.seen = @ \cup {saved.board},
                        !.srev = saved.srev, !.old = FALSE,
                        !.wanted = None, !.shown = None, !.ident = None]
  IN IF mine
     THEN Cleared([next EXCEPT !.epoch = saved.epoch, !.st = "ready", !.proved = TRUE])
     ELSE Claim([next EXCEPT !.epoch = saved.epoch + 1, !.expect = saved,
                             !.st = "claiming"], i)

\* A slip: a takeover does not look at what it reads again.
AdoptUnlooked(g, i, saved) ==
  IF saved.status = "active" /\ saved.who # i /\ g.wanted = None
  THEN [g EXCEPT !.st = "conflict", !.shown = saved]
  ELSE Adopt(g, i, saved)

\* The part before it, which stops at another window's active row.
AdoptOrAsk(g, i, saved) ==
  LET foreign == saved.status = "active" /\ saved.who # i
  IN CASE foreign /\ g.wanted # None /\ saved # g.wanted ->
            [g EXCEPT !.st = "conflict", !.shown = saved, !.wanted = None]
       [] foreign /\ g.wanted = None ->
            [g EXCEPT !.st = "conflict", !.shown = saved]
       [] OTHER -> Adopt(g, i, saved)

\* _quarantine_bad_slot
Quarantine(g, renew) ==
  [g EXCEPT !.st = "quarantining", !.quarantine = "asked", !.renew = renew]

PollLoad(i) ==
  /\ game[i].load = "done" /\ game[i].st = "loading"
  /\ LET saved == game[i].got
         g == [game[i] EXCEPT !.load = "none", !.got = None,
                              !.ident = IF saved = None THEN @ ELSE saved]
     IN Act(i, CASE saved = None -> Claim([g EXCEPT !.st = "claiming"], i)
                 [] saved # None /\ saved.form = "old" ->
                      [g EXCEPT !.st = "failed", !.old = TRUE]
                 [] saved # None /\ saved.form = "bad" -> Quarantine(g, FALSE)
                 [] OTHER -> AdoptOrAsk(g, i, saved))
  /\ UNCHANGED <<writing, moves, faults, confirmed>>

-----------------------------------------------------------------------------
(***************************************************************************)
(* What the player may do.                                                 *)
(***************************************************************************)
Playing(i) == game[i].st = "ready" /\ ~game[i].leaving

\* A settled move, and the debounced save that _flush_autosave_if_due makes
\* of it by and by.
Move(i) ==
  /\ Playing(i) /\ moves < MaxMoves
  /\ moves' = moves + 1
  /\ Set(i, [game[i] EXCEPT !.board = moves', !.seen = @ \cup {moves'}, !.dirty = TRUE])
  /\ UNCHANGED <<backend, faults, confirmed>>

Flush(i) ==
  /\ Playing(i) /\ game[i].dirty /\ game[i].save = NoSave /\ CanBuild(game[i])
  /\ Act(i, Autosave(game[i], i))
  /\ UNCHANGED <<writing, moves, faults, confirmed>>

\* R
Restart(i) ==
  /\ Playing(i) /\ game[i].board # 0 /\ moves < MaxMoves
  /\ moves' = moves + 1
  /\ Act(i, Reset(game[i], i))
  /\ UNCHANGED <<writing, faults, confirmed>>

\* T, _retry_slot_load
RetryLoad(i) ==
  /\ game[i].st \in {"failed", "quarantine_failed"} /\ game[i].load = "none"
  /\ Set(i, Loading(game[i]))
  /\ UNCHANGED <<backend, moves, faults, confirmed>>

\* N twice, _confirm_new_game_after_load_failure
ConfirmNewGame(i) ==
  /\ game[i].st = "failed"
  /\ Act(i, IF game[i].old THEN Quarantine(game[i], TRUE) ELSE Reset(game[i], i))
  /\ UNCHANGED <<writing, moves, faults, confirmed>>

\* K, _take_over_conflicting_slot
TakeOver(i) ==
  /\ game[i].st = "conflict"
  /\ Set(i, Loading([game[i] EXCEPT !.wanted = game[i].shown]))
  /\ confirmed' = [confirmed EXCEPT ![i] = @ \cup {game[i].shown}]
  /\ UNCHANGED <<backend, moves, faults>>

-----------------------------------------------------------------------------
(***************************************************************************)
(* The database: one transaction per operation.                            *)
(***************************************************************************)

\* A slip: the epoch and the revision are compared, the value is not.
SwapUnhashed(op) ==
  IF row = None THEN op.val.epoch = 0 /\ op.expect = None
  ELSE op.val.srev > row.srev /\ op.val.epoch \in {row.epoch, row.epoch + 1}

\* The ownership check of _apply_state_operation: the live owner writes a newer
\* slot revision, anyone else names the whole value it replaces.
OwnerMatches(op) ==
  IF row = None THEN op.val.epoch = 0 /\ op.expect = None
  ELSE /\ op.val.srev > row.srev
       /\ \/ row.status = "active" /\ row.who = op.val.who /\ row.epoch = op.val.epoch
          \/ op.expect = row /\ op.val.epoch = row.epoch + 1

Outcome(op) ==
  IF op.rev = high THEN "duplicate"
  ELSE IF op.rev < high THEN "superseded"
  ELSE IF OwnerMatches(op) THEN "committed" ELSE "in_use"

\* remove_if_current after a success; reject_and_restore after a refusal, which
\* brings back the operation that was replaced.
AfterOutcome(op) ==
  IF journal = <<>> \/ Head(journal) # op THEN journal
  ELSE IF Outcome(op) = "in_use" THEN Tail(journal) ELSE <<>>

\* _emit_local_state_event, _state_event_replaces
Emit(i, rev, state, val) ==
  event' = [event EXCEPT ![i] =
    IF Alive(i) /\ (rev > @.rev \/ (rev = @.rev /\ state # "pending"))
    THEN [rev |-> rev, state |-> state, val |-> val] ELSE @]

\* The winner of a superseded operation is what the status shows.
EmitOutcome(i, op) ==
  CASE Outcome(op) = "superseded" -> Emit(i, high, "committed", None)
    [] Outcome(op) = "in_use" -> Emit(i, op.rev, "refused", None)
    [] OTHER -> Emit(i, op.rev, "committed", op.val)

\* The transaction, and the removal of the journal, which may fail.
Apply(op) ==
  /\ IF Outcome(op) = "committed"
     THEN /\ row' = op.val /\ high' = op.rev /\ rowSeen' = op.seen
          /\ granted' = granted \cup {<<op.val.who, op.val.epoch>>}
     ELSE UNCHANGED store
  /\ \/ journal' = AfterOutcome(op) /\ UNCHANGED faults
     \/ AfterOutcome(op) # journal /\ Fault /\ UNCHANGED journal

\* The answer reaches the future of the save it belongs to.
Answered(i, how) ==
  IF work[i].mine /\ Alive(i) THEN Set(i, [game[i] EXCEPT !.save.step = how]) ELSE UNCHANGED game

-----------------------------------------------------------------------------
(***************************************************************************)
(* The writer thread of a window's process; it goes on when the window is  *)
(* closed.                                                                 *)
(***************************************************************************)
Idle(i) == work[i].step = "idle" /\ game[i].st # "crashed"

\* _publish_state_journal: a journal with a newer revision supersedes the
\* operation; otherwise it replaces it, with the revision given.
Put(i, op, rev, mine) ==
  LET revised == [op EXCEPT !.rev = rev]
  IN /\ journal' = <<revised>> \o journal
     /\ work' = [work EXCEPT ![i] =
          [step |-> "write", op |-> revised, journaled |-> TRUE, mine |-> mine,
           prev |-> IF journal = <<>> THEN None ELSE Head(journal)]]

\* A slip: the comparison is made with the revision it is about to be given.
OvertakenAfterStamp(op) == journal # <<>> /\ Head(journal).rev > tick + 1

Overtaken(op) == journal # <<>> /\ Head(journal).rev > op.rev

Publish(i) ==
  /\ Idle(i) /\ game[i].save.step = "sent"
  /\ LET op == game[i].save.op
     IN \/ /\ Overtaken(op)
           /\ Set(i, [game[i] EXCEPT !.save.step = "superseded"])
           /\ Emit(i, Head(journal).rev, "pending", None)
           /\ UNCHANGED <<journal, tick, work, faults>>
        \/ /\ ~Overtaken(op)
           /\ tick' = tick + 1
           /\ Put(i, op, tick', TRUE)
           /\ Set(i, [game[i] EXCEPT !.save = [step |-> "taken", op |-> work'[i].op]])
           /\ UNCHANGED <<event, faults>>
        \/ /\ Fault    \* neither clock nor journal can be written
           /\ work' = [work EXCEPT ![i] = [NoWork EXCEPT !.step = "write", !.op = op,
                                                         !.mine = TRUE]]
           /\ Set(i, [game[i] EXCEPT !.save.step = "taken"])
           /\ UNCHANGED <<journal, tick, event>>
  /\ UNCHANGED <<store, held, moves, confirmed>>

\* _retry_all takes up what is only in memory; it keeps its revision.
RetryHeld(i) ==
  /\ Idle(i) /\ held[i] # None
  /\ IF Overtaken(held[i])
     THEN held' = [held EXCEPT ![i] = None] /\ UNCHANGED <<journal, work>>
     ELSE Put(i, held[i], held[i].rev, FALSE) /\ UNCHANGED held
  /\ UNCHANGED <<store, tick, game, event, moves, faults, confirmed>>

\* _durable_state_write_locked.  What a refused operation once replaced is kept in
\* memory unless the journal restores it, whether the operation has left the
\* journal or its marker cannot be written.
Write(i) ==
  /\ work[i].step = "write"
  /\ LET op == work[i].op
         kept == Outcome(op) = "in_use" /\ work[i].journaled /\ journal' = journal
     IN /\ Apply(op)
        /\ EmitOutcome(i, op)
        /\ Answered(i, IF Outcome(op) = "duplicate" THEN "committed" ELSE Outcome(op))
        /\ held' = [held EXCEPT ![i] = IF kept THEN work[i].prev ELSE None]
  /\ work' = [work EXCEPT ![i] = NoWork]
  /\ UNCHANGED <<tick, moves, confirmed>>

\* The database is busy: the operation stays in the journal or in memory.
Busy(i) ==
  /\ work[i].step = "write" /\ Fault
  /\ LET op == work[i].op
     IN IF work[i].journaled
        THEN /\ Answered(i, "pending") /\ Emit(i, op.rev, "pending", None)
             /\ UNCHANGED held
        ELSE /\ Answered(i, "error") /\ Emit(i, op.rev, "nondurable", None)
             /\ held' = [held EXCEPT ![i] = op]
  /\ work' = [work EXCEPT ![i] = NoWork]
  /\ UNCHANGED <<store, journal, tick, moves, confirmed>>

\* _replay_state_entries_locked, of whichever window's operation it is.
Replay(i) ==
  /\ Idle(i) /\ journal # <<>>
  /\ Apply(Head(journal))
  /\ EmitOutcome(i, Head(journal))
  /\ UNCHANGED <<tick, game, work, held, moves, confirmed>>

\* _refresh_local_state_status: the journal if it is ahead of the receipt,
\* else the receipt.
Refresh(i) ==
  /\ game[i].pending /\ Idle(i)
  /\ IF journal # <<>> /\ Head(journal).rev > high
     THEN Emit(i, Head(journal).rev, "pending", None)
     ELSE row # None /\ high > 0 /\ Emit(i, high, "committed", row)
  /\ UNCHANGED <<store, journal, tick, game, work, held, moves, faults, confirmed>>

\* _quarantine_slot_worker: only the row that was read, and only when no
\* journal is about to change it; a barrier keeps older operations out.
RunQuarantine(i) ==
  /\ game[i].quarantine = "asked" /\ Idle(i)
  /\ LET changed == \/ journal # <<>> /\ Head(journal).val # game[i].ident
                    \/ row # None /\ row # game[i].ident
         how == IF changed THEN "changed" ELSE "done"
     IN \/ /\ Set(i, [game[i] EXCEPT !.quarantine = how])
           /\ IF changed \/ row = None THEN UNCHANGED <<store, tick>>
              ELSE row' = None /\ rowSeen' = {} /\ UNCHANGED granted /\ tick' = tick + 1 /\ high' = tick'
           /\ UNCHANGED faults
        \/ /\ Fault /\ Set(i, [game[i] EXCEPT !.quarantine = "failed"])
           /\ UNCHANGED <<store, tick>>
  /\ UNCHANGED <<journal, work, held, event, moves, confirmed>>

-----------------------------------------------------------------------------
(***************************************************************************)
(* The frame loop polls.                                                   *)
(***************************************************************************)
Dirty(g, i) == IF g.dirty /\ g.st = "ready" /\ ~g.leaving THEN Autosave(g, i) ELSE g

\* A slip: any success opens the game.
AckedByAnything(g, how, val) ==
  IF g.st = "claiming" THEN Cleared([g EXCEPT !.pending = FALSE, !.st = "ready", !.proved = TRUE])
  ELSE Cleared([g EXCEPT !.pending = FALSE])

\* A write that was accepted: it proves a claim only if its own value is what
\* the receipt shows.
Acked(g, how, val) ==
  IF g.st = "claiming" /\ ~(how = "committed" /\ Authoritative(g, val)) THEN Reload(g)
  ELSE LET c == Cleared([g EXCEPT !.pending = FALSE])
       IN IF g.st = "claiming" THEN [c EXCEPT !.st = "ready", !.proved = TRUE] ELSE c

FailClaim(g) == IF g.st = "claiming" THEN [g EXCEPT !.st = "failed"] ELSE g

\* _poll_slot_save
PollSave(i) ==
  /\ Alive(i)
  /\ game[i].save.step \in {"committed", "superseded", "in_use", "pending", "error"}
  /\ LET how == game[i].save.step
         g == [game[i] EXCEPT !.save = NoSave]
         next == CASE how = "pending" -> [g EXCEPT !.pending = TRUE]
                   [] how = "in_use" -> Reload(g)
                   [] how = "error" -> FailClaim(g)
                   [] OTHER -> Acked(g, how, game[i].save.op.val)
     IN Act(i, Dirty(next, i))
  /\ UNCHANGED <<writing, moves, faults, confirmed>>

\* _poll_slot_save_status
PollStatus(i) ==
  /\ Alive(i) /\ game[i].pending
  /\ event[i].state \in {"committed", "refused", "nondurable"}
  /\ LET g == game[i]
     IN Set(i, CASE event[i].state # "committed" -> FailClaim([g EXCEPT !.pending = FALSE])
                 [] event[i].state = "committed" /\ g.st = "claiming" ->
                      Acked(g, "committed", event[i].val)
                 [] OTHER -> [g EXCEPT !.pending = FALSE])
  /\ UNCHANGED <<backend, moves, faults, confirmed>>

\* _poll_slot_quarantine
PollQuarantine(i) ==
  /\ Alive(i) /\ game[i].st = "quarantining"
  /\ game[i].quarantine \in {"done", "changed", "failed"}
  /\ LET how == game[i].quarantine
         g == [game[i] EXCEPT !.quarantine = "none", !.renew = FALSE]
     IN Act(i, CASE how = "done" /\ game[i].renew ->
                      Reset(Cleared([g EXCEPT !.old = FALSE, !.epoch = 0]), i)
                 [] how = "failed" -> [g EXCEPT !.st = "quarantine_failed"]
                 [] OTHER -> [g EXCEPT !.st = "failed"])
  /\ UNCHANGED <<writing, moves, faults, confirmed>>

-----------------------------------------------------------------------------
(***************************************************************************)
(* before_close.                                                           *)
(***************************************************************************)
Gone(how) == [NewGame EXCEPT !.st = how, !.load = "none"]

\* History: the epoch and the slot revision of a published release are kept.
Leave(i, g, how) ==
  /\ Set(i, [Gone(how) EXCEPT !.built = g.built,
               !.epoch = IF how = "released" THEN g.epoch ELSE 0,
               !.srev = IF how = "released" THEN g.srev + 1 ELSE 0,
               !.proved = g.proved /\ how = "released",
               !.save = IF g.save.step = "sent" THEN g.save ELSE NoSave])
  /\ event' = [event EXCEPT ![i] = NoEvent]

window == <<store, journal, work, held>>

\* publish_slot_intent of the released state: it is in the journal when the
\* window is gone, and replaces whatever was there.
Close(i) ==
  /\ game[i].st \in {"ready", "claiming"} /\ ~game[i].leaving
  /\ tick' = tick + 1
  /\ LET op == [Build(game[i], i, "released") EXCEPT !.rev = tick']
     IN journal' = <<op>> \o journal
  /\ Leave(i, game[i], "released")
  /\ UNCHANGED <<store, work, held, moves, faults, confirmed>>

\* Another process has put an operation since the release took its revision, which
\* is the older one then: the window goes and leaves that operation alone.
CloseOutdone(i) ==
  /\ game[i].st \in {"ready", "claiming"} /\ ~game[i].leaving
  /\ journal # <<>> /\ Head(journal).rev = tick /\ Head(journal).val.who # i
  /\ Leave(i, game[i], "closed")
  /\ UNCHANGED <<window, tick, moves, faults, confirmed>>

\* A window that neither owns nor claims the slot just goes.
CloseUnowned(i) ==
  /\ game[i].st \in {"loading", "conflict", "failed", "quarantining", "quarantine_failed"}
  /\ Leave(i, game[i], "closed")
  /\ UNCHANGED <<window, tick, moves, faults, confirmed>>

\* The journal cannot be written: the release is saved like any other state,
\* if what is in flight ends in time.
CloseSlowly(i) ==
  /\ game[i].st \in {"ready", "claiming"} /\ ~game[i].leaving /\ Fault
  /\ Set(i, [game[i] EXCEPT !.leaving = TRUE])
  /\ UNCHANGED <<backend, moves, confirmed>>

EndClose(i) ==
  /\ game[i].leaving
  /\ LET g == IF game[i].st = "ready" /\ game[i].save = NoSave
              THEN Submit(game[i], i, "released") ELSE game[i]
     IN Leave(i, g, "closed") /\ Ticks(i, g)
  /\ UNCHANGED <<window, moves, faults, confirmed>>

\* The process dies.
Crash(i) ==
  /\ game[i].st # "crashed" /\ Fault
  /\ Set(i, [Gone("crashed") EXCEPT !.built = game[i].built])
  /\ work' = [work EXCEPT ![i] = NoWork]
  /\ held' = [held EXCEPT ![i] = None]
  /\ event' = [event EXCEPT ![i] = NoEvent]
  /\ UNCHANGED <<store, journal, tick, moves, confirmed>>

-----------------------------------------------------------------------------
Poll(i) == PollLoad(i) \/ PollSave(i) \/ PollStatus(i) \/ PollQuarantine(i) \/ Flush(i)

Writer(i) == Publish(i) \/ RetryHeld(i) \/ Write(i) \/ Replay(i) \/ RunQuarantine(i)

Reader(i) == ReadRow(i) \/ Refresh(i)

Player(i) == \/ Move(i) \/ Restart(i) \/ RetryLoad(i) \/ ConfirmNewGame(i)
             \/ TakeOver(i) \/ Close(i) \/ CloseOutdone(i) \/ CloseUnowned(i)
             \/ CloseSlowly(i) \/ EndClose(i)

Fails(i) == ReadFails(i) \/ Busy(i) \/ Crash(i)

Next == \E i \in Games : Player(i) \/ Poll(i) \/ Writer(i) \/ Reader(i) \/ Fails(i)

Spec == Init /\ [][Next]_vars

-----------------------------------------------------------------------------
\* A save replaces only a board its game has read or made itself: no delayed
\* autosave, claim or release wipes out moves of another window that reached
\* the database (the compare-and-swap, whatever the journal reorders).
SeenBeforeReplaced ==
  [][row' # row /\ row' # None /\ row # None => row.board \in rowSeen']_vars

\* A row another window plays on changes hands only if the player of the new
\* owner confirmed the takeover of exactly that row.
TakeoverIsConfirmed ==
  [][row' # row /\ row' # None /\ row # None /\ row.status = "active"
       /\ row.form = "good" /\ row'.who # row.who
     => row \in confirmed[row'.who]]_vars

\* A window whose game an acknowledgement opened owned the row at its epoch,
\* and no other window ever does at that epoch.
OneOwner ==
  \A i \in Games : game[i].proved /\ Alive(i) =>
    {g[1] : g \in {h \in granted : h[2] = game[i].epoch}} = {i}

\* Once everything is drained, a window that owned the row and published its
\* release is not the owner by a state older than the release, by the slot
\* revision it carries, whatever saves of its own were still on their way.
Drained == journal = <<>> /\ \A i \in Games : work[i] = NoWork /\ held[i] = None

StillOwns(i) == row # None /\ row.who = i /\ row.status = "active"

ReleaseArrives ==
  Drained => \A i \in Games : game[i].st = "released" /\ game[i].proved /\ StillOwns(i)
               => row.srev >= game[i].srev

-----------------------------------------------------------------------------
(***************************************************************************)
(* Why they hold, for any windows, moves, saves and faults.                *)
(***************************************************************************)
Saved == [who : Games \cup {Past}, epoch : Nat, srev : Nat,
          status : {"active", "released"}, board : Nat, form : {"good", "bad", "old"}]

\* What the database holds at first is of an earlier game.
SlotBounds == \A saved \in Slots : saved # None => saved \in Saved /\ saved.who = Past

\* It is neither damaged nor of other rules.
SlotsReadable == \A saved \in Slots : saved # None => saved.form = "good"

Operation == [val : Saved, expect : Saved \cup {None}, rev : Nat, seen : SUBSET Nat]

ASSUME NoneAssumption == None \notin Saved /\ None \notin Operation

Save == [step : {"none", "sent", "taken", "committed", "superseded", "in_use",
                 "pending", "error"},
         op : Operation \cup {None}]

States == {"loading", "conflict", "failed", "quarantining", "quarantine_failed",
           "claiming", "ready", "released", "closed", "crashed"}

AGame ==
  [st : States, epoch : Nat, srev : Nat, expect : Saved \cup {None},
   claim : Saved \cup {None}, board : Nat, seen : SUBSET Nat, built : Nat,
   dirty : BOOLEAN, pending : BOOLEAN, shown : Saved \cup {None},
   wanted : Saved \cup {None}, old : BOOLEAN, leaving : BOOLEAN, save : Save,
   load : {"none", "asked", "done"}, got : Saved \cup {None}, ident : Saved \cup {None},
   quarantine : {"none", "asked", "done", "changed", "failed"}, renew : BOOLEAN,
   proved : BOOLEAN]

Work == [step : {"idle", "write"}, op : Operation \cup {None}, prev : Operation \cup {None},
         journaled : BOOLEAN, mine : BOOLEAN]

Event == [rev : Nat, state : {"none", "pending", "committed", "refused", "nondurable"},
          val : Saved \cup {None}]

TypeOK ==
  /\ row \in Saved \cup {None} /\ high \in Nat /\ rowSeen \subseteq Nat
  /\ granted \subseteq Games \X Nat
  /\ journal \in Seq(Operation) /\ tick \in Nat
  /\ game \in [Games -> AGame] /\ work \in [Games -> Work]
  /\ held \in [Games -> Operation \cup {None}] /\ event \in [Games -> Event]
  /\ moves \in Nat /\ faults \in Nat
  /\ confirmed \in [Games -> SUBSET (Saved \cup {None})]

\* The operations that may still reach the database.
Ops(file) == {file[k] : k \in DOMAIN file}
Sent(i) == game[i].save.step = "sent"
Waiting(i) == {work[i].op, work[i].prev, held[i]}
                \cup (IF Sent(i) THEN {game[i].save.op} ELSE {})
InPlay == Ops(journal) \cup ((UNION {Waiting(i) : i \in Games}) \ {None})

\* A window that names a row has its board, and its player's leave if it is
\* another's game.
Knows(i, saved, seen) ==
  /\ saved.board \in seen
  /\ saved.status = "active" /\ saved.form = "good" /\ saved.who # i => saved \in confirmed[i]

OperationsKnow ==
  \A op \in InPlay : /\ op.val.who \in Games /\ op.val.form = "good"
                     /\ op.rev <= tick /\ op.val.board \in op.seen
                     /\ op.expect # None => Knows(op.val.who, op.expect, op.seen)

\* Revisions tell operations apart, and of one window's operations the one
\* with the newer revision and slot revision was built on the board of the other.
BuiltOn(newer, saved) ==
  newer.val.who = saved.who /\ saved.srev < newer.val.srev => saved.board \in newer.seen

OperationsAgree ==
  \A older, newer \in InPlay :
    /\ older.rev = newer.rev => older.val = newer.val
    /\ older.rev < newer.rev => BuiltOn(newer, older.val)

\* The same of the row, which an operation has written.
RowAgrees ==
  /\ high <= tick
  /\ row # None => \A op \in InPlay : high < op.rev => BuiltOn(op, row)

\* A state that waits for the writer is built on all the boards before it; only
\* a release may have overtaken it, with a higher slot revision.
SentIsNewest(i) ==
  LET op == game[i].save.op
  IN /\ op # None /\ op.val.who = i
     /\ \A other \in InPlay : BuiltOn(op, other.val)
     /\ row # None => BuiltOn(op, row)

\* A window knows the boards of the states it has built.
BoardsAreKnown(i) ==
  /\ \A op \in InPlay : op.val.who = i => op.val.board \in game[i].seen
  /\ row # None /\ row.who = i => row.board \in game[i].seen

\* What a window takes for its own has been in the database.
Owned(saved) == <<saved.who, saved.epoch>> \in granted

RowIsGranted ==
  /\ row # None => Owned(row) \/ (row.who = Past /\ high = 0)
  /\ \A op \in InPlay : op.rev = high => Owned(op.val)

\* The fields of a window that runs.
Fits(i, g) ==
  /\ g.board \in g.seen /\ 0 \in g.seen
  /\ g.expect # None => Knows(i, g.expect, g.seen)
  /\ g.wanted # None => g.wanted \in confirmed[i]
  /\ g.save = NoSave \/ /\ g.st \in {"claiming", "ready"} /\ g.save.step # "none"
                        /\ g.save.op # None /\ g.save.op.val.who = i
                        /\ g.save.op.val.srev = g.srev /\ g.save.op.val.epoch = g.epoch
  /\ g.pending => g.st \in {"claiming", "ready"}
  /\ g.st = "claiming" /\ g.pending => g.save = NoSave
  /\ g.st = "claiming" /\ (g.pending \/ g.save # NoSave)
       => g.claim # None /\ g.claim.who = i /\ g.claim.epoch = g.epoch
  /\ g.got # None => g.got.who = Past \/ Owned(g.got)
  /\ g.save.step = "committed" => Owned(g.save.op.val)
  /\ g.proved => g.st = "ready" /\ <<i, g.epoch>> \in granted

WorkFits(i) ==
  /\ work[i].step = "idle" => work[i] = NoWork
  /\ work[i].step = "write" => work[i].op # None
  /\ work[i].mine /\ Alive(i) => game[i].save = [step |-> "taken", op |-> work[i].op]
  /\ event[i].state = "committed" /\ event[i].val # None => Owned(event[i].val)

OwnerIndInv ==
  /\ OperationsKnow /\ OperationsAgree /\ RowAgrees /\ RowIsGranted
  /\ \A i \in Games : Sent(i) => SentIsNewest(i)
  /\ \A i \in Games : Alive(i) => BoardsAreKnown(i) /\ Fits(i, game[i])
  /\ \A i \in Games : WorkFits(i)

\* Nothing has been put aside, nor anything read that would have to be.
Calm(i) == /\ game[i].quarantine = "none" /\ ~game[i].old
           /\ game[i].got # None => game[i].got.form = "good"

\* Where every row can be read nothing is put aside, and epochs only rise.
EpochsRise ==
  /\ \A i \in Games : Calm(i)
  /\ row # None => row.form = "good"
  /\ row = None => granted = {}
  /\ \A g \in granted : g[2] <= row.epoch
  /\ \A g, h \in granted : g[2] = h[2] => g = h

\* Of the journal the newest comes first, also where markers keep older ones.
Sorted(file) == \A k, l \in DOMAIN file : k < l => file[l].rev <= file[k].rev

\* The epoch of a window that runs is none of a row still to come.
Leads(i, g, saved) ==
  saved # None => \/ g.epoch <= saved.epoch
                  \/ g.epoch = saved.epoch + 1 /\ ~(saved.who = i /\ saved.status = "active")

\* What was read, the row has not fallen behind.
ReadIsBehind(i, got) ==
  got # None =>
    /\ row # None
    /\ \/ got.epoch < row.epoch
       \/ /\ got.epoch = row.epoch
          /\ row.who = i /\ row.status = "active" => got.who = i /\ got.status = "active"

\* The epoch a window writes under is the highest it has written under.
EpochLeads(i, g) ==
  /\ \A op \in InPlay : op.val.who = i => op.val.epoch <= g.epoch
  /\ row # None /\ row.who = i => row.epoch <= g.epoch
  /\ Leads(i, g, row) /\ Leads(i, g, g.got) /\ ReadIsBehind(i, g.got)
  /\ row = None => g.epoch = 0

\* The release of a window that owned the row is ahead of all it has in play, or
\* the row is no longer one the release would change.
OlderRow(i) ==
  row # None /\ row.who = i /\ row.status = "active" /\ row.srev < game[i].srev

Releasing(i, op) ==
  /\ op.val.who = i /\ op.val.status = "released" /\ op.val.epoch = game[i].epoch
  /\ op.val.srev = game[i].srev /\ high < op.rev
  /\ \A other \in InPlay : other.val.who = i => other = op \/ other.rev < op.rev
  /\ Sent(i) => game[i].save.op # op

ReleaseLeads(i) ==
  /\ <<i, game[i].epoch>> \in granted
  /\ \A op \in InPlay : op.val.who = i => op.val.epoch <= game[i].epoch
  /\ row # None /\ row.who = i => row.epoch <= game[i].epoch
  /\ ~OlderRow(i) \/ \E op \in Ops(journal) : Releasing(i, op)

ReleaseInv ==
  /\ Sorted(journal)
  /\ \A i \in Games : Alive(i) => EpochLeads(i, game[i])
  /\ \A i \in Games : game[i].st = "released" /\ game[i].proved => ReleaseLeads(i)

=============================================================================
