---------------------------- MODULE MCStateStore ----------------------------
(***************************************************************************)
(* The store and the journals that feed it.  A behaviour is one of:        *)
(*   store    StateStore: nine operations on one progress key, delivered   *)
(*            in any order any number of times;                            *)
(*   journal  StateSync: two processes save one slot, their games publish  *)
(*            journals themselves, a save is refused, a step fails, a      *)
(*            process dies; one of them shows the launcher's menu.         *)
(***************************************************************************)
EXTENDS StateStore

CONSTANTS p1, p2

VARIABLES what,
          journal, markers, clock, db, queue, task, held, lastRev,
          count, faults, crashes, published, promised

journalOnly == <<journal, markers, clock, db, queue, task, held, lastRev,
                 count, faults, crashes, published, promised>>
mcvars == <<what, vars, journalOnly>>

Raw(method, rev, id, val) ==
  [method |-> method, rev |-> rev, ids |-> {id}, at |-> rev, val |-> val]

\* Six merges and three replacements whose revisions interleave; a merge and a
\* replacement share revision 4, as when two processes could not reach the
\* clock file.
StoreOps == { Raw("merge", 1, 1, {"a"}), Raw("set", 2, 2, {"b"}),
              Raw("merge", 3, 4, {"c"}), Raw("merge", 3, 3, {"d"}),
              Raw("set", 4, 5, {}), Raw("merge", 4, 6, {"a", "d"}),
              Raw("merge", 4, 7, {"b"}), Raw("merge", 5, 8, {"c", "d"}),
              Raw("set", 6, 9, {"a"}) }

Two == {1, 2}

Sync == INSTANCE StateSync WITH
  Ids <- Two, Levels <- Two, Kind <- "slot", Refused <- {2},
  Procs <- {p1, p2}, Launchers <- {p1}, Methods <- {"set"}, Intents <- TRUE,
  Readings <- {0}, MaxOps <- 2, MaxFaults <- 1, MaxCrashes <- 1

MCInit == Init /\ Sync!Init /\ what \in {"store", "journal"}

MCNext ==
  /\ \/ what = "store" /\ Next /\ UNCHANGED journalOnly
     \/ what = "journal" /\ Sync!Next /\ UNCHANGED vars
  /\ UNCHANGED what

MCFairSpec ==
  /\ MCInit /\ [][MCNext]_mcvars
  /\ \A p \in {p1, p2} : WF_journalOnly(what = "journal" /\ Sync!Works(p))

-----------------------------------------------------------------------------
\* The hypothesis of the theorems about journals.
ASSUME HypothesesHold == Sync!SyncBounds

\* No operation meets its own id with another payload (PersistentStateOutbox
\* and apply_state_operation).
NoConflict == Sync!NoConflict

\* The journal is not replaced by an older operation (PersistentStateOutbox.put).
JournalMovesForward == Sync!JournalMovesForward

\* While a launcher runs, everything but markers drains (the retries that
\* poll_pending_saves schedules).
Drains == Sync!Drains

=============================================================================
