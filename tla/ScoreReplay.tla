----------------------------- MODULE ScoreReplay -----------------------------
(***************************************************************************)
(* The score outbox by itself: one process is handed mutations, and every  *)
(* process that shares the data directory replays what it finds, while     *)
(* steps fail, files and receipts wear out and processes die.              *)
(***************************************************************************)
EXTENDS ScoreOutbox, ScoreCalls

VARIABLE left    \* the calls that are still to come, each once

vars == <<outboxVars, left>>

Init == OutboxInit /\ left = Calls

\* submit_score_async, and its task for the writer.
Submit(m) ==
  /\ Player \in up /\ m \in left /\ left' = left \ {m}
  /\ queue' = [queue EXCEPT ![Player] = Append(@, Save(m))]
  /\ UNCHANGED <<tables, spool, orphans, up, memory, job, answer, ghosts, troubles>>

Next ==
  \/ \E m \in Calls : Submit(m)
  \/ /\ \/ \E p \in Procs : Work(p) \/ ScanList(p) \/ ScanUse(p) \/ Start(p) \/ Die(p)
        \/ Wear
     /\ UNCHANGED left

Spec == Init /\ [][Next]_vars

-----------------------------------------------------------------------------
\* Why DurableIsKept holds, for any processes, calls, faults and deaths.
ReplayBounds ==
  /\ OwnCalls(Calls) /\ \A m \in Calls : ~m.bare
  /\ Garbled \notin Calls \cup {None} /\ None \notin Calls

Item == [m : Calls, fresh : BOOLEAN]
Task == [do : {"save"}, m : Calls] \cup [do : {"retry"}, reqs : SUBSET Requests]
Replayed == (SUBSET Requests) \cup {None}
AtCall == [at : {"record", "unlink", "drop"}, m : Calls, durable : BOOLEAN,
           replay : Replayed, todo : SUBSET Item, score : Nat]
AJob == {Idle} \cup AtCall \cup [at : {"next"}, replay : Replayed, todo : SUBSET Item]

\* A journal is named after the request of its mutation.
JournalsTyped ==
  /\ spool \in [Requests -> Calls \cup {None, Garbled}]
  /\ \A r \in Requests : spool[r] \in Calls => spool[r].req = r
  /\ orphans \subseteq Calls /\ published \subseteq Calls

MemoryTyped ==
  /\ pend \in [Procs -> SUBSET Calls] /\ nondur \in [Procs -> SUBSET Calls]
  /\ scan \in [Procs -> (SUBSET Calls) \cup {None}] /\ queue \in [Procs -> Seq(Task)]

WritersTyped == job \in [Procs -> AJob]

\* Calls that were made beforehand have one history.
AllAreKept == \A m \in published : Kept(m)

\* A writer removes a journal only for a reason.
RemovalsAreDue ==
  \A p \in Procs : /\ job[p].at = "unlink" => Recorded(job[p].m)
                   /\ job[p].at = "drop" => job[p].m \in refused

ReplayIndInv ==
  JournalsTyped /\ MemoryTyped /\ WritersTyped /\ RemovalsAreDue /\ AllAreKept

=============================================================================
