------------------------------ MODULE AppLease ------------------------------
(***************************************************************************)
(* Who may touch the data directory: maintenance.py on POSIX.  A game (or  *)
(* the HTTP adapter) holds the application lock shared for its lifetime; a *)
(* maintenance command, and a game while it starts and recovers an         *)
(* interrupted import, hold it and the maintenance lock exclusively.       *)
(* flock cannot change an exclusive lock into a shared one in one step, so *)
(* everybody takes a third lock, the transition gate, before the           *)
(* application lock, and a starting game keeps it across the change.       *)
(*                                                                         *)
(* Imports are abstracted to the transaction roots they leave in the       *)
(* directory; ImportTxn has their contents.  A process may die at any      *)
(* step: the operating system releases its locks, and its roots stay.      *)
(***************************************************************************)
EXTENDS Naturals

CONSTANTS
  Procs,     \* the processes: games and maintenance commands
  Nobody     \* the gate is free

ASSUME NobodyAssumption == Nobody \notin Procs

VARIABLES
  gate,      \* who holds the transition lock
  app,       \* how each process holds the application lock
  maint,     \* how each process holds the maintenance lock
  pc,        \* the step each process is at
  goal,      \* whether it is starting a session or runs a command
  late,      \* whether its deadline has passed
  roots      \* the unfinished roots has_import_transaction_roots reports

locks == <<gate, app, maint>>
vars == <<locks, pc, goal, late, roots>>

Modes == {"none", "shared", "exclusive"}
Steps == {"out", "gate", "application", "maintenance", "recover", "import",
          "unlock", "drop", "share", "look", "open", "write",
          "leave", "close", "reopen"}

TypeOK ==
  /\ gate \in Procs \cup {Nobody}
  /\ app \in [Procs -> Modes] /\ maint \in [Procs -> Modes]
  /\ pc \in [Procs -> Steps]
  /\ goal \in [Procs -> {"session", "command"}]
  /\ late \in [Procs -> BOOLEAN]
  /\ roots \subseteq {"preparing", "published"}

Init ==
  /\ gate = Nobody
  /\ app = [p \in Procs |-> "none"] /\ maint = [p \in Procs |-> "none"]
  /\ pc = [p \in Procs |-> "out"]
  /\ goal = [p \in Procs |-> "session"]
  /\ late = [p \in Procs |-> FALSE]
  /\ roots \in SUBSET {"preparing", "published"}

-----------------------------------------------------------------------------
\* _try_lock: flock, by a process that does not hold the lock.
Grants(lock, p, mode) ==
  \A q \in Procs \ {p} : IF mode = "exclusive" THEN lock[q] = "none"
                         ELSE lock[q] # "exclusive"

Goto(p, step) == pc' = [pc EXCEPT ![p] = step]

\* recovered_application_session, or a command of data_cli.
Begin(p, aim) ==
  /\ pc[p] = "out"
  /\ Goto(p, "gate")
  /\ goal' = [goal EXCEPT ![p] = aim]
  /\ late' = [late EXCEPT ![p] = FALSE]
  /\ UNCHANGED <<locks, roots>>

\* InactiveApplicationLease.acquire
TakeGate(p) ==
  /\ pc[p] = "gate" /\ gate = Nobody
  /\ gate' = p
  /\ Goto(p, "application")
  /\ UNCHANGED <<app, maint, goal, late, roots>>

\* A slip: the gate is enough.
TakeApplicationUnasked(p) ==
  /\ pc[p] = "application"
  /\ app' = [app EXCEPT ![p] = "exclusive"]
  /\ Goto(p, "maintenance")
  /\ UNCHANGED <<gate, maint, goal, late, roots>>

\* A command waits for its maintenance lock with a deadline of its own.
TakeApplication(p) ==
  /\ pc[p] = "application" /\ Grants(app, p, "exclusive")
  /\ app' = [app EXCEPT ![p] = "exclusive"]
  /\ late' = [late EXCEPT ![p] = @ /\ goal[p] = "session"]
  /\ Goto(p, "maintenance")
  /\ UNCHANGED <<gate, maint, goal, roots>>

TakeMaintenance(p) ==
  /\ pc[p] = "maintenance" /\ Grants(maint, p, "exclusive")
  /\ maint' = [maint EXCEPT ![p] = "exclusive"]
  /\ Goto(p, "recover")
  /\ UNCHANGED <<gate, app, goal, late, roots>>

DeadlinePasses(p) ==
  /\ pc[p] # "out" /\ ~late[p]
  /\ late' = [late EXCEPT ![p] = TRUE]
  /\ UNCHANGED <<locks, pc, goal, roots>>

Refused(p) ==
  \/ pc[p] = "gate" /\ gate # Nobody
  \/ pc[p] = "application" /\ ~Grants(app, p, "exclusive")
  \/ pc[p] = "maintenance" /\ ~Grants(maint, p, "exclusive")

\* MaintenanceBusyError: what was taken so far is released.
GiveUp(p) ==
  /\ late[p] /\ Refused(p)
  /\ Goto(p, CASE pc[p] = "gate" -> "out" [] pc[p] = "application" -> "reopen"
               [] OTHER -> "close")
  /\ UNCHANGED <<locks, goal, late, roots>>

-----------------------------------------------------------------------------
\* recover_import_transactions: a published root is rolled back and retired;
\* a preparation that cannot be renamed stays, and nothing is said of it.
Recover(p) ==
  /\ pc[p] = "recover"
  /\ roots' \in {{}, roots \ {"published"}}
  /\ Goto(p, IF goal[p] = "session" THEN "unlock" ELSE "import")
  /\ UNCHANGED <<locks, goal, late>>

\* An invalid root, several of them, or a rollback that fails; a command that
\* needs no recovery (preview-replace, export-transaction) ends here too.
RecoverFails(p) ==
  /\ pc[p] = "recover" /\ (roots # {} \/ goal[p] = "command")
  /\ roots' \in {roots, roots \ {"preparing"}}
  /\ Goto(p, "leave")
  /\ UNCHANGED <<locks, goal, late>>

\* import_data, restore_replace_data: ImportTransaction.prepare, whose root is
\* renamed when it is complete, beside a preparation left over if there is one.
Prepare(p) ==
  /\ pc[p] = "import" /\ roots = {}
  /\ roots' = {"preparing"}
  /\ UNCHANGED <<locks, pc, goal, late>>

Publish(p) ==
  /\ pc[p] = "import" /\ "preparing" \in roots
  /\ roots' \in {{"published"}, {"preparing", "published"}}
  /\ UNCHANGED <<locks, pc, goal, late>>

\* The command ends: the transaction is terminal, or its rollback has failed
\* and is left to the next recovery; a preparation that failed may stay.
EndCommand(p) ==
  /\ pc[p] = "import"
  /\ roots' \in SUBSET roots
  /\ Goto(p, "leave")
  /\ UNCHANGED <<locks, goal, late>>

-----------------------------------------------------------------------------
\* The maintenance lock is released first, then the application lock, then
\* the gate (the with statements, InactiveApplicationLease.close).
Leave(p) ==
  /\ pc[p] = "leave"
  /\ maint' = [maint EXCEPT ![p] = "none"]
  /\ Goto(p, "close")
  /\ UNCHANGED <<gate, app, goal, late, roots>>

CloseLease(p) ==
  /\ pc[p] = "close"
  /\ app' = [app EXCEPT ![p] = "none"]
  /\ Goto(p, "reopen")
  /\ UNCHANGED <<gate, maint, goal, late, roots>>

OpenGate(p) ==
  /\ pc[p] = "reopen"
  /\ gate' = Nobody
  /\ Goto(p, "out")
  /\ UNCHANGED <<app, maint, goal, late, roots>>

\* A slip: the maintenance lock is still held when the lease is handed over.
UnlockNothing(p) ==
  /\ pc[p] = "unlock"
  /\ Goto(p, "drop")
  /\ UNCHANGED <<locks, goal, late, roots>>

Unlock(p) ==
  /\ pc[p] = "unlock"
  /\ maint' = [maint EXCEPT ![p] = "none"]
  /\ Goto(p, "drop")
  /\ UNCHANGED <<gate, app, goal, late, roots>>

\* A slip: the gate is opened before the lock is changed.
DropGateFirst(p) ==
  /\ pc[p] = "drop"
  /\ app' = [app EXCEPT ![p] = "none"]
  /\ gate' = Nobody
  /\ Goto(p, "share")
  /\ UNCHANGED <<maint, goal, late, roots>>

\* handoff: flock(LOCK_SH) on the exclusive lock drops it ...
DropExclusive(p) ==
  /\ pc[p] = "drop"
  /\ app' = [app EXCEPT ![p] = "none"]
  /\ Goto(p, "share")
  /\ UNCHANGED <<gate, maint, goal, late, roots>>

\* ... waits for the shared one, without a deadline, and opens the gate.
TakeShared(p) ==
  /\ pc[p] = "share" /\ Grants(app, p, "shared")
  /\ app' = [app EXCEPT ![p] = "shared"]
  /\ gate' = Nobody
  /\ Goto(p, "look")
  /\ UNCHANGED <<maint, goal, late, roots>>

\* A slip: every round has a deadline of its own.
LookAgain(p) ==
  /\ pc[p] = "look"
  /\ IF roots = {} THEN Goto(p, "open") /\ UNCHANGED <<app, late>>
     ELSE /\ app' = [app EXCEPT ![p] = "none"]
          /\ Goto(p, "gate")
          /\ late' = [late EXCEPT ![p] = FALSE]
  /\ UNCHANGED <<gate, maint, goal, roots>>

\* The second scan: a root has the lease closed and all done again, until the
\* deadline.
Look(p) ==
  /\ pc[p] = "look"
  /\ IF roots = {} THEN Goto(p, "open") /\ UNCHANGED app
     ELSE /\ app' = [app EXCEPT ![p] = "none"]
          /\ Goto(p, IF late[p] THEN "out" ELSE "gate")
  /\ UNCHANGED <<gate, maint, goal, late, roots>>

\* A write or a replay of the running game holds the maintenance lock shared.
StartWrite(p) ==
  /\ pc[p] = "open" /\ Grants(maint, p, "shared")
  /\ maint' = [maint EXCEPT ![p] = "shared"]
  /\ Goto(p, "write")
  /\ UNCHANGED <<gate, app, goal, late, roots>>

EndWrite(p) ==
  /\ pc[p] = "write"
  /\ maint' = [maint EXCEPT ![p] = "none"]
  /\ Goto(p, "open")
  /\ UNCHANGED <<gate, app, goal, late, roots>>

\* LocalBackendClient.close: the lease is released when the writer is drained.
Close(p) ==
  /\ pc[p] = "open"
  /\ app' = [app EXCEPT ![p] = "none"]
  /\ Goto(p, "out")
  /\ UNCHANGED <<gate, maint, goal, late, roots>>

Crash(p) ==
  /\ pc[p] # "out"
  /\ Goto(p, "out")
  /\ app' = [app EXCEPT ![p] = "none"]
  /\ maint' = [maint EXCEPT ![p] = "none"]
  /\ gate' = IF gate = p THEN Nobody ELSE gate
  /\ UNCHANGED <<goal, late, roots>>

\* What a process goes on to do by itself.
Proceed(p) ==
  \/ TakeGate(p) \/ TakeApplication(p) \/ TakeMaintenance(p) \/ GiveUp(p)
  \/ Recover(p) \/ RecoverFails(p) \/ EndCommand(p)
  \/ Leave(p) \/ CloseLease(p) \/ OpenGate(p)
  \/ Unlock(p) \/ DropExclusive(p) \/ TakeShared(p) \/ Look(p)
  \/ EndWrite(p)

Next == \E p \in Procs :
  \/ \E aim \in {"session", "command"} : Begin(p, aim)
  \/ DeadlinePasses(p)
  \/ Proceed(p)
  \/ Prepare(p) \/ Publish(p)
  \/ StartWrite(p) \/ Close(p) \/ Crash(p)

Spec == Init /\ [][Next]_vars

\* Time passes, and a process goes on with what it is doing or dies; nothing
\* makes a game write or close.
FairSpec == Spec /\ \A p \in Procs : WF_vars(Proceed(p)) /\ WF_vars(DeadlinePasses(p))

-----------------------------------------------------------------------------
Inside(p) == pc[p] \in {"recover", "import"}
Session(p) == pc[p] \in {"look", "open", "write"}

\* While a recovery or a command works on the files no session exists and no
\* other recovery or command works, at whatever step the others are or die
\* (recovered_application_session, inactive_application_lock).
Exclusion ==
  \A p, q \in Procs : p # q /\ Inside(p) => ~Inside(q) /\ ~Session(q)

\* A running game never has an unfinished import under it, from its start to
\* its end, and none appears while it runs (the recheck under the shared
\* lease).
SessionSeesNoImport ==
  \A p \in Procs : pc[p] \in {"open", "write"} => roots = {}

\* The gate closes the gap in the change of locks: the recheck finds at most a
\* preparation that could not be removed, never an import somebody published
\* in between (handoff).
GateClosesTheGap ==
  \A p \in Procs : pc[p] = "look" => "published" \notin roots

\* Nobody is ever kept waiting on the maintenance lock: with the application
\* lock in hand it is always granted, so a running game never finds its write
\* refused by maintenance (_durable_state_write, the score and replay paths).
MaintenanceNeverBusy ==
  \A p \in Procs :
    /\ pc[p] = "maintenance" => Grants(maint, p, "exclusive")
    /\ pc[p] = "open" => Grants(maint, p, "shared")

(***************************************************************************)
(* Why it holds: what a process holds follows from its step, the holder of *)
(* an exclusive application lock is alone, and from its recovery to its    *)
(* second scan a starting game keeps everybody else from the roots.        *)
(***************************************************************************)
HoldsGate == {"application", "maintenance", "recover", "import", "unlock", "drop",
              "share", "leave", "close", "reopen"}
HoldsApp == {"maintenance", "recover", "import", "unlock", "drop", "leave", "close"}
HoldsMaint == {"recover", "import", "unlock", "leave"}

HeldByStep ==
  \A p \in Procs :
    /\ gate = p <=> pc[p] \in HoldsGate
    /\ app[p] = IF pc[p] \in HoldsApp THEN "exclusive"
                ELSE IF Session(p) THEN "shared" ELSE "none"
    /\ maint[p] = IF pc[p] \in HoldsMaint THEN "exclusive"
                  ELSE IF pc[p] = "write" THEN "shared" ELSE "none"

Alone == \A p, q \in Procs : p # q /\ app[p] = "exclusive" => app[q] = "none"

NoPublishedRoot ==
  \A p \in Procs : pc[p] \in {"unlock", "drop", "share", "look"} => "published" \notin roots

\* All of it together, an invariant every step of maintenance.py preserves.
LeaseInv == TypeOK /\ HeldByStep /\ Alone /\ NoPublishedRoot /\ SessionSeesNoImport

-----------------------------------------------------------------------------
\* A startup ends: the game is open, or it is told that it could not start.
StartupEnds ==
  \A p \in Procs : pc[p] = "gate" /\ goal[p] = "session" ~> pc[p] \in {"open", "out"}

\* "The running launcher also finds what other instances write later"
\* (README.md): a game is refused only while a startup or a command is under
\* way, not because another game runs.
InstancesCoexist ==
  [][\A p \in Procs :
       GiveUp(p) /\ goal[p] = "session"
         => \E q \in Procs \ {p} : pc[q] \notin {"out", "open", "write"}]_vars

=============================================================================
