----------------------------- MODULE ImportTxn -----------------------------
(***************************************************************************)
(* One import after the other into a data directory, by a process that     *)
(* holds the application and maintenance locks (AppLease): the transaction *)
(* of import_transaction.py as import_data and restore_replace_data of     *)
(* data_cli.py drive it, its rollback, and the recovery every startup and  *)
(* every command begins with.  Any step may fail, and the process may die  *)
(* after any step.                                                         *)
(*                                                                         *)
(* The database and each target file hold the contents of some import, by  *)
(* its number (0: what there was before); Bare is a database whose WAL has *)
(* been moved away.  A transaction root keeps the before images.           *)
(***************************************************************************)
EXTENDS Naturals, FiniteSets

CONSTANTS
  Targets,     \* the number of file operations of an import
  MaxImports,  \* bound on the imports
  MaxFaults,   \* bound on steps that fail, deaths, and damaged journals
  Bare         \* the database between its WAL and the new main file

ASSUME ImportAssumption ==
  /\ Targets \in Nat /\ MaxImports \in Nat /\ MaxFaults \in Nat
  /\ Bare \notin Nat

VARIABLES
  db, files,   \* the contents on disk
  roots,       \* the transaction root of each import
  step,        \* what the process that holds the locks is doing,
  aim,         \* to start a session or to import,
  txn,         \* with which transaction,
  pos,         \* at which of its files,
  own,         \* as the command that began it or in a recovery
  outcome,     \* what each import was reported as
  faults

job == <<aim, txn, pos, own>>
vars == <<db, files, roots, step, job, outcome, faults>>

Txns == 1..MaxImports
Contents == 0..MaxImports
Phases == {"PREPARED", "DB_APPLIED", "FILES_PUBLISHED", "COMPLETED", "ROLLED_BACK"}
\* A slip: an applied database is taken for the end.
TerminalEarly == {"DB_APPLIED", "FILES_PUBLISHED", "COMPLETED", "ROLLED_BACK"}
Terminal == {"COMPLETED", "ROLLED_BACK"}

Steps == {"idle", "recover", "ready", "prepare", "copy", "apply", "swap",
          "applied", "verify", "publish", "published", "whole",
          "restore", "refile", "undone", "retire", "open"}

NoRoot == [place |-> "absent", phase |-> "PREPARED", valid |-> TRUE,
           db |-> 0, files |-> [i \in 1..Targets |-> 0]]

Roots == [place : {"absent", "preparing", "published"}, phase : Phases, valid : BOOLEAN,
          db : Contents, files : [1..Targets -> Contents]]
Outcomes == {"none", "committed", "rolled_back", "recovery_required", "failed", "unknown"}

TypeOK ==
  /\ db \in Contents \cup {Bare}
  /\ files \in [1..Targets -> Contents]
  /\ roots \in [Txns -> Roots]
  /\ step \in Steps /\ aim \in {"open", "import"}
  /\ txn \in Txns \cup {0} /\ pos \in 0..Targets + 1 /\ own \in BOOLEAN
  /\ outcome \in [Txns -> Outcomes]
  /\ faults \in 0..MaxFaults

Init ==
  /\ db = 0 /\ files = [i \in 1..Targets |-> 0]
  /\ roots = [t \in Txns |-> NoRoot]
  /\ step = "idle" /\ aim = "open" /\ txn = 0 /\ pos = 0 /\ own = FALSE
  /\ outcome = [t \in Txns |-> "none"]
  /\ faults = 0

-----------------------------------------------------------------------------
Goto(next) == step' = next /\ UNCHANGED job
GotoFile(next, i) == step' = next /\ pos' = i /\ UNCHANGED <<aim, txn, own>>
Stop == step' = "idle" /\ aim' = "open" /\ txn' = 0 /\ pos' = 0 /\ own' = FALSE
Fault == faults < MaxFaults /\ faults' = faults + 1

\* classify_import_transaction_root: "active"
Unfinished == {t \in Txns : roots[t].place = "published" /\ roots[t].phase \notin Terminal}
Reported == {t \in Txns : roots[t].place = "preparing"} \cup Unfinished

\* The command ends, and tells what became of its import, if it got that far.
End(result) ==
  /\ Stop
  /\ outcome' = IF own THEN [outcome EXCEPT ![txn] = result] ELSE outcome

Begin(a) ==
  /\ step = "idle"
  /\ step' = "recover" /\ aim' = a /\ UNCHANGED <<txn, pos, own>>
  /\ UNCHANGED <<db, files, roots, outcome, faults>>

\* Preparations and terminal roots are retired, if they can be.
Disposable == {t \in Txns : \/ roots[t].place = "preparing"
                            \/ roots[t].place = "published" /\ t \notin Unfinished}

\* A slip: a game leaves the rollback to the next command.
RecoverLater ==
  /\ step = "recover"
  /\ IF Unfinished = {} \/ aim = "open" THEN Goto("ready")
     ELSE \E t \in Unfinished :
            step' = "restore" /\ txn' = t /\ UNCHANGED <<aim, pos, own>>
  /\ UNCHANGED <<db, files, roots, outcome, faults>>

\* recover_import_transactions, up to the rollback.
Recover ==
  /\ step = "recover"
  /\ \E gone \in SUBSET Disposable :
       roots' = [t \in Txns |-> IF t \in gone THEN NoRoot ELSE roots[t]]
  /\ IF (\E t \in Unfinished : ~roots[t].valid) \/ Cardinality(Unfinished) > 1
     THEN Stop
     ELSE IF Unfinished = {} THEN Goto("ready")
     ELSE \E t \in Unfinished :
            step' = "restore" /\ txn' = t /\ UNCHANGED <<aim, pos, own>>
  /\ UNCHANGED <<db, files, outcome, faults>>

\* The second scan, then the session.
Open ==
  /\ step = "ready" /\ aim = "open"
  /\ IF Reported = {} THEN Goto("open") ELSE Stop
  /\ UNCHANGED <<db, files, roots, outcome, faults>>

\* The archive does not fit the data that is there: nothing is begun.
Reject ==
  /\ step = "ready" /\ aim = "import"
  /\ Stop
  /\ UNCHANGED <<db, files, roots, outcome, faults>>

Close ==
  /\ step = "open"
  /\ Stop
  /\ UNCHANGED <<db, files, roots, outcome, faults>>

-----------------------------------------------------------------------------
\* ImportTransaction.prepare: images and staged files go to a directory ...
Prepare ==
  /\ step = "ready" /\ aim = "import"
  /\ \E t \in Txns :
       /\ outcome[t] = "none" /\ \A u \in Txns : u < t => outcome[u] # "none"
       /\ roots' = [roots EXCEPT ![t] = [NoRoot EXCEPT !.place = "preparing",
                                           !.db = db, !.files = files]]
       /\ step' = "prepare" /\ txn' = t /\ own' = TRUE /\ UNCHANGED <<aim, pos>>
  /\ UNCHANGED <<db, files, outcome, faults>>

\* ... that is renamed when its journal is complete.
PublishRoot ==
  /\ step = "prepare"
  /\ roots' = [roots EXCEPT ![txn].place = "published"]
  /\ Goto("copy")
  /\ UNCHANGED <<db, files, outcome, faults>>

\* It fails: the directory is retired, or not; or it is already renamed and
\* the failure is that of an fsync.
PrepareFails ==
  /\ step = "prepare" /\ Fault
  /\ \E place \in {"absent", "preparing", "published"} :
       roots' = [roots EXCEPT ![txn].place = place]
  /\ End("failed")
  /\ UNCHANGED <<db, files>>

\* The user's copy of the rollback image.
Copy ==
  /\ step = "copy"
  /\ Goto("apply")
  /\ UNCHANGED <<db, files, roots, outcome, faults>>

\* import_data: one SQLite transaction.
Apply ==
  /\ step = "apply"
  /\ db' = txn /\ Goto("applied")
  /\ UNCHANGED <<files, roots, outcome, faults>>

\* restore_replace_data: the WAL is moved away, then the file is replaced.
SetAside ==
  /\ step = "apply"
  /\ db' = Bare /\ Goto("swap")
  /\ UNCHANGED <<files, roots, outcome, faults>>

Swap ==
  /\ step = "swap"
  /\ db' = txn /\ Goto("applied")
  /\ UNCHANGED <<files, roots, outcome, faults>>

\* publish_files: first every target must be what it was at prepare.
Unchanged(t) == files = roots[t].files

Verify ==
  /\ step = "verify"
  /\ IF Unchanged(txn) THEN GotoFile("publish", 1) ELSE Goto("restore")
  /\ UNCHANGED <<db, files, roots, outcome, faults>>

PublishFile ==
  /\ step = "publish"
  /\ IF pos > Targets THEN Goto("published") /\ UNCHANGED files
     ELSE /\ files' = [files EXCEPT ![pos] = txn]
          /\ GotoFile("publish", pos + 1)
  /\ UNCHANGED <<db, roots, outcome, faults>>

\* Whatever fails from the copy on is rolled back by the command itself.
StepFails ==
  /\ step \in {"copy", "apply", "swap", "verify", "publish"} /\ Fault
  /\ Goto("restore")
  /\ UNCHANGED <<db, files, roots, outcome>>

-----------------------------------------------------------------------------
PhaseAt == [applied |-> "DB_APPLIED", published |-> "FILES_PUBLISHED",
            whole |-> "COMPLETED", undone |-> "ROLLED_BACK"]
StepAfter == [applied |-> "verify", published |-> "whole",
              whole |-> "retire", undone |-> "retire"]
Marked == [roots EXCEPT ![txn].phase = PhaseAt[step]]

\* mark: the phase journal is replaced.
Mark ==
  /\ step \in DOMAIN PhaseAt
  /\ roots' = Marked
  /\ Goto(StepAfter[step])
  /\ UNCHANGED <<db, files, outcome, faults>>

\* It fails before the journal is replaced, or after.  The last mark of an
\* import is outside its try block.
MarkFails ==
  /\ step \in DOMAIN PhaseAt /\ Fault
  /\ roots' \in {roots, Marked}
  /\ CASE step \in {"applied", "published"} -> Goto("restore") /\ UNCHANGED outcome
       [] step = "whole"  -> End("failed")
       [] step = "undone" -> End("recovery_required")
  /\ UNCHANGED <<db, files>>

\* rollback: the database image, then the files, the last one first.
RestoreDatabase ==
  /\ step = "restore" /\ roots[txn].valid
  /\ db' = roots[txn].db
  /\ GotoFile("refile", Targets)
  /\ UNCHANGED <<files, roots, outcome, faults>>

\* A slip: the first file is forgotten.
RestoreFileShort ==
  /\ step = "refile"
  /\ IF pos <= 1 THEN Goto("undone") /\ UNCHANGED files
     ELSE /\ files' = [files EXCEPT ![pos] = roots[txn].files[pos]]
          /\ GotoFile("refile", pos - 1)
  /\ UNCHANGED <<db, roots, outcome, faults>>

RestoreFile ==
  /\ step = "refile"
  /\ IF pos = 0 THEN Goto("undone") /\ UNCHANGED files
     ELSE /\ files' = [files EXCEPT ![pos] = roots[txn].files[pos]]
          /\ GotoFile("refile", pos - 1)
  /\ UNCHANGED <<db, roots, outcome, faults>>

\* A slip: the root is cleaned up whether or not the rollback succeeds.
RollbackCleansUp ==
  /\ step \in {"restore", "refile"} /\ Fault
  /\ End("recovery_required")
  /\ roots' = [roots EXCEPT ![txn] = NoRoot]
  /\ UNCHANGED <<db, files>>

\* Its images are damaged, or a step fails: the root stays for the next time.
RollbackFails ==
  /\ \/ step = "restore" /\ ~roots[txn].valid /\ UNCHANGED faults
     \/ step \in {"restore", "refile"} /\ Fault
  /\ End("recovery_required")
  /\ UNCHANGED <<db, files, roots>>

\* cleanup_terminal: what cannot be renamed stays, and is no longer active.
Retire ==
  /\ step = "retire"
  /\ roots' \in {roots, [roots EXCEPT ![txn] = NoRoot]}
  /\ IF own
     THEN End(IF roots[txn].phase = "COMPLETED" THEN "committed" ELSE "rolled_back")
     ELSE Goto("ready") /\ UNCHANGED outcome
  /\ UNCHANGED <<db, files, faults>>

-----------------------------------------------------------------------------
Crash ==
  /\ step # "idle" /\ Fault
  /\ Stop
  /\ outcome' = IF own THEN [outcome EXCEPT ![txn] = "unknown"] ELSE outcome
  /\ UNCHANGED <<db, files, roots>>

\* A published journal or image no longer has its hash.
Damage ==
  /\ \E t \in Unfinished : roots' = [roots EXCEPT ![t].valid = FALSE]
  /\ step = "idle" /\ Fault
  /\ UNCHANGED <<db, files, step, job, outcome>>

Work ==
  \/ Recover \/ Open \/ Reject \/ Prepare \/ PublishRoot \/ Copy \/ Apply \/ SetAside \/ Swap
  \/ Verify \/ PublishFile \/ Mark \/ RestoreDatabase \/ RestoreFile \/ Retire

Next ==
  \/ \E a \in {"open", "import"} : Begin(a)
  \/ Work \/ Close
  \/ PrepareFails \/ StepFails \/ MarkFails \/ RollbackFails \/ Crash \/ Damage

Spec == Init /\ [][Next]_vars

\* The process that holds the locks goes on, and after a failure the user
\* starts the game again.
FairSpec == Spec /\ WF_vars(Work) /\ WF_vars(Begin("open"))

-----------------------------------------------------------------------------
AllAre(k) == db = k /\ files = [i \in 1..Targets |-> k]

\* A session, and an import that prepares its images, find the database and
\* the files of one and the same import, after any failures and deaths of
\* earlier imports and of their rollbacks (rollback, recover_import_transactions).
SessionsSeeWhole ==
  step \in {"ready", "open"} => \E k \in Contents : AllAre(k)

\* What a session finds is never an import that was reported as rolled back or
\* given to recovery, and never older than one reported as committed.
OutcomesAreTrue ==
  step = "open" =>
    /\ \A t \in Txns : outcome[t] = "committed" => db >= t
    /\ db \in Txns => outcome[db] \notin {"rolled_back", "recovery_required", "none"}

\* There is never a second unfinished transaction, so recovery never has to
\* give up for want of a lineage (recover_import_transactions).
OneUnfinished == \A t, u \in Unfinished : t = u

\* The targets an import verifies before it writes them are as it found them:
\* nobody that honours the locks has changed them (publish_files).
TargetsHold == step = "verify" => Unchanged(txn)

\* What the next session will find: the before images of an unfinished import.
Effective ==
  IF Unfinished = {} THEN [db |-> db, files |-> files]
  ELSE LET t == CHOOSE t \in Unfinished : TRUE
       IN [db |-> roots[t].db, files |-> roots[t].files]

(***************************************************************************)
(* Why it holds: the images of an unfinished transaction are whole, and    *)
(* older than it; without one the data are whole; and while one is under   *)
(* way, each step knows how far the data have moved from its images.       *)
(***************************************************************************)
Older(t) == \E k \in 0..t - 1 : /\ roots[t].db = k
                                /\ roots[t].files = [i \in 1..Targets |-> k]

ImagesAreWhole == \A t \in Unfinished : Older(t)

DataAreWhole ==
  Unfinished = {} /\ step # "prepare" => \E k \in Contents : AllAre(k)

\* Imports are numbered in the order they are begun.
Numbered ==
  /\ \A t, u \in Txns : u < t /\ outcome[t] # "none" => outcome[u] # "none"
  /\ own => /\ txn \in Txns /\ outcome[txn] = "none"
                /\ \A u \in Txns : u < txn => outcome[u] # "none"
  /\ \A t \in Unfinished \cup ({db} \cap Txns) : outcome[t] # "none" \/ (own /\ txn = t)

Importing == {"copy", "apply", "swap", "applied", "verify", "publish", "published", "whole"}
Undoing == {"restore", "refile", "undone"}

\* How the data stand at each step to the transaction at work.
Progress ==
  LET t == txn root == roots[t] IN
  /\ step \in Importing \cup {"prepare"} => own
  /\ step \in {"idle", "recover", "ready", "open"} => ~own
  /\ step \in Importing \cup Undoing => t \in Unfinished
  /\ step \in {"ready", "open", "prepare", "retire"} => Unfinished = {}
  /\ step = "prepare" => /\ root.place = "preparing" /\ root.phase = "PREPARED"
                             /\ Older(t) /\ db = root.db /\ files = root.files
  /\ step = "retire" => /\ t \in Txns /\ root.phase \in Terminal
                        /\ root.phase = "COMPLETED" <=> db = t
  /\ step \in {"copy", "apply", "undone"} => db = root.db /\ files = root.files
  /\ step \in {"swap", "applied", "verify"} => files = root.files
  /\ step \in {"applied", "verify", "publish", "published", "whole"} => db = t
  /\ step = "publish" =>
       /\ pos > 0
       /\ \A j \in 1..Targets : files[j] = IF j < pos THEN t ELSE root.files[j]
  /\ step \in {"published", "whole"} => files = [j \in 1..Targets |-> t]
  /\ step = "refile" =>
       /\ db = root.db /\ pos <= Targets
       /\ \A j \in 1..Targets : j > pos => files[j] = root.files[j]

\* What was reported, against what the next session will find.
Reports ==
  LET found == Effective.db IN
  /\ \A t \in Txns : outcome[t] = "committed" => found >= t
  /\ found \in Txns => /\ outcome[found] \notin {"rolled_back", "recovery_required"}
                       /\ outcome[found] = "none" => own /\ txn = found

\* All of it together: an invariant of every step, failure and death.
ImportInv ==
  /\ TypeOK /\ OneUnfinished /\ ImagesAreWhole /\ DataAreWhole
  /\ Numbered /\ Progress /\ Reports

-----------------------------------------------------------------------------
Atomic == INSTANCE AtomicImport WITH data <- Effective

\* Seen so, an import is one step: it happens when its last phase is written.
ImportIsAtomic == Atomic!Spec

\* An interrupted import is rolled back once the user starts anything, unless
\* its journal or an image is damaged (recovered_application_session).
RecoveryEnds ==
  Unfinished # {} ~> (Unfinished = {} \/ \E t \in Unfinished : ~roots[t].valid)

=============================================================================
