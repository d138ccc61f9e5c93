---------------------------- MODULE SessionProofs ----------------------------
(***************************************************************************)
(* Proofs about the two ends of a session: AppLease, for any number of     *)
(* processes, and BackendClose, for any calls and any scan.                *)
(***************************************************************************)
EXTENDS AppLease, BackendClose, TLAPS

\* Two processes never hold the gate together, and one that holds the
\* application lock exclusively is the only one that holds it at all.
LEMMA OneAtATime ==
  ASSUME LeaseInv, NEW p \in Procs, NEW q \in Procs, p # q
  PROVE  /\ ~(pc[p] \in HoldsGate /\ pc[q] \in HoldsGate)
         /\ pc[p] \in HoldsApp => pc[q] \notin HoldsApp /\ ~Session(q)
  BY DEF LeaseInv, HeldByStep, Alone, HoldsGate, HoldsApp, Session

\* The types of the variables, after any step.
LEMMA TypeStep ==
  ASSUME TypeOK, [Next]_vars
  PROVE  TypeOK'
<1> USE DEF TypeOK, Steps, Modes, Goto, locks
<1>1. CASE UNCHANGED vars
  BY <1>1 DEF vars
<1>2. ASSUME NEW p \in Procs, NEW aim \in {"session", "command"}, Begin(p, aim)
      PROVE  TypeOK'
  BY <1>2 DEF Begin
<1>3. ASSUME NEW p \in Procs, DeadlinePasses(p) \/ Prepare(p) \/ Publish(p)
      PROVE  TypeOK'
  BY <1>3 DEF DeadlinePasses, Prepare, Publish
<1>4. ASSUME NEW p \in Procs, TakeGate(p) \/ TakeMaintenance(p) \/ GiveUp(p)
      PROVE  TypeOK'
  BY <1>4 DEF TakeGate, TakeMaintenance, GiveUp
<1>5. ASSUME NEW p \in Procs, TakeApplication(p)
      PROVE  TypeOK'
  <2>1. late' \in [Procs -> BOOLEAN]
    BY <1>5 DEF TakeApplication
  <2> QED
    BY <1>5, <2>1 DEF TakeApplication
<1>6. ASSUME NEW p \in Procs, Recover(p) \/ RecoverFails(p) \/ EndCommand(p)
      PROVE  TypeOK'
  BY <1>6 DEF Recover, RecoverFails, EndCommand
<1>7. ASSUME NEW p \in Procs,
             Leave(p) \/ CloseLease(p) \/ OpenGate(p) \/ Unlock(p) \/ DropExclusive(p)
      PROVE  TypeOK'
  BY <1>7, ZenonT(60) DEF Leave, CloseLease, OpenGate, Unlock, DropExclusive
<1>8. ASSUME NEW p \in Procs, TakeShared(p) \/ Look(p)
      PROVE  TypeOK'
  BY <1>8, ZenonT(60) DEF TakeShared, Look
<1>9. ASSUME NEW p \in Procs, StartWrite(p) \/ EndWrite(p) \/ Close(p) \/ Crash(p)
      PROVE  TypeOK'
  BY <1>9, ZenonT(60) DEF StartWrite, EndWrite, Close, Crash
<1> QED
  BY <1>1, <1>2, <1>3, <1>4, <1>5, <1>6, <1>7, <1>8, <1>9 DEF Next, Proceed

\* What a process holds stays what its step says.
LEMMA HeldStep ==
  ASSUME TypeOK, HeldByStep, [Next]_vars
  PROVE  HeldByStep'
<1> USE NobodyAssumption
    DEF TypeOK, HeldByStep, HoldsGate, HoldsApp, HoldsMaint, Session, Goto, locks
<1>1. CASE UNCHANGED vars
  BY <1>1 DEF vars
<1>2. ASSUME NEW p \in Procs, NEW aim \in {"session", "command"}, Begin(p, aim)
      PROVE  HeldByStep'
  BY <1>2 DEF Begin
<1>3. ASSUME NEW p \in Procs, DeadlinePasses(p) \/ Prepare(p) \/ Publish(p)
      PROVE  HeldByStep'
  BY <1>3 DEF DeadlinePasses, Prepare, Publish
<1>4. ASSUME NEW p \in Procs, TakeGate(p)
      PROVE  HeldByStep'
  BY <1>4 DEF TakeGate
<1>5. ASSUME NEW p \in Procs, TakeApplication(p) \/ TakeMaintenance(p)
      PROVE  HeldByStep'
  BY <1>5 DEF TakeApplication, TakeMaintenance
<1>6. ASSUME NEW p \in Procs, GiveUp(p)
      PROVE  HeldByStep'
  BY <1>6 DEF GiveUp, Refused
<1>7. ASSUME NEW p \in Procs, Recover(p) \/ RecoverFails(p) \/ EndCommand(p)
      PROVE  HeldByStep'
  BY <1>7 DEF Recover, RecoverFails, EndCommand
<1>8. ASSUME NEW p \in Procs, Leave(p) \/ CloseLease(p) \/ OpenGate(p)
      PROVE  HeldByStep'
  BY <1>8 DEF Leave, CloseLease, OpenGate
<1>9. ASSUME NEW p \in Procs, Unlock(p) \/ DropExclusive(p) \/ TakeShared(p)
      PROVE  HeldByStep'
  BY <1>9 DEF Unlock, DropExclusive, TakeShared
<1>10. ASSUME NEW p \in Procs, Look(p) \/ StartWrite(p) \/ EndWrite(p) \/ Close(p)
      PROVE  HeldByStep'
  BY <1>10 DEF Look, StartWrite, EndWrite, Close
<1>11. ASSUME NEW p \in Procs, Crash(p)
      PROVE  HeldByStep'
  BY <1>11 DEF Crash
<1> QED
  BY <1>1, <1>2, <1>3, <1>4, <1>5, <1>6, <1>7, <1>8, <1>9, <1>10, <1>11
     DEF Next, Proceed

\* Only TakeApplication takes the lock exclusively, and only from nobody; only
\* TakeShared takes it shared, and not from an exclusive holder.
LEMMA AloneStep ==
  ASSUME TypeOK, Alone, [Next]_vars
  PROVE  Alone'
<1> USE DEF TypeOK, Alone, Modes, Goto, locks
<1>1. CASE UNCHANGED app
  BY <1>1
<1>2. ASSUME NEW p \in Procs, TakeApplication(p)
      PROVE  Alone'
  BY <1>2 DEF TakeApplication, Grants
<1>3. ASSUME NEW p \in Procs, TakeShared(p)
      PROVE  Alone'
  BY <1>3 DEF TakeShared, Grants
<1>4. ASSUME NEW p \in Procs, app' = [app EXCEPT ![p] = "none"]
      PROVE  Alone'
  BY <1>4
<1> QED
  BY <1>1, <1>2, <1>3, <1>4
     DEF vars, Next, Proceed, Begin, TakeGate, TakeMaintenance, DeadlinePasses, GiveUp,
         Recover, RecoverFails, Prepare, Publish, EndCommand, Leave, CloseLease,
         OpenGate, Unlock, DropExclusive, Look, StartWrite, EndWrite, Close, Crash

\* The two facts about roots.  Roots change only at the hands of a process
\* that keeps all others out of the steps the facts speak of.
LEMMA RootsStep ==
  ASSUME LeaseInv, [Next]_vars
  PROVE  NoPublishedRoot' /\ SessionSeesNoImport'
<1> USE DEF NoPublishedRoot, SessionSeesNoImport, LeaseInv, TypeOK, Goto, locks
<1>1. ASSUME NEW p \in Procs, pc[p] \in {"recover", "import"},
             NEW step, pc' = [pc EXCEPT ![p] = step],
             \/ step \in {"import", "leave"}
             \/ step = "unlock" /\ "published" \notin roots'
      PROVE  NoPublishedRoot' /\ SessionSeesNoImport'
  <2>1. \A q \in Procs \ {p} : pc[q] \notin {"unlock", "drop", "share", "look", "open",
  "write"}
    BY <1>1, OneAtATime DEF HoldsGate, HoldsApp, Session
  <2> QED
    BY <1>1, <2>1
<1>2. ASSUME UNCHANGED roots, NEW p \in Procs, NEW step, pc' = [pc EXCEPT ![p] = step],
             \/ step \notin {"unlock", "drop", "share", "look", "open", "write"}
             \/ step \in {"drop", "share", "look"} /\ pc[p] \in {"unlock", "drop", "share"}
             \/ step \in {"open", "write"} /\ roots = {}
      PROVE  NoPublishedRoot' /\ SessionSeesNoImport'
  BY <1>2
<1>3. CASE UNCHANGED <<pc, roots>>
  BY <1>3
<1>4. ASSUME NEW p \in Procs, Recover(p) \/ RecoverFails(p) \/ EndCommand(p)
      PROVE  NoPublishedRoot' /\ SessionSeesNoImport'
  <2>1. CASE Recover(p)
    BY <2>1, <1>1 DEF Recover
  <2>2. CASE RecoverFails(p)
    BY <2>2, <1>1 DEF RecoverFails
  <2>3. CASE EndCommand(p)
    BY <2>3, <1>1 DEF EndCommand
  <2> QED
    BY <1>4, <2>1, <2>2, <2>3
<1>5. ASSUME NEW p \in Procs, Prepare(p) \/ Publish(p)
      PROVE  NoPublishedRoot' /\ SessionSeesNoImport'
  <2>1. pc[p] = "import" /\ pc' = pc
    BY <1>5 DEF Prepare, Publish
  <2>2. \A q \in Procs \ {p} : pc[q] \notin {"unlock", "drop", "share", "look", "open",
  "write"}
    BY <2>1, OneAtATime DEF HoldsGate, HoldsApp, Session
  <2> QED
    BY <2>1, <2>2
<1>6. ASSUME NEW p \in Procs, NEW aim \in {"session", "command"}, Begin(p, aim)
      PROVE  NoPublishedRoot' /\ SessionSeesNoImport'
  BY <1>6, <1>2 DEF Begin
<1>7. ASSUME NEW p \in Procs, TakeGate(p) \/ TakeApplication(p) \/ TakeMaintenance(p)
      PROVE  NoPublishedRoot' /\ SessionSeesNoImport'
  BY <1>7, <1>2 DEF TakeGate, TakeApplication, TakeMaintenance
<1>8. ASSUME NEW p \in Procs, GiveUp(p)
      PROVE  NoPublishedRoot' /\ SessionSeesNoImport'
  BY <1>8, <1>2 DEF GiveUp, Refused
<1>9. ASSUME NEW p \in Procs, Leave(p) \/ CloseLease(p) \/ OpenGate(p) \/ Close(p) \/
Crash(p)
      PROVE  NoPublishedRoot' /\ SessionSeesNoImport'
  BY <1>9, <1>2 DEF Leave, CloseLease, OpenGate, Close, Crash
<1>10. ASSUME NEW p \in Procs, Unlock(p) \/ DropExclusive(p) \/ TakeShared(p)
      PROVE  NoPublishedRoot' /\ SessionSeesNoImport'
  BY <1>10, <1>2 DEF Unlock, DropExclusive, TakeShared
<1>11. ASSUME NEW p \in Procs, Look(p)
      PROVE  NoPublishedRoot' /\ SessionSeesNoImport'
  BY <1>11, <1>2 DEF Look
<1>12. ASSUME NEW p \in Procs, StartWrite(p) \/ EndWrite(p)
      PROVE  NoPublishedRoot' /\ SessionSeesNoImport'
  BY <1>12, <1>2 DEF StartWrite, EndWrite
<1>13. ASSUME NEW p \in Procs, DeadlinePasses(p)
      PROVE  NoPublishedRoot' /\ SessionSeesNoImport'
  BY <1>13, <1>3 DEF DeadlinePasses
<1> QED
  BY <1>3, <1>4, <1>5, <1>6, <1>7, <1>8, <1>9, <1>10, <1>11, <1>12, <1>13
     DEF vars, Next, Proceed

\* The locks follow the steps, the exclusive holder of the application lock is
\* alone, and no unfinished import gets under a session: an invariant of every
\* run of any number of games and commands that start, work and die.
THEOREM LeaseInductive == Spec => []LeaseInv
<1>1. Init => LeaseInv
  BY NobodyAssumption
     DEF Init, LeaseInv, TypeOK, HeldByStep, Alone, NoPublishedRoot, SessionSeesNoImport,
         Modes, Steps, HoldsGate, HoldsApp, HoldsMaint, Session
<1>2. LeaseInv /\ [Next]_vars => LeaseInv'
  <2> SUFFICES ASSUME LeaseInv, [Next]_vars PROVE LeaseInv'
    OBVIOUS
  <2>1. TypeOK /\ HeldByStep /\ Alone
    BY DEF LeaseInv
  <2>2. TypeOK' /\ HeldByStep' /\ Alone'
    BY <2>1, TypeStep, HeldStep, AloneStep
  <2>3. NoPublishedRoot' /\ SessionSeesNoImport'
    BY RootsStep
  <2> QED
    BY <2>2, <2>3 DEF LeaseInv
<1> QED
  BY <1>1, <1>2, PTL DEF Spec

\* Recoveries and commands exclude each other and every session.
THEOREM LeaseExcludes == Spec => []Exclusion
<1>1. LeaseInv => Exclusion
  <2> SUFFICES ASSUME LeaseInv, NEW p \in Procs, NEW q \in Procs, p # q, Inside(p)
               PROVE  ~Inside(q) /\ ~Session(q)
    BY DEF Exclusion
  <2> QED
    BY OneAtATime DEF Inside, HoldsApp
<1> QED
  BY <1>1, LeaseInductive, PTL

\* A running game has no unfinished import under it.
THEOREM NoImportUnderSession == Spec => []SessionSeesNoImport
<1>1. LeaseInv => SessionSeesNoImport
  BY DEF LeaseInv
<1> QED
  BY <1>1, LeaseInductive, PTL

\* The transition gate makes the non-atomic change of locks safe.
THEOREM GateSuffices == Spec => []GateClosesTheGap
<1>1. LeaseInv => GateClosesTheGap
  BY DEF LeaseInv, NoPublishedRoot, GateClosesTheGap
<1> QED
  BY <1>1, LeaseInductive, PTL

\* The maintenance lock is always free for whoever may ask for it.
THEOREM NeverBusy == Spec => []MaintenanceNeverBusy
<1>1. LeaseInv => MaintenanceNeverBusy
  <2> SUFFICES ASSUME LeaseInv, NEW p \in Procs
               PROVE  /\ pc[p] = "maintenance" => Grants(maint, p, "exclusive")
                      /\ pc[p] = "open" => Grants(maint, p, "shared")
    BY DEF MaintenanceNeverBusy
  <2>1. \A q \in Procs \ {p} : pc[p] = "maintenance" => pc[q] \notin HoldsApp /\ ~Session(q)
    BY OneAtATime DEF HoldsApp
  <2>2. \A q \in Procs \ {p} : pc[p] = "open" => pc[q] \notin HoldsApp
    BY OneAtATime DEF Session
  <2> QED
    BY <2>1, <2>2
       DEF LeaseInv, HeldByStep, Grants, HoldsApp, HoldsMaint, Session
<1> QED
  BY <1>1, LeaseInductive, PTL

-----------------------------------------------------------------------------
(***************************************************************************)
(* The end: what a closing backend has taken on.                           *)
(***************************************************************************)
\* While the backend is open both executors take tasks and the session is held.
OpenStage ==
  main \in {"calls", "scan", "drain"} =>
    background = "none" /\ session /\ ~reader.closed /\ ~writer.closed

\* The writer outlives the reader: it is closed only when the reader is done.
ReaderStage ==
  main = "reader" =>
    background = "none" /\ session /\ reader.closed /\ ~writer.closed

WriterStage ==
  main = "writer" =>
    /\ background = "none" /\ session
    /\ reader.closed /\ writer.closed /\ ~Pending(reader)

\* The same of the thread in the background, and the session goes last.
OutStage ==
  main = "out" =>
    /\ reader.closed
    /\ background = "reader" => session /\ ~writer.closed
    /\ background # "reader" => writer.closed /\ ~Pending(reader)
    /\ background \in {"writer", "drain"} => session
    /\ background = "none" => ~Pending(writer)

Stages == OpenStage /\ ReaderStage /\ WriterStage /\ OutStage

\* What drain waits for does not come back before the next call.
DrainWaits ==
  /\ main = "drain" => ~Scanning
  /\ drained => ~Scanning /\ ~Pending(writer)

CloseInv == CloseTypeOK /\ Stages /\ ~refused /\ DrainWaits

-----------------------------------------------------------------------------
\* What a worker's task and the end of one leave of it.
LEMMA TakeLeaves ==
  ASSUME NEW tasks, NEW later, NEW worker \in Workers(tasks, later),
         worker.queue # <<>>
  PROVE  /\ Take(worker) \in Workers(tasks, later)
         /\ Take(worker).closed = worker.closed
         /\ Take(worker).running = worker.queue[1]
         /\ \A i \in DOMAIN Take(worker).queue :
              i + 1 \in DOMAIN worker.queue /\ Take(worker).queue[i] = worker.queue[i + 1]
<1>1. worker.queue \in Seq(tasks) /\ Head(worker.queue) = worker.queue[1]
      /\ worker.queue[1] \in tasks /\ Tail(worker.queue) \in Seq(tasks)
  BY DEF Workers
<1>2. /\ Take(worker).queue = Tail(worker.queue)
      /\ Take(worker).running = Head(worker.queue)
      /\ Take(worker).closed = worker.closed
      /\ Take(worker) \in Workers(tasks, later)
  BY <1>1 DEF Take, Workers
<1>3. \A i \in DOMAIN Tail(worker.queue) :
        i + 1 \in DOMAIN worker.queue /\ Tail(worker.queue)[i] = worker.queue[i + 1]
  BY <1>1
<1> QED
  BY <1>1, <1>2, <1>3

LEMMA SubmitAdds ==
  ASSUME NEW tasks, NEW later, NEW worker \in Workers(tasks, later), NEW task \in tasks
  PROVE  /\ Submit(worker, task) \in Workers(tasks, later)
         /\ Submit(worker, task).closed = worker.closed
         /\ Submit(worker, task).running = worker.running
         /\ Submit(worker, task).queue = Append(worker.queue, task)
         /\ worker.queue \in Seq(tasks)
  BY DEF Submit, Workers

-----------------------------------------------------------------------------
\* Every step keeps the shapes of the executors and of the threads.
LEMMA ExecutorsStep ==
  ASSUME CloseTypeOK, [CloseNext]_closeVars
  PROVE  reader' \in Workers(Reads, {"scanned"}) /\ writer' \in Workers(Writes, {"answer"})
<1>0. reader \in Workers(Reads, {"scanned"}) /\ writer \in Workers(Writes, {"answer"})
  BY DEF CloseTypeOK
<1>1. CASE UNCHANGED <<reader, writer>>
  BY <1>0, <1>1
<1>2. CASE Call
  <2>1. "read" \in Reads /\ "scan" \in Reads
    BY DEF Reads
  <2> QED
    BY <1>0, <1>2, <2>1, SubmitAdds DEF Call
<1>3. CASE CloseBackend \/ ReaderTimesOut
  <2>1. <<>> \in Seq(Reads)
    OBVIOUS
  <2>2. CASE CloseBackend
    BY <1>0, <2>2 DEF CloseBackend, Workers
  <2>3. CASE ReaderTimesOut
    BY <1>0, <2>1, <2>3 DEF ReaderTimesOut, Workers
  <2> QED
    BY <1>3, <2>2, <2>3
<1>4. CASE ReaderCloses \/ Background
  BY <1>0, <1>4 DEF ReaderCloses, Background, Workers
<1>5. CASE ReaderTakes
  BY <1>0, <1>5, TakeLeaves DEF ReaderTakes
<1>6. CASE WriterTakes
  BY <1>0, <1>6, TakeLeaves DEF WriterTakes
<1>7. CASE HandOver
  <2>1. reader' \in Workers(Reads, {"scanned"})
    BY <1>0, <1>7 DEF HandOver, Workers, Reads
  <2>2. writer' \in Workers(Writes, {"answer"})
    BY <1>0, <1>7, SubmitAdds DEF HandOver, Writes
  <2> QED
    BY <2>1, <2>2
<1>8. CASE ReaderEnds \/ WriterEnds
  BY <1>0, <1>8 DEF ReaderEnds, WriterEnds, Idle, Workers
<1>9. CASE ThenLoad
  <2>1. writer' \in Workers(Writes, {"answer"})
    BY <1>0, <1>9 DEF ThenLoad, Idle, Workers
  <2>2. reader' \in Workers(Reads, {"scanned"})
    BY <1>0, <1>9, SubmitAdds DEF ThenLoad, Reads
  <2> QED
    BY <2>1, <2>2
<1> QED
  BY <1>1, <1>2, <1>3, <1>4, <1>5, <1>6, <1>7, <1>8, <1>9
  DEF CloseNext, ReaderWorks, WriterWorks, Closing, closeVars, Drain, DrainGoesOn,
  DrainTimesOut,
      WriterCloses, WriterTimesOut

LEMMA CloseTypeStep ==
  ASSUME CloseTypeOK, [CloseNext]_closeVars
  PROVE  CloseTypeOK'
<1>1. reader' \in Workers(Reads, {"scanned"}) /\ writer' \in Workers(Writes, {"answer"})
  BY ExecutorsStep
<1>2. /\ main' \in {"calls", "scan", "drain", "reader", "writer", "out"}
      /\ background' \in {"none", "reader", "writer", "drain"}
  BY DEF CloseTypeOK, CloseNext, closeVars, ReaderWorks, WriterWorks, Closing, Call, Drain,
         DrainGoesOn, DrainTimesOut, CloseBackend, ReaderTakes, HandOver, ReaderEnds,
         WriterTakes, WriterEnds, ThenLoad, ReaderCloses, ReaderTimesOut, WriterCloses,
         WriterTimesOut, Background
<1>3. session' \in BOOLEAN /\ drained' \in BOOLEAN
  BY Zenon
  DEF CloseTypeOK, CloseNext, closeVars, ReaderWorks, WriterWorks, Closing, Call, Drain,
         DrainGoesOn, DrainTimesOut, CloseBackend, ReaderTakes, HandOver, ReaderEnds,
         WriterTakes, WriterEnds, ThenLoad, ReaderCloses, ReaderTimesOut, WriterCloses,
         WriterTimesOut, Background
<1>4. refused' \in BOOLEAN
  BY Zenon
  DEF CloseTypeOK, CloseNext, closeVars, ReaderWorks, WriterWorks, Closing, Call, Drain,
         DrainGoesOn, DrainTimesOut, CloseBackend, ReaderTakes, HandOver, ReaderEnds,
         WriterTakes, WriterEnds, ThenLoad, ReaderCloses, ReaderTimesOut, WriterCloses,
         WriterTimesOut, Background
<1>5. calls' \in Nat
  BY DEF CloseTypeOK, CloseNext, closeVars, ReaderWorks, WriterWorks, Closing, Call, Drain,
         DrainGoesOn, DrainTimesOut, CloseBackend, ReaderTakes, HandOver, ReaderEnds,
         WriterTakes, WriterEnds, ThenLoad, ReaderCloses, ReaderTimesOut, WriterCloses,
         WriterTimesOut, Background
<1> QED
  BY <1>1, <1>2, <1>3, <1>4, <1>5 DEF CloseTypeOK

-----------------------------------------------------------------------------
\* No step closes, hands over or releases before its time.
LEMMA StagesStep ==
  ASSUME CloseTypeOK, Stages, ~refused, [CloseNext]_closeVars
  PROVE  Stages' /\ ~refused'
<1>0. /\ reader \in Workers(Reads, {"scanned"}) /\ writer \in Workers(Writes, {"answer"})
      /\ reader' \in Workers(Reads, {"scanned"}) /\ writer' \in Workers(Writes, {"answer"})
      /\ main \in {"calls", "scan", "drain", "reader", "writer", "out"}
      /\ background \in {"none", "reader", "writer", "drain"}
  BY ExecutorsStep DEF CloseTypeOK
<1> USE DEF Stages, OpenStage, ReaderStage, WriterStage, OutStage
<1>1. CASE UNCHANGED closeVars
  BY <1>1 DEF closeVars, Pending
<1>2. CASE Call
  <2>1. reader'.closed = reader.closed /\ writer'.closed = writer.closed
    BY <1>0, <1>2, SubmitAdds DEF Call, Reads
  <2> QED
    BY <1>2, <2>1 DEF Call
<1>3. CASE Drain \/ DrainGoesOn \/ DrainTimesOut
  BY <1>0, <1>3 DEF Drain, DrainGoesOn, DrainTimesOut, Pending
<1>4. CASE CloseBackend
  BY <1>0, <1>4 DEF CloseBackend, Workers
<1>5. CASE ReaderTakes
  BY <1>0, <1>5, TakeLeaves DEF ReaderTakes, Pending
<1>6. CASE HandOver
  <2>1. Pending(reader)
    BY <1>6 DEF HandOver, Pending
  <2>2. ~writer.closed /\ main # "writer" /\ (main = "out" => background = "reader")
    BY <1>0, <2>1
  <2>3. reader'.closed = reader.closed
    BY <1>0, <1>6 DEF HandOver, Workers
  <2>4. writer'.closed = writer.closed
    BY <1>0, <1>6, SubmitAdds DEF HandOver, Writes
  <2> QED
    BY <1>0, <1>6, <2>2, <2>3, <2>4 DEF HandOver
<1>7. CASE ReaderEnds
  BY <1>0, <1>7 DEF ReaderEnds, Idle, Pending, Workers
<1>8. CASE WriterTakes
  BY <1>0, <1>8, TakeLeaves DEF WriterTakes, Pending
<1>9. CASE WriterEnds
  BY <1>0, <1>9 DEF WriterEnds, Pending, Workers, Writes
<1>10. CASE ThenLoad
  <2>1. writer'.closed = writer.closed /\ (~Pending(writer) => ~Pending(writer'))
    BY <1>0, <1>10 DEF ThenLoad, Idle, Pending, Workers
  <2>2. reader'.closed = reader.closed /\ (reader.closed => reader' = reader)
    BY <1>0, <1>10, SubmitAdds DEF ThenLoad, Reads
  <2> QED
    BY <1>0, <1>10, <2>1, <2>2 DEF ThenLoad, Pending
<1>11. CASE ReaderCloses \/ ReaderTimesOut
  BY <1>0, <1>11 DEF ReaderCloses, ReaderTimesOut, Pending, Workers
<1>12. CASE WriterCloses \/ WriterTimesOut
  BY <1>0, <1>12 DEF WriterCloses, WriterTimesOut, Pending, Joined
<1>13. CASE Background
  BY <1>0, <1>13 DEF Background, Pending, Joined, Workers
<1> QED
  BY <1>1, <1>2, <1>3, <1>4, <1>5, <1>6, <1>7, <1>8, <1>9, <1>10, <1>11, <1>12, <1>13
  DEF CloseNext, ReaderWorks, WriterWorks, Closing

-----------------------------------------------------------------------------
\* Only a call and the scan's own beginning make a scan.
LEMMA NoNewScan ==
  ASSUME CloseTypeOK, [CloseNext]_closeVars, ~Call, ~Scanning
  PROVE  ~Scanning'
<1>0. reader \in Workers(Reads, {"scanned"}) /\ reader'.queue \in Seq(Reads)
  BY ExecutorsStep DEF CloseTypeOK, Workers
<1>1. CASE reader'.queue = reader.queue /\ reader'.running = reader.running
  BY <1>1 DEF Scanning
<1>2. CASE ReaderTakes
  <2>1. /\ reader'.running = reader.queue[1] /\ 1 \in DOMAIN reader.queue
        /\ \A i \in DOMAIN reader'.queue :
             i + 1 \in DOMAIN reader.queue /\ reader'.queue[i] = reader.queue[i + 1]
    <3>1. reader.queue \in Seq(Reads) /\ reader.queue # <<>> /\ reader' = Take(reader)
      BY <1>0, <1>2 DEF ReaderTakes, Workers
    <3>2. 1 \in DOMAIN reader.queue
      BY <3>1
    <3> QED
      BY <1>0, <3>1, <3>2, TakeLeaves
  <2>2. reader.queue[1] \in Reads /\ reader.queue[1] # "scan"
    BY <1>0, <2>1 DEF Scanning, Workers
  <2> QED
    BY <2>1, <2>2 DEF Scanning, Reads
<1>3. CASE HandOver
  BY <1>3 DEF HandOver, Scanning
<1>4. CASE ReaderEnds
  BY <1>0, <1>4 DEF ReaderEnds, Idle, Workers, Scanning
<1>5. CASE ThenLoad
  <2>1. CASE reader' = reader
    BY <1>1, <2>1
  <2>2. CASE reader' = Submit(reader, "read")
    <3>1. /\ reader'.queue = Append(reader.queue, "read")
          /\ reader'.running = reader.running /\ reader.queue \in Seq(Reads)
      BY <1>0, <2>2 DEF Submit, Workers
    <3>2. \A i \in DOMAIN reader'.queue :
            reader'.queue[i] = "read" \/ (i \in DOMAIN reader.queue
                                          /\ reader'.queue[i] = reader.queue[i])
      BY <3>1
    <3> QED
      BY <3>1, <3>2 DEF Scanning
  <2> QED
    BY <1>5, <2>1, <2>2 DEF ThenLoad
<1>6. CASE ReaderTimesOut
  BY <1>0, <1>6 DEF ReaderTimesOut, Workers, Scanning
<1>7. CASE CloseBackend
  BY <1>0, <1>1, <1>7 DEF CloseBackend, Workers
<1> QED
  BY <1>1, <1>2, <1>3, <1>4, <1>5, <1>6, <1>7
  DEF CloseNext, closeVars, ReaderWorks, WriterWorks, Closing, Drain, DrainGoesOn,
  DrainTimesOut,
      WriterTakes, WriterEnds, ReaderCloses, WriterCloses, WriterTimesOut, Background

\* A writer with nothing to do gets a task by a call or from a scan.
LEMMA NoNewWrite ==
  ASSUME CloseTypeOK, [CloseNext]_closeVars, ~Call, ~HandOver, ~Pending(writer)
  PROVE  ~Pending(writer')
<1>0. writer \in Workers(Writes, {"answer"})
  BY DEF CloseTypeOK
<1>1. CASE writer'.queue = writer.queue /\ writer'.running = writer.running
  BY <1>1 DEF Pending
<1>2. CASE ReaderCloses \/ Background
  BY <1>0, <1>1, <1>2 DEF ReaderCloses, Background, Workers
<1>3. CASE WriterTakes \/ WriterEnds
  BY <1>3 DEF WriterTakes, WriterEnds, Pending, Writes
<1>4. CASE ThenLoad
  BY <1>0, <1>4 DEF ThenLoad, Idle, Pending, Workers
<1> QED
  BY <1>1, <1>2, <1>3, <1>4
  DEF CloseNext, closeVars, ReaderWorks, WriterWorks, Closing, Drain, DrainGoesOn,
  DrainTimesOut,
      ReaderTakes, ReaderEnds, CloseBackend, ReaderTimesOut, WriterCloses, WriterTimesOut

LEMMA DrainStep ==
  ASSUME CloseTypeOK, DrainWaits, [CloseNext]_closeVars
  PROVE  DrainWaits'
<1>1. CASE Call
  BY <1>1 DEF Call, DrainWaits
<1>2. CASE HandOver
  <2>1. Scanning
    BY <1>2 DEF HandOver, Scanning
  <2> QED
    BY <1>2, <2>1 DEF HandOver, DrainWaits
<1>3. CASE ~Call /\ ~HandOver
  <2>1. (~Scanning => ~Scanning') /\ (~Pending(writer) => ~Pending(writer'))
    BY <1>3, NoNewScan, NoNewWrite
  <2>2. main' = "drain" => main = "drain" \/ ~Scanning
    BY <1>3
    DEF CloseNext, closeVars, ReaderWorks, WriterWorks, Closing, Drain, DrainGoesOn,
        DrainTimesOut, CloseBackend, ReaderTakes, ReaderEnds, WriterTakes, WriterEnds,
        ThenLoad, ReaderCloses,
        ReaderTimesOut, WriterCloses, WriterTimesOut, Background
  <2>3. drained' => drained \/ (main = "drain" /\ ~Pending(writer))
    BY <1>3, Zenon
    DEF CloseNext, closeVars, ReaderWorks, WriterWorks, Closing, Drain, DrainGoesOn,
        DrainTimesOut, CloseBackend, ReaderTakes, ReaderEnds, WriterTakes, WriterEnds,
        ThenLoad, ReaderCloses,
        ReaderTimesOut, WriterCloses, WriterTimesOut, Background
  <2> QED
    BY <2>1, <2>2, <2>3 DEF DrainWaits
<1> QED
  BY <1>1, <1>2, <1>3

-----------------------------------------------------------------------------
LEMMA CloseInitTyped == CloseInit => CloseTypeOK
<1> SUFFICES ASSUME CloseInit
             PROVE  CloseTypeOK
  OBVIOUS
<1>1. PICK opened \in BOOLEAN, pending \in BOOLEAN :
        /\ reader = Fresh((IF opened THEN <<>> ELSE <<"read">>) \o <<"read">>
                           \o (IF pending THEN <<"scan">> ELSE <<>>))
        /\ writer = Fresh(IF opened /\ ~pending THEN <<"write">> ELSE <<>>)
  BY DEF CloseInit
<1>2. /\ <<>> \in Seq(Reads) /\ <<"read">> \in Seq(Reads) /\ <<"scan">> \in Seq(Reads)
      /\ <<>> \in Seq(Writes) /\ <<"write">> \in Seq(Writes)
  BY DEF Reads, Writes
<1>3. \A s, t \in Seq(Reads) : s \o t \in Seq(Reads)
  OBVIOUS
<1>4. (IF opened THEN <<>> ELSE <<"read">>) \o <<"read">>
        \o (IF pending THEN <<"scan">> ELSE <<>>) \in Seq(Reads)
  BY <1>2, <1>3
<1>5. \A tasks, later : \A s \in Seq(tasks) : Fresh(s) \in Workers(tasks, later)
  BY DEF Fresh, Workers
<1>6. reader \in Workers(Reads, {"scanned"}) /\ writer \in Workers(Writes, {"answer"})
  BY <1>1, <1>2, <1>4, <1>5
<1> QED
  BY <1>6 DEF CloseInit, CloseTypeOK

LEMMA InitStages == CloseInit => Stages /\ ~refused /\ DrainWaits
  BY DEF CloseInit, Stages, OpenStage, ReaderStage, WriterStage, OutStage, Fresh, DrainWaits

\* The parts of the backend are closed in order, and nothing is handed over late.
THEOREM CloseInductive == CloseSpec => []CloseInv
<1>1. CloseInit => CloseInv
  BY CloseInitTyped, InitStages DEF CloseInv
<1>2. CloseInv /\ [CloseNext]_closeVars => CloseInv'
  BY CloseTypeStep, StagesStep, DrainStep DEF CloseInv
<1> QED
  BY <1>1, <1>2, PTL DEF CloseSpec

\* The session is released when no executor works, has work or will get any.
THEOREM LeaseOutlivesWork == CloseSpec => []LeaseCoversWork
<1>1. CloseInv => LeaseCoversWork
  BY DEF CloseInv, CloseTypeOK, Stages, OpenStage, ReaderStage, WriterStage, OutStage,
         LeaseCoversWork
<1> QED
  BY <1>1, CloseInductive, PTL

\* What a scan finds is taken by the writer, and written when a drain says so.
THEOREM HandOversAreTaken == CloseSpec => []HandOverIsWritten
<1>1. CloseInv => HandOverIsWritten
  BY DEF CloseInv, DrainWaits, HandOverIsWritten
<1> QED
  BY <1>1, CloseInductive, PTL

=============================================================================
