---------------------------- MODULE BackendClose ----------------------------
(***************************************************************************)
(* The two executors of a local backend and its end.  The reader scans the *)
(* journals and hands what it finds to the writer; the writer's answer to  *)
(* a load is followed by a read.  Closing stops the reader first, then the *)
(* writer, each within a time limit, and whatever is not finished by then  *)
(* is left to a thread in the background.  The application session, which  *)
(* keeps imports away, is released last.                                   *)
(***************************************************************************)
EXTENDS Integers, Sequences

CONSTANT MaxCalls   \* bound on the calls a game makes

VARIABLES
  reader, writer,   \* the LocalWriteWorkers
  main,             \* what the main thread is doing
  background,       \* what finish_shutdown is doing
  session,          \* the application session is held
  drained,          \* the last answer of drain, until the next call
  refused,          \* history: a closed writer was handed what a scan found
  calls

closeVars == <<reader, writer, main, background, session, drained, refused, calls>>

Reads == {"read", "scan"}
Writes == {"write", "ensure"}
Workers(tasks, later) ==
  [queue : Seq(tasks), running : tasks \cup later \cup {"idle"}, closed : BOOLEAN]

CloseTypeOK ==
  /\ reader \in Workers(Reads, {"scanned"})    \* a scan that has handed over
  /\ writer \in Workers(Writes, {"answer"})    \* the callbacks after an ensure
  /\ main \in {"calls", "scan", "drain", "reader", "writer", "out"}
  /\ background \in {"none", "reader", "writer", "drain"}
  /\ {session, drained, refused} \subseteq BOOLEAN
  /\ calls \in Nat

Fresh(tasks) == [queue |-> tasks, running |-> "idle", closed |-> FALSE]

\* The constructor reopens a store that could not be opened, reads the high
\* water, and scans when something is pending; if not, it tidies up.
CloseInit ==
  /\ \E opened, pending \in BOOLEAN :
       /\ reader = Fresh((IF opened THEN <<>> ELSE <<"read">>) \o <<"read">>
                           \o (IF pending THEN <<"scan">> ELSE <<>>))
       /\ writer = Fresh(IF opened /\ ~pending THEN <<"write">> ELSE <<>>)
  /\ main = "calls" /\ background = "none" /\ session = TRUE
  /\ drained = FALSE /\ refused = FALSE /\ calls = 0

Submit(worker, task) == [worker EXCEPT !.queue = Append(@, task)]

\* The futures of a worker that are not done; its callbacks come after.
Pending(worker) == worker.queue # <<>> \/ worker.running \notin {"idle", "answer"}

Joined(worker) == worker.queue = <<>> /\ worker.running = "idle"

\* The future of the last scan is not done.
Scanning == reader.running \in {"scan", "scanned"}
              \/ \E i \in DOMAIN reader.queue : reader.queue[i] = "scan"

-----------------------------------------------------------------------------
\* What a game asks for.  A scan is not begun while one is under way.
Call ==
  /\ main = "calls" /\ calls < MaxCalls
  /\ \/ \E task \in Writes : writer' = Submit(writer, task) /\ UNCHANGED reader
     \/ reader' = Submit(reader, "read") /\ UNCHANGED writer
     \/ ~Scanning /\ reader' = Submit(reader, "scan") /\ UNCHANGED writer
  /\ calls' = calls + 1 /\ drained' = FALSE
  /\ UNCHANGED <<main, background, session, refused>>

\* drain waits for a scan, which may hand over a replay, and for the writer.
Drain ==
  /\ main = "calls"
  /\ main' = IF Scanning THEN "scan" ELSE "drain"
  /\ drained' = FALSE
  /\ UNCHANGED <<reader, writer, background, session, refused, calls>>

DrainGoesOn ==
  /\ \/ main = "scan" /\ ~Scanning /\ main' = "drain" /\ UNCHANGED drained
     \/ main = "drain" /\ ~Pending(writer) /\ main' = "calls" /\ drained' = TRUE
  /\ UNCHANGED <<reader, writer, background, session, refused, calls>>

DrainTimesOut ==
  /\ (main = "scan" /\ Scanning) \/ (main = "drain" /\ Pending(writer))
  /\ main' = "calls"
  /\ UNCHANGED <<reader, writer, background, session, drained, refused, calls>>

-----------------------------------------------------------------------------
Take(worker) ==
  [worker EXCEPT !.queue = Tail(@), !.running = Head(worker.queue)]

Idle(worker) == [worker EXCEPT !.running = "idle"]

ReaderTakes ==
  /\ reader.running = "idle" /\ reader.queue # <<>>
  /\ reader' = Take(reader)
  /\ UNCHANGED <<writer, main, background, session, drained, refused, calls>>

\* A scan that finds something pending hands it to the writer.
HandOver ==
  /\ reader.running = "scan"
  /\ reader' = [reader EXCEPT !.running = "scanned"]
  /\ writer' = IF writer.closed THEN writer ELSE Submit(writer, "write")
  /\ refused' = (refused \/ writer.closed)
  /\ UNCHANGED <<main, background, session, drained, calls>>

\* A read, what is left of a scan, and a scan that finds nothing.
ReaderEnds ==
  /\ reader.running \in Reads \cup {"scanned"}
  /\ reader' = Idle(reader)
  /\ UNCHANGED <<writer, main, background, session, drained, refused, calls>>

WriterTakes ==
  /\ writer.running = "idle" /\ writer.queue # <<>>
  /\ writer' = Take(writer)
  /\ UNCHANGED <<reader, main, background, session, drained, refused, calls>>

WriterEnds ==
  /\ writer.running \in Writes
  /\ writer' = [writer EXCEPT !.running = IF @ = "ensure" THEN "answer" ELSE "idle"]
  /\ UNCHANGED <<reader, main, background, session, drained, refused, calls>>

\* after_ensure, on the writer's thread: the slot is read, or a reader closed
\* meanwhile is a temporary failure of the load.
ThenLoad ==
  /\ writer.running = "answer"
  /\ writer' = Idle(writer)
  /\ reader' = IF reader.closed THEN reader ELSE Submit(reader, "read")
  /\ UNCHANGED <<main, background, session, drained, refused, calls>>

-----------------------------------------------------------------------------
\* A slip: the writer is closed with the reader, before a running scan hands over.
CloseBoth ==
  /\ main = "calls"
  /\ reader' = [reader EXCEPT !.closed = TRUE]
  /\ writer' = [writer EXCEPT !.closed = TRUE]
  /\ main' = "reader" /\ drained' = FALSE
  /\ UNCHANGED <<background, session, refused, calls>>

CloseBackend ==
  /\ main = "calls"
  /\ reader' = [reader EXCEPT !.closed = TRUE]
  /\ main' = "reader" /\ drained' = FALSE
  /\ UNCHANGED <<writer, background, session, refused, calls>>

\* The reader is done, and only now the writer takes no more.
ReaderCloses ==
  /\ main = "reader" /\ ~Pending(reader)
  /\ writer' = [writer EXCEPT !.closed = TRUE]
  /\ main' = "writer"
  /\ UNCHANGED <<reader, background, session, drained, refused, calls>>

\* The reader is not: what it has not begun is cancelled, and the writer stays
\* open for the scan that may be running.
ReaderTimesOut ==
  /\ main = "reader" /\ Pending(reader)
  /\ reader' = [reader EXCEPT !.queue = <<>>]
  /\ main' = "out" /\ background' = "reader"
  /\ UNCHANGED <<writer, session, drained, refused, calls>>

WriterCloses ==
  /\ main = "writer" /\ Joined(writer)
  /\ main' = "out" /\ session' = FALSE
  /\ UNCHANGED <<reader, writer, background, drained, refused, calls>>

\* A slip: nobody is left to finish what the writer could not in time.
WriterTimesOutAlone ==
  /\ main = "writer" /\ Pending(writer)
  /\ main' = "out"
  /\ UNCHANGED <<reader, writer, background, session, drained, refused, calls>>

WriterTimesOut ==
  /\ main = "writer" /\ Pending(writer)
  /\ main' = "out" /\ background' = "drain"
  /\ UNCHANGED <<reader, writer, session, drained, refused, calls>>

\* A slip: finish_shutdown does not wait for the reader.
BackgroundWriterOnly ==
  /\ background # "none" /\ Joined(writer)
  /\ writer' = [writer EXCEPT !.closed = TRUE]
  /\ background' = "none" /\ session' = FALSE
  /\ UNCHANGED <<reader, main, drained, refused, calls>>

\* finish_shutdown
Background ==
  /\ \/ /\ background = "reader" /\ ~Pending(reader)
        /\ writer' = [writer EXCEPT !.closed = TRUE]
        /\ background' = "writer" /\ UNCHANGED session
     \/ /\ background = "writer" /\ Joined(writer)
        /\ background' = "none" /\ session' = FALSE /\ UNCHANGED writer
     \/ /\ background = "drain" /\ ~Pending(writer)
        /\ background' = "none" /\ session' = FALSE /\ UNCHANGED writer
  /\ UNCHANGED <<reader, main, drained, refused, calls>>

-----------------------------------------------------------------------------
ReaderWorks == ReaderTakes \/ HandOver \/ ReaderEnds
WriterWorks == WriterTakes \/ WriterEnds \/ ThenLoad
Closing == ReaderCloses \/ ReaderTimesOut \/ WriterCloses \/ WriterTimesOut

CloseNext ==
  \/ Call \/ Drain \/ DrainGoesOn \/ DrainTimesOut \/ CloseBackend
  \/ ReaderWorks \/ WriterWorks \/ Closing \/ Background

CloseSpec == CloseInit /\ [][CloseNext]_closeVars

\* The threads run, and what they are given ends: the database and the locks
\* have time limits.  Nothing makes a game close.
CloseFairness ==
  /\ WF_closeVars(ReaderWorks) /\ WF_closeVars(WriterWorks)
  /\ WF_closeVars(Closing) /\ WF_closeVars(Background)

FairCloseSpec == CloseSpec /\ CloseFairness

-----------------------------------------------------------------------------
\* The session is released only when no executor works, has work, or will get
\* any: "never release the application lease while an executor can still touch
\* SQLite or publish a journal" (close, finish_shutdown).
LeaseCoversWork ==
  ~session => /\ ~Pending(reader) /\ ~Pending(writer)
              /\ reader.closed /\ writer.closed

\* What a scan hands over is taken by the writer, also while the backend is
\* closing, and a drain that says so has waited for it (close, drain).
HandOverIsWritten ==
  /\ ~refused
  /\ drained => ~Scanning /\ ~Pending(writer)

\* A backend that is closed gives its session back, in time or later.
CloseEnds == main = "reader" ~> ~session

=============================================================================
