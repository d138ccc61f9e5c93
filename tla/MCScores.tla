------------------------------ MODULE MCScores ------------------------------
(***************************************************************************)
(* Eight small instances of the way of a score, chosen by the initial      *)
(* state: "calls", the store under any calls (ScoreStore itself);          *)
(* "replay", one submission, two processes and three troubles; "replays",  *)
(* two submissions of one attempt and two processes; "alone", the same     *)
(* with one process and two troubles; "game", a game of three scores;      *)
(* "troubled", three submissions of a game of two scores, with a trouble;  *)
(* "reset", two games in a row; "http", the client of the HTTP server.     *)
(***************************************************************************)
EXTENDS ScoreStore, ScoreGame, HttpScores

CONSTANTS a, b, c, x, y, p, q, w1, w2

VARIABLES scenario, left

outboxOnly == <<spool, orphans, up, memory, queue, job, answer, ghosts, troubles>>
httpOnly == <<given, tasks, worker, late, failed, confirmed, repeating, denied, losses>>
mcvars == <<scenario, storeVars, outboxOnly, gameVars, httpOnly, left>>

Call(req, att, hint, bare, rev, score, kind) ==
  [req |-> req, att |-> att, hint |-> hint, bare |-> bare, rev |-> rev, score |-> score,
   kind |-> kind]
Total(req, rev, score) == Call(req, a, None, FALSE, rev, score, x)

\* Totals of an attempt with and without a row id, a request used twice, calls
\* of old clients, another kind, and a game of one final score.
MCCalls ==
  {Total(1, 1, 1), Total(1, 1, 2), Call(5, a, None, FALSE, 3, 3, y),
   Call(2, a, a, FALSE, 2, 3, x), Call(3, a, a, FALSE, 2, 3, x),
   Call(4, b, a, TRUE, 1, 2, x), Call(4, b, None, TRUE, 1, 2, x), Call(5, b, a, FALSE, 1, 2, x),
   Call(6, c, None, FALSE, 1, 1, x), Call(6, c, None, FALSE, 2, 2, x)}

Replay == INSTANCE ScoreReplay WITH
  Attempts <- {a}, Requests <- 1 .. 1, MaxRequests <- 1, MaxTroubles <- 3,
  Calls <- {Total(1, 1, 1)}
Replays == INSTANCE ScoreReplay WITH
  Attempts <- {a}, Requests <- 1 .. 2, MaxRequests <- 2, MaxTroubles <- 0,
  Calls <- {Total(1, 1, 1), Total(2, 2, 2)}
Alone == INSTANCE ScoreReplay WITH
  Attempts <- {a}, Requests <- 1 .. 2, MaxRequests <- 2, MaxTroubles <- 2,
  Procs <- {p}, Calls <- {Total(1, 1, 1), Total(2, 2, 2)}
Long == INSTANCE ScoreGame WITH
  Attempts <- {a}, Requests <- 1 .. 3, MaxRequests <- 3, MaxTroubles <- 0, MaxScore <- 3,
  Procs <- {p}, Kind <- x
Troubled == INSTANCE ScoreGame WITH
  Attempts <- {a}, Requests <- 1 .. 3, MaxRequests <- 3, MaxTroubles <- 1, MaxScore <- 2,
  Procs <- {p}, Kind <- x
Two == INSTANCE ScoreGame WITH
  Attempts <- {a, b}, Requests <- 1 .. 2, MaxRequests <- 2, MaxTroubles <- 1, MaxScore <- 2,
  Procs <- {p}, Kind <- x
Http == INSTANCE HttpScores WITH
  Attempts <- {a, c}, Requests <- 1 .. 3,
  Calls <- {Total(1, 1, 1), Total(2, 2, 2), Call(3, c, None, FALSE, 1, 1, x)}

\* What a scenario has no use for.
NoBackend ==
  /\ spool = None /\ orphans = None /\ up = None /\ pend = None /\ nondur = None
  /\ retrying = None /\ scan = None /\ event = None /\ queue = None /\ job = None
  /\ answer = None /\ published = {} /\ refused = {} /\ aside = {} /\ troubles = 0
NoGame == game = None /\ slot = None /\ made = None /\ sent = {}
NoHttp ==
  /\ given = {} /\ tasks = <<>> /\ worker = [w \in Workers |-> Free]
  /\ late = {} /\ failed = {} /\ confirmed = [t \in Attempts |-> -1]
  /\ repeating = {} /\ denied = {} /\ losses = 0

MCInit ==
  \/ scenario = "calls" /\ StoreInit /\ NoBackend /\ NoGame /\ NoHttp /\ left = None
  \/ scenario = "replay" /\ Replay!Init /\ accepted = {} /\ NoGame /\ NoHttp
  \/ scenario = "replays" /\ Replays!Init /\ accepted = {} /\ NoGame /\ NoHttp
  \/ scenario = "alone" /\ Alone!Init /\ accepted = {} /\ NoGame /\ NoHttp
  \/ scenario = "game" /\ Long!GameInit /\ accepted = {} /\ left = None /\ NoHttp
  \/ scenario = "troubled" /\ Troubled!GameInit /\ accepted = {} /\ left = None /\ NoHttp
  \/ scenario = "reset" /\ Two!GameInit /\ accepted = {} /\ left = None /\ NoHttp
  \/ scenario = "http" /\ Http!ClientInit /\ accepted = {} /\ NoBackend /\ NoGame /\ left = None

MCNext ==
  \/ scenario = "calls" /\ StoreNext
     /\ UNCHANGED <<scenario, outboxOnly, gameVars, httpOnly, left>>
  \/ scenario = "replay" /\ Replay!Next /\ UNCHANGED <<scenario, accepted, gameVars, httpOnly>>
  \/ scenario = "replays" /\ Replays!Next /\ UNCHANGED <<scenario, accepted, gameVars, httpOnly>>
  \/ scenario = "alone" /\ Alone!Next /\ UNCHANGED <<scenario, accepted, gameVars, httpOnly>>
  \/ scenario = "game" /\ Long!GameNext /\ UNCHANGED <<scenario, accepted, httpOnly, left>>
  \/ scenario = "troubled" /\ Troubled!GameNext /\ UNCHANGED <<scenario, accepted, httpOnly, left>>
  \/ scenario = "reset" /\ Two!GameNext /\ UNCHANGED <<scenario, accepted, httpOnly, left>>
  \/ scenario = "http" /\ Http!ClientNext
     /\ UNCHANGED <<scenario, accepted, outboxOnly, gameVars, left>>

MCSpec == MCInit /\ [][MCNext]_mcvars

-----------------------------------------------------------------------------
\* The hypotheses of the theorems about the spool, the client and the game.
ASSUME HypothesesHold ==
  /\ Replay!ReplayBounds /\ Replays!ReplayBounds /\ Alone!ReplayBounds /\ Http!ClientBounds
  /\ Long!GameBounds /\ Troubled!GameBounds /\ Two!GameBounds

=============================================================================
