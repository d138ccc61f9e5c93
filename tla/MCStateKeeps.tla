---------------------------- MODULE MCStateKeeps ----------------------------
(***************************************************************************)
(* Instances about what is kept of one key.  A behaviour is one of:        *)
(*   progress  StateStoreFaults: the row of a progress key, which two      *)
(*             accidents befall;                                           *)
(*   slot      StateStoreFaults: the row of a save slot, which one does;   *)
(*   intents   StateSync: one process, whose game publishes journals       *)
(*             itself, while the writer is anywhere in its work; a save is *)
(*             refused, a step fails, the process dies;                    *)
(*   refusals  StateSync: two processes save one slot, two saves are       *)
(*             refused, a step fails or a process dies;                    *)
(*   merges    StateSync: two processes merge progress, two steps fail,    *)
(*             or one fails and one process dies.                          *)
(* The two processes of an instance are interchangeable.                   *)
(***************************************************************************)
EXTENDS StateStoreFaults, TLC

CONSTANTS p0, p1, p2

VARIABLES what, journal, markers, db, queue, task, held, lastRev,
          count, faults, crashes, published, promised

syncOnly == <<journal, markers, db, queue, task, held, lastRev,
              count, faults, crashes, published, promised>>
rowsOnly == <<rows, accepted, loaded, damage, last, base>>
mcvars == <<what, clock, syncOnly, rowsOnly>>

Raw(method, rev, id, at, val) ==
  [method |-> method, rev |-> rev, ids |-> {id}, at |-> at, val |-> val]

\* Two merges around a replacement, and one whose user acted before it but
\* whose revision was allocated after it.
ProgressOps == { Raw("merge", 1, 1, 1, {"a"}), Raw("set", 2, 2, 2, {}),
                 Raw("merge", 3, 3, 3, {"b"}), Raw("merge", 4, 4, 1, {"c"}) }

\* Four saves, the last two with one revision: two processes that could not
\* reach the clock file.
SlotOps == { Raw("set", 1, 1, 1, {"a"}), Raw("set", 2, 2, 2, {"b"}),
             Raw("set", 4, 3, 3, {"a"}), Raw("set", 4, 4, 3, {"c"}) }

DirectValues == {{"a"}, {"b", "c"}}

Progress == INSTANCE StateStoreFaults WITH
  Kind <- "progress", Ops <- ProgressOps, MaxDamage <- 2

Three == {1, 2, 3}

\* Bounds on the failing steps and deaths of two processes.
MaxRefusalTroubles == 1
MaxMergeTroubles == 2

Intent == INSTANCE StateSync WITH
  Ids <- Three, Levels <- Three, Kind <- "slot", Refused <- {2},
  Procs <- {p0}, Launchers <- {}, Methods <- {"set"}, Intents <- TRUE,
  Readings <- {0, 5}, MaxOps <- 3, MaxFaults <- 1, MaxCrashes <- 1

Refusals == INSTANCE StateSync WITH
  Ids <- Three, Levels <- Three, Kind <- "slot", Refused <- {2, 3},
  Procs <- {p1, p2}, Launchers <- {}, Methods <- {"set"}, Intents <- FALSE,
  Readings <- {0}, MaxOps <- 3, MaxFaults <- 1, MaxCrashes <- 1

Merges == INSTANCE StateSync WITH
  Ids <- Three, Levels <- Three, Kind <- "progress", Refused <- {},
  Procs <- {p1, p2}, Launchers <- {}, Methods <- {"merge"}, Intents <- FALSE,
  Readings <- {0}, MaxOps <- 3, MaxFaults <- 2, MaxCrashes <- 1

NoSync ==
  /\ journal = 0 /\ markers = 0 /\ db = 0 /\ queue = 0 /\ task = 0 /\ held = 0
  /\ lastRev = 0 /\ count = 0 /\ faults = 0 /\ crashes = 0 /\ published = 0 /\ promised = 0

NoRows ==
  /\ rows = EmptyRows /\ accepted = {} /\ loaded = {} /\ damage = 0 /\ last = NoCall
  /\ base = [at |-> Never, val |-> {}]

MCInit ==
  \/ what = "progress" /\ Progress!FaultInit /\ NoSync
  \/ what = "slot" /\ FaultInit /\ NoSync
  \/ what = "intents" /\ Intent!Init /\ NoRows
  \/ what = "refusals" /\ Refusals!Init /\ NoRows
  \/ what = "merges" /\ Merges!Init /\ NoRows

MCNext ==
  /\ \/ what = "progress" /\ Progress!FaultNext /\ UNCHANGED syncOnly
     \/ what = "slot" /\ FaultNext /\ UNCHANGED syncOnly
     \/ what = "intents" /\ Intent!Next /\ UNCHANGED rowsOnly
     \/ /\ what = "refusals" /\ Refusals!Next
        /\ faults' + crashes' <= MaxRefusalTroubles
        /\ UNCHANGED rowsOnly
     \/ /\ what = "merges" /\ Merges!Next
        /\ faults' + crashes' <= MaxMergeTroubles
        /\ UNCHANGED rowsOnly
  /\ UNCHANGED what

MCSpec == MCInit /\ [][MCNext]_mcvars

-----------------------------------------------------------------------------
\* The hypotheses of the theorems about the rows of a key, and about journals.
ASSUME HypothesesHold ==
  /\ Intent!SyncBounds /\ Refusals!SyncBounds /\ Merges!SyncBounds
  /\ Merges!OneMethod
  /\ Progress!FaultBounds /\ Progress!RevisionsFollowTime
  /\ FaultBounds /\ RevisionsFollowTime


Symmetry == Permutations({p1, p2})

=============================================================================
