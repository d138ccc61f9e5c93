------------------------------ MODULE MCClient ------------------------------
(***************************************************************************)
(* Instances of what a player meets.  A behaviour is one of:               *)
(*   windows   SlotOwner: no row yet, or the row an earlier game still     *)
(*             owns because it crashed; one fault;                         *)
(*   mending   SlotOwner: a damaged row, and one of other rules; no fault; *)
(*   profiles  ProfileControl: no profile yet, the guest's, another, both. *)
(***************************************************************************)
EXTENDS SlotOwner, ProfileControl, TLC

CONSTANTS guest, alice, new

VARIABLE scenario

mcvars == <<scenario, vars, launcherVars>>

Before(status) == Value(Past, 1, 3, status, 1)

Damaged == {[Before("released") EXCEPT !.form = "bad"],
            [Before("released") EXCEPT !.form = "old"]}

MCSlots == {None, Before("active")} \cup Damaged

MCStores == {<<>>, <<guest>>, <<alice>>, <<alice, guest>>, <<guest, alice>>}

\* The hypotheses of the theorems of SlotOwnerProofs about the rows at first, and
\* of ProfileControlProofs.
ASSUME HypothesesHold == SlotBounds /\ NilIsNoRecord

MCInit ==
  /\ Init /\ LauncherInit
  /\ \/ scenario = "windows" /\ row \notin Damaged /\ local.table = <<>>
     \/ scenario = "mending" /\ row \in Damaged /\ local.table = <<>>
     \/ scenario = "profiles" /\ row = None

MCNext ==
  /\ \/ scenario = "windows" /\ Next /\ UNCHANGED launcherVars
     \/ scenario = "mending" /\ Next /\ faults' = 0 /\ UNCHANGED launcherVars
     \/ scenario = "profiles" /\ LauncherNext /\ UNCHANGED vars
  /\ UNCHANGED scenario

MCSpec == MCInit /\ [][MCNext]_mcvars

Symmetry == Permutations(Games)

=============================================================================
