---------------------------- MODULE MCStateSync ----------------------------
(***************************************************************************)
(* Instances of StateSync.  One process may be a launcher and the other    *)
(* not, so the processes are not interchangeable.                          *)
(***************************************************************************)
EXTENDS StateSync

=============================================================================
