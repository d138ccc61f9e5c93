---------------------------- MODULE AtomicImport ----------------------------
(***************************************************************************)
(* What an import promises: the database and the journal files of a data   *)
(* directory change together, from one archive's contents to the next, or  *)
(* not at all.                                                             *)
(***************************************************************************)
EXTENDS Naturals

CONSTANTS
  Targets,    \* the number of journal files an import writes or deletes
  MaxImports  \* bound on the imports; contents are numbered by them

VARIABLE data   \* what the next session will find

\* Contents k throughout: 0 is what there was before any import.
Whole(k) == [db |-> k, files |-> [i \in 1..Targets |-> k]]

Init == data = Whole(0)

Import == \E k \in 1..MaxImports : k > data.db /\ data' = Whole(k)

Spec == Init /\ [][Import]_data

=============================================================================
