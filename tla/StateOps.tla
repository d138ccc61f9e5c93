------------------------------ MODULE StateOps ------------------------------
(***************************************************************************)
(* Operations on one piece of local state (a profile, a setting, a game's  *)
(* progress, a save slot) and the rule by which two of them that meet in   *)
(* the journal become one: PersistentStateOutbox in local_backend.py.      *)
(*                                                                         *)
(* An operation is abstracted to what the rule reads:                      *)
(*   method  "merge" is merge_progress; "set" is any method that replaces  *)
(*           the value (set_progress, set_setting, ensure_profile,         *)
(*           save_slot), which the rule treats alike;                      *)
(*   rev     logical_revision;                                             *)
(*   ids     the operation ids it stands for: one for an operation a user  *)
(*           made, several for an aggregate.  An aggregate's operation_id  *)
(*           is a digest of its component ids, so the set is the identity; *)
(*   at      updated_at, the time of the user's action;                    *)
(*   val     the value: a set of achievements, merged by union             *)
(*           (progress.py merges by maxima, minima, unions and OR: a join  *)
(*           in each field, which a union of sets is in general).          *)
(* payload_hash is a digest of all of them: equality of records.           *)
(***************************************************************************)
EXTENDS Integers

CONSTANTS
  Ids,      \* operation ids (uuid4 hex); their order breaks ties of revisions
  Levels    \* what a value of the key can contain

ASSUME IdsAssumption == Ids \subseteq Nat

Operation == [method : {"set", "merge"}, rev : Nat, ids : SUBSET Ids,
              at : Nat, val : SUBSET Levels]

\* No operation: the journal file of the key does not exist.
NoOp == [method |-> "none", rev |-> 0, ids |-> {}, at |-> 0, val |-> {}]

Later(a, b) == IF a < b THEN b ELSE a

\* A strict total order on finite sets of ids, standing for the order of the
\* operation_id strings: the largest id that only one of them has decides.
IdBefore(s, t) == \E m \in t \ s : \A n \in s \ t : n < m

\* _order: operations are ordered by revision, then by operation_id.
Before(o1, o2) ==
  \/ o1.rev < o2.rev
  \/ o1.rev = o2.rev /\ IdBefore(o1.ids, o2.ids)

\* A slip: operations told apart by their revision alone.
SameRevision(o1, o2) == o1.rev = o2.rev

\* _order: equal tuples, the same operation.
SameOrder(o1, o2) == o1.rev = o2.rev /\ o1.ids = o2.ids

\* _component_relation: every component of op is already part of an aggregate.
\* (Only a merge is an aggregate; a set counts as one component.)
Absorbed(aggregate, op) ==
  aggregate.method = "merge" /\ op.ids \subseteq aggregate.ids

\* A slip: the newer value stands for both.
MergeForgets(existing, incoming) ==
  [method |-> "merge",
   rev |-> Later(existing.rev, incoming.rev),
   ids |-> existing.ids \cup incoming.ids,
   at  |-> Later(existing.at, incoming.at),
   val |-> incoming.val]

\* _merge_progress_operations: the aggregate of two progress operations.
MergeOps(existing, incoming) ==
  [method |-> "merge",
   rev |-> Later(existing.rev, incoming.rev),
   ids |-> existing.ids \cup incoming.ids,
   at  |-> Later(existing.at, incoming.at),
   val |-> existing.val \cup incoming.val]

\* A slip: whatever comes last replaces what is there.
ResolveLast(existing, incoming) ==
  IF Absorbed(existing, incoming) THEN [op |-> existing, how |-> "duplicate"]
  ELSE [op |-> incoming, how |-> "incoming"]

\* resolve_operations: what the journal holds after incoming meets existing,
\* and how it was decided.  Dominance of components is looked at before the
\* order.
Resolve(existing, incoming) ==
  LET older == Before(incoming, existing) IN
  IF Absorbed(existing, incoming) THEN [op |-> existing, how |-> "duplicate"]
  ELSE IF Absorbed(incoming, existing) THEN [op |-> incoming, how |-> "incoming"]
  ELSE IF SameOrder(existing, incoming)
  THEN [op |-> existing,
        how |-> IF existing = incoming THEN "duplicate" ELSE "conflict"]
  ELSE IF older /\ "set" \in {existing.method, incoming.method}
  THEN [op |-> existing, how |-> "superseded"]
  ELSE IF incoming.method = "set" THEN [op |-> incoming, how |-> "incoming"]
  ELSE [op |-> MergeOps(existing, incoming), how |-> "merged"]

=============================================================================
