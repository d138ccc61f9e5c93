----------------------------- MODULE ScoreCalls -----------------------------
(***************************************************************************)
(* The mutations that games make, where a model is given them beforehand.  *)
(***************************************************************************)
EXTENDS ScoreTables

CONSTANT Calls   \* the mutations that are ever sent

\* Within an attempt games number their saves, and their scores only rise.
ASSUME CallsAssumption ==
  /\ Calls \subseteq Mutation
  /\ \A m, n \in Calls : m.att = n.att /\ m.rev < n.rev => m.score <= n.score

\* What a client sends: the row it names is that of its own attempt, and what is
\* said again is said in the same words.
OwnCalls(calls) ==
  /\ \A m \in calls : m.hint \in {None, m.att}
  /\ \A m, n \in calls : m.req = n.req => m = n

=============================================================================
