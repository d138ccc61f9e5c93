----------------------------- MODULE MCAppLease -----------------------------
(***************************************************************************)
(* The two ends of a session.  A behaviour is one of:                      *)
(*   lease    AppLease: processes that start, run and maintain;            *)
(*   closing  BackendClose: a backend that is used and closed with work to *)
(*            do, and gives its session back last.                         *)
(***************************************************************************)
EXTENDS AppLease, BackendClose

VARIABLE scenario

mcvars == <<scenario, vars, closeVars>>

MCInit ==
  \/ scenario = "lease" /\ Init /\ CloseInit /\ writer.queue # <<>>
  \/ scenario = "closing" /\ CloseInit /\ Init /\ roots = {}

\* A backend that has given its session back is at rest.
AtRest == ~session /\ UNCHANGED <<vars, closeVars>>

MCNext ==
  /\ \/ scenario = "lease" /\ Next /\ UNCHANGED closeVars
     \/ scenario = "closing" /\ (CloseNext \/ AtRest) /\ UNCHANGED vars
  /\ UNCHANGED scenario

MCSpec == MCInit /\ [][MCNext]_mcvars

MCFairSpec ==
  /\ MCSpec
  /\ \A p \in Procs : /\ WF_vars(scenario = "lease" /\ Proceed(p))
                      /\ WF_vars(scenario = "lease" /\ DeadlinePasses(p))
  /\ WF_closeVars(scenario = "closing" /\ ReaderWorks)
  /\ WF_closeVars(scenario = "closing" /\ WriterWorks)
  /\ WF_closeVars(scenario = "closing" /\ Closing)
  /\ WF_closeVars(scenario = "closing" /\ Background)

=============================================================================
