-------------------------- MODULE ImportTxnProofs --------------------------
(***************************************************************************)
(* Proofs about ImportTxn, for any number of target files and of imports   *)
(* and any bound on the faults; and that it implements AtomicImport.       *)
(***************************************************************************)
EXTENDS ImportTxn, TLAPS

\* What a change of one field of one root leaves of the others.
LEMMA RootFields ==
  ASSUME NEW r \in [Txns -> Roots], NEW t \in Txns
  PROVE  /\ \A x \in Phases :
              LET s == [r EXCEPT ![t].phase = x] IN
              /\ s \in [Txns -> Roots]
              /\ \A u \in Txns : /\ s[u].phase = IF u = t THEN x ELSE r[u].phase
                                 /\ s[u].place = r[u].place /\ s[u].valid = r[u].valid
                                 /\ s[u].db = r[u].db /\ s[u].files = r[u].files
         /\ \A x \in {"absent", "preparing", "published"} :
              LET s == [r EXCEPT ![t].place = x] IN
              /\ s \in [Txns -> Roots]
              /\ \A u \in Txns : /\ s[u].place = IF u = t THEN x ELSE r[u].place
                                 /\ s[u].phase = r[u].phase /\ s[u].valid = r[u].valid
                                 /\ s[u].db = r[u].db /\ s[u].files = r[u].files
         /\ \A x \in BOOLEAN :
              LET s == [r EXCEPT ![t].valid = x] IN
              /\ s \in [Txns -> Roots]
              /\ \A u \in Txns : /\ s[u].phase = r[u].phase /\ s[u].place = r[u].place
                                 /\ s[u].db = r[u].db /\ s[u].files = r[u].files
BY DEF Roots

\* An absent root is well typed.
LEMMA NoRootType == NoRoot \in Roots /\ NoRoot.place = "absent"
<1>1. 0 \in Contents
  BY ImportAssumption DEF Contents
<1> QED
  BY <1>1 DEF NoRoot, Roots, Phases

\* The new root of a transaction.
LEMMA PreparedRoot ==
  ASSUME TypeOK, db \in Contents
  PROVE  LET r == [NoRoot EXCEPT !.place = "preparing", !.db = db, !.files = files] IN
         /\ r \in Roots
         /\ r.place = "preparing" /\ r.phase = "PREPARED" /\ r.db = db /\ r.files = files
BY DEF NoRoot, TypeOK, Roots, Phases

\* The steps and the types of what the process at work remembers.
JobOK ==
  /\ step \in Steps /\ aim \in {"open", "import"}
  /\ txn \in Txns \cup {0} /\ pos \in 0..Targets + 1 /\ own \in BOOLEAN

LEMMA JobTypes ==
  /\ Stop => JobOK'
  /\ JobOK => \A s \in Steps : Goto(s) => JobOK'
  /\ JobOK => \A s \in Steps, i \in 0..Targets + 1 : GotoFile(s, i) => JobOK'
<1>1. "idle" \in Steps /\ 0 \in 0..Targets + 1
  BY ImportAssumption DEF Steps
<1> QED
  BY <1>1 DEF JobOK, Stop, Goto, GotoFile, job

\* The transaction at work is one of them.
LEMMA AtWork ==
  ASSUME ImportInv
  PROVE  /\ own => txn \in Txns
         /\ step \in Importing \cup Undoing \cup {"prepare", "retire"} => txn \in Txns
         /\ step \in Importing \cup Undoing => txn \in Unfinished
         /\ Txns \subseteq Contents /\ 0 \in Contents
BY ImportAssumption DEF ImportInv, Progress, Numbered, Unfinished, Txns, Contents

\* So is what the end of a command leaves.
LEMMA EndTypes ==
  ASSUME ImportInv, NEW result \in Outcomes, End(result)
  PROVE  JobOK' /\ outcome' \in [Txns -> Outcomes]
BY AtWork, JobTypes DEF End, ImportInv, TypeOK

\* The types of the variables, after any step.
LEMMA TypeStep ==
  ASSUME ImportInv, [Next]_vars
  PROVE  TypeOK'
<1> DEFINE RootsOK == roots \in [Txns -> Roots]
           DataOK == db \in Contents \cup {Bare} /\ files \in [1..Targets -> Contents]
           OutcomeOK == outcome \in [Txns -> Outcomes]
           FaultsOK == faults \in 0..MaxFaults
<1>t. JobOK /\ RootsOK /\ DataOK /\ OutcomeOK /\ FaultsOK
  BY DEF ImportInv, TypeOK, JobOK
<1>q. JobOK' /\ RootsOK' /\ DataOK' /\ OutcomeOK' /\ FaultsOK' => TypeOK'
  BY DEF TypeOK, JobOK
<1>f. Fault => FaultsOK'
  BY <1>t, ImportAssumption DEF Fault
<1>s. Steps = {"idle", "recover", "ready", "prepare", "copy", "apply", "swap",
          "applied", "verify", "publish", "published", "whole",
          "restore", "refile", "undone", "retire", "open"}
  BY DEF Steps
<1>o. {"failed", "recovery_required", "unknown", "committed", "rolled_back"} \subseteq Outcomes
  BY DEF Outcomes
<1>1. CASE UNCHANGED vars
  BY <1>t, <1>q, <1>1 DEF vars, job, JobOK
<1>2. ASSUME NEW a \in {"open", "import"}, Begin(a)
      PROVE  TypeOK'
  <2>1. JobOK'
    BY <1>t, <1>s, <1>2 DEF Begin, JobOK
  <2> QED
    BY <1>t, <1>q, <1>2, <2>1 DEF Begin
<1>3. CASE Recover
  <2>1. RootsOK'
    BY <1>t, <1>3, NoRootType DEF Recover
  <2>2. JobOK'
    <3>1. \A t \in Unfinished : t \in Txns
      BY DEF Unfinished
    <3>2. "ready" \in Steps /\ "restore" \in Steps
      BY <1>s
    <3>3. CASE Stop
      BY <3>3, JobTypes
    <3>4. CASE Goto("ready")
      BY <1>t, <3>2, <3>4, JobTypes
    <3>5. ASSUME NEW t \in Unfinished, step' = "restore", txn' = t, UNCHANGED <<aim, pos, own>>
          PROVE  JobOK'
      BY <1>t, <3>1, <3>2, <3>5 DEF JobOK
    <3> QED
      BY <1>3, <3>3, <3>4, <3>5 DEF Recover
  <2> QED
    BY <1>t, <1>q, <1>3, <2>1, <2>2 DEF Recover
<1>4. CASE Open \/ Reject \/ Close \/ Copy
  <2>1. JobOK'
    BY <1>t, <1>s, <1>4, JobTypes DEF Open, Reject, Close, Copy
  <2> QED
    BY <1>t, <1>q, <1>4, <2>1 DEF Open, Reject, Close, Copy
<1>5. CASE Verify
  <2>1. 1 \in 0..Targets + 1
    BY ImportAssumption
  <2>2. JobOK'
    BY <1>t, <1>s, <1>5, <2>1, JobTypes DEF Verify
  <2> QED
    BY <1>t, <1>q, <1>5, <2>2 DEF Verify
<1>6. CASE Prepare
  <2>1. db \in Contents
    BY <1>6 DEF Prepare, ImportInv, Progress, DataAreWhole, AllAre
  <2>2. JobOK'
    BY <1>t, <1>s, <1>6 DEF Prepare, JobOK
  <2>3. RootsOK'
    BY <1>t, <1>6, <2>1, PreparedRoot DEF Prepare, ImportInv
  <2> QED
    BY <1>t, <1>q, <1>6, <2>2, <2>3 DEF Prepare
<1>7. CASE PublishRoot
  <2>1. RootsOK'
    BY <1>t, <1>7, AtWork, RootFields DEF PublishRoot
  <2>2. JobOK'
    BY <1>t, <1>s, <1>7, JobTypes DEF PublishRoot
  <2> QED
    BY <1>t, <1>q, <1>7, <2>1, <2>2 DEF PublishRoot
<1>8. CASE PrepareFails
  <2>1. RootsOK'
    <3>1. txn \in Txns
      BY <1>8, AtWork DEF PrepareFails
    <3>2. PICK place \in {"absent", "preparing", "published"} :
            roots' = [roots EXCEPT ![txn].place = place]
      BY <1>8 DEF PrepareFails
    <3> QED
      BY <1>t, <3>1, <3>2, RootFields, ZenonT(60)
  <2> QED
    BY <1>t, <1>q, <1>f, <1>o, <1>8, <2>1, EndTypes DEF PrepareFails
<1>9. CASE Apply \/ SetAside \/ Swap
  <2>1. txn \in Contents
    BY <1>9, AtWork DEF Apply, SetAside, Swap, Importing
  <2>2. JobOK'
    BY <1>t, <1>s, <1>9, JobTypes DEF Apply, SetAside, Swap
  <2> QED
    BY <1>t, <1>q, <1>9, <2>1, <2>2 DEF Apply, SetAside, Swap
<1>10. CASE PublishFile
  <2>1. txn \in Contents
    BY <1>10, AtWork DEF PublishFile, Importing
  <2>2. pos > Targets \/ pos + 1 \in 0..Targets + 1
    BY <1>t, ImportAssumption DEF JobOK
  <2>3. JobOK'
    BY <1>t, <1>s, <1>10, <2>2, JobTypes DEF PublishFile
  <2> QED
    BY <1>t, <1>q, <1>10, <2>1, <2>3 DEF PublishFile
<1>11. CASE StepFails
  <2>1. JobOK'
    BY <1>t, <1>s, <1>11, JobTypes DEF StepFails
  <2> QED
    BY <1>t, <1>q, <1>f, <1>11, <2>1 DEF StepFails
<1>m. ASSUME step \in DOMAIN PhaseAt
      PROVE  /\ Marked \in [Txns -> Roots] /\ StepAfter[step] \in Steps
  <2>1. step \in {"applied", "published", "whole", "undone"}
    BY <1>m DEF PhaseAt
  <2>2. PhaseAt[step] \in Phases /\ StepAfter[step] \in Steps
    BY <2>1, <1>s DEF PhaseAt, StepAfter, Phases
  <2>3. txn \in Txns
    BY <2>1, AtWork DEF Importing, Undoing
  <2> QED
    BY <1>t, <2>2, <2>3, RootFields, ZenonT(60) DEF Marked
<1>12. CASE Mark
  <2>1. JobOK'
    BY <1>t, <1>m, <1>12, JobTypes DEF Mark
  <2> QED
    BY <1>t, <1>q, <1>m, <1>12, <2>1 DEF Mark
<1>13. CASE MarkFails
  <2>1. RootsOK'
    BY <1>t, <1>m, <1>13 DEF MarkFails
  <2>2. step \in {"applied", "published", "whole", "undone"}
    BY <1>13 DEF MarkFails, PhaseAt
  <2>3. JobOK' /\ OutcomeOK'
    <3>1. CASE step \in {"applied", "published"}
      BY <1>t, <1>s, <1>13, <3>1, JobTypes DEF MarkFails
    <3>2. CASE step = "whole"
      BY <1>o, <1>13, <3>2, EndTypes DEF MarkFails
    <3>3. CASE step = "undone"
      BY <1>o, <1>13, <3>3, EndTypes DEF MarkFails
    <3> QED
      BY <2>2, <3>1, <3>2, <3>3
  <2> QED
    BY <1>t, <1>q, <1>f, <1>13, <2>1, <2>3 DEF MarkFails
<1>14. CASE RestoreDatabase
  <2>1. Targets \in 0..Targets + 1
    BY ImportAssumption
  <2>2. JobOK'
    BY <1>t, <1>s, <1>14, <2>1, JobTypes DEF RestoreDatabase
  <2>3. roots[txn].db \in Contents
    BY <1>t, <1>14, AtWork DEF RestoreDatabase, Undoing, Roots
  <2> QED
    BY <1>t, <1>q, <1>14, <2>2, <2>3 DEF RestoreDatabase
<1>15. CASE RestoreFile
  <2>1. pos # 0 => pos \in 1..Targets /\ pos - 1 \in 0..Targets + 1
    BY <1>t, <1>15, ImportAssumption DEF RestoreFile, ImportInv, Progress, JobOK
  <2>2. JobOK'
    BY <1>t, <1>s, <1>15, <2>1, JobTypes DEF RestoreFile
  <2>3. \A i \in 1..Targets : roots[txn].files[i] \in Contents
    <3>1. roots[txn] \in Roots
      BY <1>t, <1>15, AtWork DEF RestoreFile, Undoing
    <3> QED
      BY <3>1 DEF Roots
  <2> QED
    BY <1>t, <1>q, <1>15, <2>1, <2>2, <2>3 DEF RestoreFile
<1>16. CASE RollbackFails
  BY <1>t, <1>q, <1>f, <1>o, <1>16, EndTypes DEF RollbackFails
<1>17. CASE Retire
  <2>1. RootsOK'
    BY <1>t, <1>17, AtWork, NoRootType DEF Retire
  <2>2. JobOK' /\ OutcomeOK'
    <3>1. CASE own
      BY <1>o, <1>17, <3>1, EndTypes DEF Retire
    <3>2. CASE ~own
      BY <1>t, <1>s, <1>17, <3>2, JobTypes DEF Retire
    <3> QED
      BY <3>1, <3>2
  <2> QED
    BY <1>t, <1>q, <1>17, <2>1, <2>2 DEF Retire
<1>18. CASE Crash
  <2>1. JobOK' /\ OutcomeOK'
    BY <1>t, <1>o, <1>18, AtWork, JobTypes DEF Crash
  <2> QED
    BY <1>t, <1>q, <1>f, <1>18, <2>1 DEF Crash
<1>19. CASE Damage
  <2>1. RootsOK'
    <3>1. PICK t \in Unfinished : roots' = [roots EXCEPT ![t].valid = FALSE]
      BY <1>19 DEF Damage
    <3>2. t \in Txns
      BY DEF Unfinished
    <3> QED
      BY <1>t, <3>1, <3>2, RootFields
  <2>2. JobOK'
    BY <1>t, <1>19 DEF Damage, job, JobOK
  <2> QED
    BY <1>t, <1>q, <1>f, <1>19, <2>1, <2>2 DEF Damage
<1> HIDE DEF RootsOK, DataOK, OutcomeOK, FaultsOK
<1> QED
  BY <1>1, <1>2, <1>3, <1>4, <1>5, <1>6, <1>7, <1>8, <1>9, <1>10, <1>11, <1>12, <1>13,
     <1>14, <1>15, <1>16, <1>17, <1>18, <1>19 DEF Next, Work

\* A transaction that was unfinished before, with its images as they were.
Kept(t) == /\ t \in Unfinished
           /\ roots'[t].db = roots[t].db /\ roots'[t].files = roots[t].files

\* If no others are unfinished, there is still one at most, and it is whole.
LEMMA ImagesKept ==
  ASSUME ImportInv, \A t \in Unfinished' : Kept(t)
  PROVE  OneUnfinished' /\ ImagesAreWhole'
<1>1. OneUnfinished'
  BY DEF ImportInv, OneUnfinished, Kept
<1>2. ASSUME NEW t \in Unfinished'
      PROVE  Older(t)'
  BY <1>2 DEF ImportInv, ImagesAreWhole, Older, Kept
<1> QED
  BY <1>1, <1>2 DEF ImagesAreWhole

\* What a step makes of the roots: the unfinished ones are fewer or the same,
\* except when the directory of the transaction at work is renamed.
LEMMA UnfinishedStep ==
  ASSUME ImportInv, [Next]_vars
  PROVE  \/ roots' = roots /\ Unfinished' = Unfinished
         \/ (Recover \/ Prepare \/ Mark \/ MarkFails \/ Retire \/ Damage \/ PrepareFails)
              /\ \A t \in Unfinished' : Kept(t)
         \/ /\ PublishRoot \/ PrepareFails
            /\ Unfinished' = {txn}
            /\ roots'[txn].db = roots[txn].db /\ roots'[txn].files = roots[txn].files
<1>t. roots \in [Txns -> Roots]
  BY DEF ImportInv, TypeOK
<1>1. CASE roots' = roots
  BY <1>1 DEF Unfinished
<1>2. CASE Recover
  <2>1. PICK gone \in SUBSET Disposable :
          roots' = [t \in Txns |-> IF t \in gone THEN NoRoot ELSE roots[t]]
    BY <1>2 DEF Recover
  <2>2. \A t \in gone : t \notin Unfinished'
    BY <2>1, NoRootType DEF Unfinished
  <2> QED
    BY <1>2, <2>1, <2>2 DEF Unfinished, Kept
<1>3. CASE Prepare
  <2>1. PICK t \in Txns : roots' = [roots EXCEPT ![t] = [NoRoot EXCEPT !.place = "preparing",
                                           !.db = db, !.files = files]]
    BY <1>3 DEF Prepare
  <2>2. db \in Contents
    BY <1>3 DEF Prepare, ImportInv, Progress, DataAreWhole, AllAre
  <2>3. roots'[t].place = "preparing" /\ \A u \in Txns \ {t} : roots'[u] = roots[u]
    BY <1>t, <2>1, <2>2, PreparedRoot DEF ImportInv
  <2> QED
    BY <1>3, <2>3 DEF Unfinished, Kept
<1>4. ASSUME txn \in Txns, NEW x \in Phases, roots' = [roots EXCEPT ![txn].phase = x],
             txn \in Unfinished, Mark \/ MarkFails
      PROVE  \A t \in Unfinished' : Kept(t)
  BY <1>t, <1>4, RootFields DEF Unfinished, Kept
<1>5. CASE (Mark \/ MarkFails) /\ roots' # roots
  <2>1. step \in {"applied", "published", "whole", "undone"}
    BY <1>5 DEF Mark, MarkFails, PhaseAt
  <2>2. PhaseAt[step] \in Phases
    BY <2>1 DEF PhaseAt, Phases
  <2>3. txn \in Txns /\ txn \in Unfinished
    BY <2>1, AtWork DEF Importing, Undoing
  <2>4. roots' = Marked
    BY <1>5 DEF Mark, MarkFails
  <2> QED
    BY <1>4, <1>5, <2>2, <2>3, <2>4 DEF Marked
<1>6. CASE Retire
  <2>1. \A t \in Unfinished' : t \in Unfinished /\ roots'[t] = roots[t]
    BY <1>t, <1>6, NoRootType DEF Retire, Unfinished
  <2> QED
    BY <1>6, <2>1 DEF Kept
<1>7. CASE Damage
  <2>1. PICK t \in Unfinished : roots' = [roots EXCEPT ![t].valid = FALSE]
    BY <1>7 DEF Damage
  <2>2. t \in Txns
    BY DEF Unfinished
  <2> QED
    BY <1>t, <1>7, <2>1, <2>2, RootFields DEF Unfinished, Kept
<1>8. CASE PublishRoot \/ PrepareFails
  <2>1. PICK place \in {"absent", "preparing", "published"} :
          roots' = [roots EXCEPT ![txn].place = place]
    BY <1>8 DEF PublishRoot, PrepareFails
  <2>2. txn \in Txns /\ step = "prepare" /\ Unfinished = {} /\ roots[txn].phase = "PREPARED"
    BY <1>8, AtWork DEF PublishRoot, PrepareFails, ImportInv, Progress
  <2>3. \A t \in Txns : /\ roots'[t].place = IF t = txn THEN place ELSE roots[t].place
                        /\ roots'[t].phase = roots[t].phase
                        /\ roots'[t].db = roots[t].db /\ roots'[t].files = roots[t].files
    BY <1>t, <2>1, <2>2, RootFields
  <2>4. CASE place = "published"
    <3>1. Unfinished' = {txn}
      BY <2>2, <2>3, <2>4 DEF Unfinished, Terminal
    <3> QED
      BY <1>8, <2>2, <2>3, <3>1
  <2>5. CASE place # "published"
    <3>1. Unfinished' = {}
      BY <2>2, <2>3, <2>5 DEF Unfinished
    <3>2. PrepareFails
      <4>1. SUFFICES ASSUME PublishRoot PROVE FALSE
        BY <1>8
      <4>2. roots' = [roots EXCEPT ![txn].place = "published"]
        BY <4>1 DEF PublishRoot
      <4>3. roots'[txn].place = "published"
        BY <1>t, <2>2, <4>2, RootFields
      <4> QED
        BY <2>2, <2>3, <2>5, <4>3
    <3> QED
      BY <3>1, <3>2
  <2> QED
    BY <2>4, <2>5
<1> QED
  BY <1>1, <1>2, <1>3, <1>5, <1>6, <1>7, <1>8
     DEF Next, Work, vars, Begin, Open, Reject, Copy, Apply, SetAside, Swap, Verify,
         PublishFile, RestoreDatabase, RestoreFile, Close, StepFails, RollbackFails, Crash

\* At most one transaction is unfinished, and its images stay whole and older.
LEMMA RootsStep ==
  ASSUME ImportInv, [Next]_vars
  PROVE  OneUnfinished' /\ ImagesAreWhole'
<1>1. CASE roots' = roots /\ Unfinished' = Unfinished
  BY <1>1, ImagesKept DEF Kept
<1>2. CASE \A t \in Unfinished' : Kept(t)
  BY <1>2, ImagesKept
<1>3. CASE /\ PublishRoot \/ PrepareFails
           /\ Unfinished' = {txn}
           /\ roots'[txn].db = roots[txn].db /\ roots'[txn].files = roots[txn].files
  <2>1. Older(txn)
    BY <1>3 DEF PublishRoot, PrepareFails, ImportInv, Progress
  <2>2. \A t \in Unfinished' : Older(t)'
    BY <1>3, <2>1 DEF Older
  <2> QED
    BY <1>3, <2>2 DEF OneUnfinished, ImagesAreWhole
<1> QED
  BY <1>1, <1>2, <1>3, UnfinishedStep

\* An image that is older is the contents of one import throughout.
LEMMA OlderIsWhole ==
  ASSUME NEW t \in Txns, Older(t), db = roots[t].db, files = roots[t].files
  PROVE  \E k \in Contents : AllAre(k)
<1>1. PICK k \in 0..t - 1 : roots[t].db = k /\ roots[t].files = [i \in 1..Targets |-> k]
  BY DEF Older
<1>2. k \in Contents
  BY <1>1, ImportAssumption DEF Txns, Contents
<1> QED
  BY <1>1, <1>2 DEF AllAre

\* With no transaction unfinished the data are whole, after any step.
LEMMA DataStep ==
  ASSUME ImportInv, [Next]_vars
  PROVE  DataAreWhole'
<1>t. roots \in [Txns -> Roots]
  BY DEF ImportInv, TypeOK
<1> SUFFICES ASSUME Unfinished' = {}, step' # "prepare"
             PROVE  \E k \in Contents : AllAre(k)'
  BY DEF DataAreWhole
<1>1. CASE /\ UNCHANGED <<db, files>> /\ Unfinished = {} /\ step # "prepare"
  BY <1>1 DEF ImportInv, DataAreWhole, AllAre
<1>2. CASE /\ UNCHANGED <<db, files>> /\ txn \in Txns /\ Older(txn)
           /\ db = roots[txn].db /\ files = roots[txn].files
  BY <1>2, OlderIsWhole DEF AllAre
<1>3. CASE Unfinished' = Unfinished /\ step \in Importing \cup Undoing
  BY <1>3, AtWork
<1>4. CASE step = "prepare" /\ UNCHANGED <<db, files>>
  BY <1>2, <1>4, AtWork DEF ImportInv, Progress
<1>5. CASE UNCHANGED vars
  BY <1>1, <1>5 DEF vars, job, Unfinished
<1>6. CASE (\E a \in {"open", "import"} : Begin(a)) \/ Open \/ Reject \/ Close
  <2>1. UNCHANGED <<db, files>> /\ Unfinished' = Unfinished /\ step # "prepare"
    BY <1>6 DEF Begin, Open, Reject, Close, Unfinished
  <2> QED
    BY <1>1, <2>1
<1>7. CASE Recover
  <2>1. PICK gone \in SUBSET Disposable :
          roots' = [t \in Txns |-> IF t \in gone THEN NoRoot ELSE roots[t]]
    BY <1>7 DEF Recover
  <2>2. \A t \in Unfinished : t \notin Disposable
    BY DEF Unfinished, Disposable
  <2>3. \A t \in Unfinished : t \in Unfinished'
    BY <2>1, <2>2 DEF Unfinished
  <2> QED
    BY <1>1, <1>7, <2>3 DEF Recover
<1>8. CASE Prepare \/ PublishRoot \/ PrepareFails
  BY <1>4, <1>8 DEF Prepare, PublishRoot, PrepareFails
<1>9. CASE \/ Copy \/ Apply \/ SetAside \/ Swap \/ Verify \/ PublishFile \/ StepFails
           \/ RestoreDatabase \/ RestoreFile \/ RollbackFails
  <2>1. roots' = roots /\ step \in Importing \cup Undoing
    BY <1>9 DEF Copy, Apply, SetAside, Swap, Verify, PublishFile, StepFails,
                RestoreDatabase, RestoreFile, RollbackFails, Importing, Undoing
  <2> QED
    BY <1>3, <2>1 DEF Unfinished
<1>10. CASE Mark \/ MarkFails
  <2>1. step \in {"applied", "published", "whole", "undone"}
    BY <1>10 DEF Mark, MarkFails, PhaseAt
  <2>2. txn \in Unfinished /\ txn \in Txns
    BY <2>1, AtWork DEF Importing, Undoing
  <2>3. CASE step = "whole"
    <3>1. AllAre(txn)
      BY <2>3 DEF ImportInv, Progress, AllAre
    <3> QED
      BY <1>10, <2>2, <3>1, AtWork DEF AllAre, Mark, MarkFails
  <2>4. CASE step = "undone"
    BY <1>2, <1>10, <2>2, <2>4 DEF ImportInv, Progress, ImagesAreWhole, Mark, MarkFails
  <2>5. CASE step \in {"applied", "published"}
    <3>1. PhaseAt[step] \in Phases \ Terminal
      BY <2>5 DEF PhaseAt, Phases, Terminal
    <3>2. roots' \in {roots, Marked}
      BY <1>10 DEF Mark, MarkFails
    <3>3. txn \in Unfinished'
      <4>1. CASE roots' = roots
        BY <2>2, <4>1 DEF Unfinished
      <4>2. CASE roots' = [roots EXCEPT ![txn].phase = PhaseAt[step]]
        <5>1. roots'[txn].place = roots[txn].place /\ roots'[txn].phase = PhaseAt[step]
          BY <1>t, <2>2, <3>1, <4>2, RootFields
        <5> QED
          BY <2>2, <3>1, <5>1 DEF Unfinished
      <4> QED
        BY <3>2, <4>1, <4>2 DEF Marked
    <3> QED
      BY <3>3
  <2> QED
    BY <2>1, <2>3, <2>4, <2>5
<1>11. CASE Retire
  BY <1>1, <1>11 DEF Retire, ImportInv, Progress
<1>12. CASE Crash
  BY <1>1, <1>4, <1>12 DEF Crash, Unfinished
<1>13. CASE Damage
  <2>1. PICK t \in Unfinished : roots' = [roots EXCEPT ![t].valid = FALSE]
    BY <1>13 DEF Damage
  <2>2. t \in Unfinished'
    BY <1>t, <2>1, RootFields DEF Unfinished
  <2> QED
    BY <2>2
<1> QED
  BY <1>5, <1>6, <1>7, <1>8, <1>9, <1>10, <1>11, <1>12, <1>13 DEF Next, Work

\* Imports stay numbered in the order in which they are begun.
LEMMA NumberedStep ==
  ASSUME ImportInv, [Next]_vars
  PROVE  Numbered'
<1>t. outcome \in [Txns -> Outcomes] /\ Numbered /\ txn \in Txns \cup {0}
  BY DEF ImportInv, TypeOK
<1>n. Unfinished' \subseteq Unfinished \/ (own /\ Unfinished' = {txn})
  <2>1. PublishRoot \/ PrepareFails => own
    BY DEF ImportInv, Progress, PublishRoot, PrepareFails
  <2>2. CASE \A t \in Unfinished' : Kept(t)
    BY <2>2 DEF Kept
  <2> QED
    BY <2>1, <2>2, UnfinishedStep
<1>1. CASE UNCHANGED <<db, outcome, txn, own>>
  BY <1>t, <1>n, <1>1 DEF Numbered
<1>2. ASSUME UNCHANGED db, NEW result \in Outcomes \ {"none"}, End(result)
      PROVE  Numbered'
  BY <1>t, <1>n, <1>2 DEF Numbered, End, Stop
<1>3. CASE UNCHANGED <<db, outcome>> /\ ~own /\ ~own'
  BY <1>t, <1>n, <1>3 DEF Numbered
<1>4. CASE UNCHANGED <<outcome, txn, own>> /\ ((db' = txn /\ own) \/ db' = Bare)
  BY <1>t, <1>n, <1>4, ImportAssumption DEF Numbered, Txns
<1>5. {"failed", "recovery_required", "unknown", "committed", "rolled_back"}
        \subseteq Outcomes \ {"none"}
  BY DEF Outcomes
<1>6. CASE UNCHANGED vars
  BY <1>1, <1>6 DEF vars, job
<1>7. ASSUME NEW a \in {"open", "import"}, Begin(a)
      PROVE  Numbered'
  BY <1>1, <1>7 DEF Begin
<1>8. CASE Recover \/ Open \/ Reject \/ Close
  <2>1. UNCHANGED <<db, outcome>> /\ ~own
    BY <1>8 DEF Recover, Open, Reject, Close, ImportInv, Progress
  <2>2. ~own'
    BY <1>8, <2>1 DEF Recover, Open, Reject, Close, Stop, Goto, job
  <2> QED
    BY <1>3, <2>1, <2>2
<1>9. CASE Prepare
  BY <1>t, <1>n, <1>9 DEF Prepare, Numbered, ImportInv, Progress
<1>10. CASE PublishRoot \/ Copy \/ Verify \/ PublishFile \/ RestoreFile \/ StepFails \/ Mark
  BY <1>1, <1>10 DEF PublishRoot, Copy, Verify, PublishFile, RestoreFile, StepFails, Mark,
                     Goto, GotoFile, job
<1>11. CASE Apply \/ SetAside \/ Swap
  <2>1. own
    BY <1>11 DEF Apply, SetAside, Swap, ImportInv, Progress, Importing
  <2> QED
    BY <1>4, <1>11, <2>1 DEF Apply, SetAside, Swap, Goto, job
<1>12. CASE RestoreDatabase
  <2>1. txn \in Unfinished /\ txn \in Txns
    BY <1>12, AtWork DEF RestoreDatabase, Undoing
  <2>2. PICK k \in 0..txn - 1 : roots[txn].db = k
    BY <2>1 DEF ImportInv, ImagesAreWhole, Older
  <2>3. k \in Txns => k < txn
    BY <2>1, <2>2, ImportAssumption DEF Txns
  <2>4. k \in Txns => outcome[k] # "none"
    BY <1>t, <2>1, <2>3 DEF Numbered
  <2> QED
    BY <1>t, <1>n, <1>12, <2>2, <2>4 DEF RestoreDatabase, Numbered, GotoFile
<1>13. CASE PrepareFails \/ RollbackFails
  BY <1>2, <1>5, <1>13 DEF PrepareFails, RollbackFails
<1>14. CASE MarkFails
  <2>1. \/ Goto("restore") /\ UNCHANGED outcome
        \/ End("failed") \/ End("recovery_required")
    BY <1>14 DEF MarkFails, PhaseAt
  <2> QED
    BY <1>1, <1>2, <1>5, <1>14, <2>1 DEF MarkFails, Goto, job
<1>15. CASE Retire
  <2>1. \/ End("committed") \/ End("rolled_back")
        \/ Goto("ready") /\ UNCHANGED outcome
    BY <1>15 DEF Retire
  <2> QED
    BY <1>1, <1>2, <1>5, <1>15, <2>1 DEF Retire, Goto, job
<1>16. CASE Crash
  BY <1>t, <1>n, <1>5, <1>16 DEF Crash, Numbered, Stop
<1>17. CASE Damage
  BY <1>1, <1>17 DEF Damage, job
<1> QED
  BY <1>6, <1>7, <1>8, <1>9, <1>10, <1>11, <1>12, <1>13, <1>14, <1>15, <1>16, <1>17
     DEF Next, Work

\* What a new transaction keeps as its images is whole, and older than it.
LEMMA NewImages ==
  ASSUME ImportInv, Prepare
  PROVE  /\ Unfinished' = {} /\ step' = "prepare" /\ own'
         /\ \E t \in Txns :
              /\ txn' = t
              /\ roots'[t].place = "preparing" /\ roots'[t].phase = "PREPARED"
              /\ db' = roots'[t].db /\ files' = roots'[t].files
              /\ Older(t)'
<1>t. roots \in [Txns -> Roots] /\ TypeOK
  BY DEF ImportInv, TypeOK
<1>1. PICK t \in Txns :
        /\ outcome[t] = "none"
        /\ roots' = [roots EXCEPT ![t] = [NoRoot EXCEPT !.place = "preparing",
                                           !.db = db, !.files = files]]
        /\ step' = "prepare" /\ txn' = t /\ own' = TRUE
  BY DEF Prepare
<1>2. UNCHANGED <<db, files>> /\ Unfinished = {} /\ ~own /\ step = "ready"
  BY DEF Prepare, ImportInv, Progress
<1>3. PICK k \in Contents : AllAre(k)
  BY <1>2 DEF ImportInv, DataAreWhole
<1>4. db \in Contents
  BY <1>3 DEF AllAre
<1>5. /\ roots'[t].place = "preparing" /\ roots'[t].phase = "PREPARED"
      /\ roots'[t].db = db /\ roots'[t].files = files
      /\ \A u \in Txns \ {t} : roots'[u] = roots[u]
  BY <1>t, <1>1, <1>4, PreparedRoot
<1>6. Unfinished' = {}
  BY <1>2, <1>5 DEF Unfinished
<1>7. k \in Txns => outcome[k] # "none"
  BY <1>2, <1>3 DEF ImportInv, Numbered, AllAre
<1>8. k \in 0..t - 1
  <2>1. k \in Txns => ~(t < k) /\ t # k
    BY <1>1, <1>7 DEF ImportInv, Numbered
  <2> QED
    BY <2>1, ImportAssumption DEF Txns, Contents
<1>9. Older(t)'
  BY <1>2, <1>3, <1>5, <1>8 DEF AllAre, Older
<1> QED
  BY <1>1, <1>2, <1>5, <1>6, <1>9

\* At each step the data stand to the transaction at work as they should.
LEMMA ProgressStep ==
  ASSUME ImportInv, [Next]_vars
  PROVE  Progress'
<1>t. roots \in [Txns -> Roots] /\ Progress /\ pos \in 0..Targets + 1
  BY DEF ImportInv, TypeOK
<1>s. Stop => Progress'
  BY DEF Stop, Progress, Importing, Undoing
<1>r. roots' = roots => Unfinished' = Unfinished
  BY DEF Unfinished
<1>i. Unfinished \subseteq Txns
  BY DEF Unfinished
<1>1. CASE UNCHANGED vars
  <2>1. Older(txn)' <=> Older(txn)
    BY <1>1 DEF Older, vars, job
  <2> QED
    BY <1>t, <1>r, <1>1, <2>1 DEF vars, job, Progress
<1>2. ASSUME NEW a \in {"open", "import"}, Begin(a)
      PROVE  Progress'
  BY <1>t, <1>2 DEF Begin, Progress, Importing, Undoing
<1>3. CASE Recover
  <2>1. PICK gone \in SUBSET Disposable :
          roots' = [t \in Txns |-> IF t \in gone THEN NoRoot ELSE roots[t]]
    BY <1>3 DEF Recover
  <2>2. \A t \in Unfinished : t \notin Disposable
    BY DEF Unfinished, Disposable
  <2>3. Unfinished' = Unfinished
    <3>1. \A t \in Unfinished : t \in Unfinished'
      BY <2>1, <2>2 DEF Unfinished
    <3>2. \A t \in Unfinished' : t \in Unfinished
      BY <2>1, NoRootType DEF Unfinished
    <3> QED
      BY <3>1, <3>2
  <2>4. ~own
    BY <1>t, <1>3 DEF Recover, Progress
  <2>5. CASE Goto("ready") /\ Unfinished = {}
    BY <2>3, <2>4, <2>5 DEF Goto, job, Progress, Importing, Undoing
  <2>6. CASE step' = "restore" /\ txn' \in Unfinished
    BY <2>3, <2>6 DEF Progress, Importing, Undoing
  <2> QED
    BY <1>s, <1>3, <2>5, <2>6 DEF Recover
<1>4. CASE Open \/ Reject \/ Close
  <2>1. Stop \/ (Goto("open") /\ step = "ready" /\ roots' = roots)
    BY <1>4 DEF Open, Reject, Close
  <2>2. CASE Goto("open") /\ step = "ready" /\ roots' = roots
    BY <1>t, <1>r, <2>2 DEF Goto, job, Progress, Importing, Undoing
  <2> QED
    BY <1>s, <2>1, <2>2
<1>5. CASE Prepare
  BY <1>5, NewImages DEF Progress, Importing, Undoing, Older
<1>6. CASE PublishRoot
  <2>1. txn \in Txns
    BY <1>6, AtWork DEF PublishRoot
  <2>2. /\ roots'[txn].place = "published" /\ roots'[txn].phase = roots[txn].phase
        /\ roots'[txn].db = roots[txn].db /\ roots'[txn].files = roots[txn].files
    BY <1>t, <1>6, <2>1, RootFields DEF PublishRoot
  <2>3. roots[txn].phase = "PREPARED" /\ own /\ db = roots[txn].db /\ files = roots[txn].files
    BY <1>t, <1>6 DEF PublishRoot, Progress
  <2>4. txn \in Unfinished'
    BY <2>1, <2>2, <2>3 DEF Unfinished, Terminal
  <2> QED
    BY <1>6, <2>2, <2>3, <2>4 DEF PublishRoot, Goto, job, Progress, Importing, Undoing
<1>7. CASE Copy \/ Apply \/ SetAside \/ Swap
  BY <1>t, <1>r, <1>7 DEF Copy, Apply, SetAside, Swap, Goto, job, Progress, Importing, Undoing
<1>8. CASE Verify
  <2>1. txn \in Unfinished /\ own /\ db = txn /\ files = roots[txn].files /\ roots' = roots
    BY <1>t, <1>8 DEF Verify, Progress, Importing
  <2>2. CASE GotoFile("publish", 1)
    <3>1. \A j \in 1..Targets : ~(j < 1)
      BY ImportAssumption
    <3> QED
      BY <1>r, <1>8, <2>1, <2>2, <3>1 DEF Verify, GotoFile, Progress, Importing, Undoing
  <2>3. CASE Goto("restore")
    BY <1>r, <2>1, <2>3 DEF Goto, job, Progress, Importing, Undoing
  <2> QED
    BY <1>8, <2>2, <2>3 DEF Verify
<1>9. CASE PublishFile
  <2>1. /\ txn \in Unfinished /\ own /\ db = txn /\ UNCHANGED <<db, roots>> /\ pos > 0
        /\ files \in [1..Targets -> Contents]
        /\ \A j \in 1..Targets : files[j] = IF j < pos THEN txn ELSE roots[txn].files[j]
    BY <1>t, <1>9 DEF PublishFile, Progress, Importing, ImportInv, TypeOK
  <2>2. CASE pos > Targets
    <3>1. files = [j \in 1..Targets |-> txn]
      BY <1>t, <2>1, <2>2, ImportAssumption
    <3> QED
      BY <1>r, <1>9, <2>1, <2>2, <3>1 DEF PublishFile, Goto, job, Progress, Importing, Undoing
  <2>3. CASE ~(pos > Targets)
    <3>1. files' = [files EXCEPT ![pos] = txn] /\ GotoFile("publish", pos + 1)
      BY <1>9, <2>3 DEF PublishFile
    <3>2. \A j \in 1..Targets :
            files'[j] = IF j < pos + 1 THEN txn ELSE roots[txn].files[j]
      BY <1>t, <2>1, <3>1, ImportAssumption
    <3>3. pos + 1 > 0
      BY <1>t, ImportAssumption
    <3> QED
      BY <1>r, <2>1, <3>1, <3>2, <3>3 DEF GotoFile, Progress, Importing, Undoing
  <2> QED
    BY <2>2, <2>3
<1>10. CASE StepFails
  <2>1. txn \in Unfinished
    BY <1>10, AtWork DEF StepFails, Importing
  <2> QED
    BY <1>r, <1>10, <2>1 DEF StepFails, Goto, job, Progress, Importing, Undoing
<1>11. CASE Mark \/ MarkFails
  <2>1. step \in {"applied", "published", "whole", "undone"}
    BY <1>11 DEF Mark, MarkFails, PhaseAt
  <2>2. txn \in Unfinished /\ txn \in Txns
    BY <2>1, AtWork DEF Importing, Undoing
  <2>3. PhaseAt[step] \in Phases
    BY <2>1 DEF PhaseAt, Phases
  <2>4. roots' \in {roots, Marked} /\ UNCHANGED <<db, files>>
    BY <1>11 DEF Mark, MarkFails
  <2>5. roots'[txn].db = roots[txn].db /\ roots'[txn].files = roots[txn].files
    <3>1. Marked[txn].db = roots[txn].db /\ Marked[txn].files = roots[txn].files
      BY <1>t, <2>2, <2>3, RootFields DEF Marked
    <3> QED
      BY <2>4, <3>1
  <2>6. roots' = Marked => /\ roots'[txn].place = "published"
                           /\ roots'[txn].phase = PhaseAt[step]
    BY <1>t, <2>2, <2>3, RootFields DEF Marked, Unfinished
  <2>7. CASE step \in {"applied", "published"}
    <3>1. PhaseAt[step] \notin Terminal
      BY <2>7 DEF PhaseAt, Terminal
    <3>2. txn \in Unfinished'
      BY <2>2, <2>4, <2>6, <3>1 DEF Unfinished
    <3>3. own /\ db = txn /\ (step = "applied" => files = roots[txn].files)
              /\ (step = "published" => files = [j \in 1..Targets |-> txn])
      BY <1>t, <2>7 DEF Progress, Importing
    <3>4. Goto("restore") \/ (step = "applied" /\ Goto("verify"))
                          \/ (step = "published" /\ Goto("whole"))
      <4>1. CASE Mark
        BY <2>7, <4>1 DEF Mark, StepAfter
      <4>2. CASE MarkFails
        BY <2>7, <4>2 DEF MarkFails
      <4> QED
        BY <1>11, <4>1, <4>2
    <3> QED
      BY <2>4, <2>5, <3>2, <3>3, <3>4 DEF Goto, job, Progress, Importing, Undoing
  <2>8. CASE step \in {"whole", "undone"} /\ Mark
    <3>1. PhaseAt[step] \in Terminal /\ Goto("retire") /\ roots' = Marked
      BY <2>8 DEF PhaseAt, StepAfter, Terminal, Mark
    <3>2. txn \notin Unfinished' /\ roots'[txn].phase \in Terminal
      BY <2>6, <3>1 DEF Unfinished
    <3>3. Unfinished' = {}
      BY <2>2, <3>2, UnfinishedStep DEF ImportInv, OneUnfinished, Kept, Recover
    <3>4. roots'[txn].phase = "COMPLETED" <=> db' = txn
      <4>1. roots'[txn].phase = PhaseAt[step]
        BY <2>6, <3>1
      <4>2. CASE step = "whole"
        BY <1>t, <2>4, <4>1, <4>2 DEF PhaseAt, Progress
      <4>3. CASE step = "undone"
        <5>1. PICK k \in 0..txn - 1 : roots[txn].db = k
          BY <2>2 DEF ImportInv, ImagesAreWhole, Older
        <5>2. db # txn
          BY <1>t, <2>2, <4>3, <5>1 DEF Progress, Txns
        <5> QED
          BY <2>4, <4>1, <4>3, <5>2 DEF PhaseAt
      <4> QED
        BY <2>8, <4>2, <4>3
    <3> QED
      BY <2>2, <3>1, <3>2, <3>3, <3>4 DEF Goto, job, Progress, Importing, Undoing
  <2>9. CASE step \in {"whole", "undone"} /\ MarkFails
    BY <1>s, <2>9 DEF MarkFails, End
  <2> QED
    BY <1>11, <2>1, <2>7, <2>8, <2>9
<1>12. CASE RestoreDatabase
  <2>1. txn \in Unfinished
    BY <1>12, AtWork DEF RestoreDatabase, Undoing
  <2>2. Targets <= Targets /\ \A j \in 1..Targets : ~(j > Targets)
    BY ImportAssumption
  <2> QED
    BY <1>r, <1>12, <2>1, <2>2 DEF RestoreDatabase, GotoFile, Progress, Importing, Undoing
<1>13. CASE RestoreFile
  <2>1. /\ txn \in Unfinished /\ db = roots[txn].db /\ UNCHANGED <<db, roots>>
        /\ pos <= Targets /\ files \in [1..Targets -> Contents]
        /\ \A j \in 1..Targets : j > pos => files[j] = roots[txn].files[j]
    BY <1>t, <1>13 DEF RestoreFile, Progress, Undoing, ImportInv, TypeOK
  <2>2. roots[txn].files \in [1..Targets -> Contents]
    BY <1>t, <1>i, <2>1 DEF Roots
  <2>3. CASE pos = 0
    <3>1. files = roots[txn].files
      BY <2>1, <2>2, <2>3, ImportAssumption
    <3> QED
      BY <1>r, <1>13, <2>1, <2>3, <3>1 DEF RestoreFile, Goto, job, Progress, Importing, Undoing
  <2>4. CASE pos # 0
    <3>1. files' = [files EXCEPT ![pos] = roots[txn].files[pos]] /\ GotoFile("refile", pos - 1)
      BY <1>13, <2>4 DEF RestoreFile
    <3>2. \A j \in 1..Targets : j > pos - 1 => files'[j] = roots[txn].files[j]
      BY <1>t, <2>1, <3>1, ImportAssumption
    <3>3. pos - 1 <= Targets
      BY <1>t, <2>1, ImportAssumption
    <3> QED
      BY <1>r, <2>1, <3>1, <3>2, <3>3 DEF GotoFile, Progress, Importing, Undoing
  <2> QED
    BY <2>3, <2>4
<1>14. CASE PrepareFails \/ RollbackFails \/ Crash
  BY <1>s, <1>14 DEF PrepareFails, RollbackFails, Crash, End
<1>15. CASE Retire
  <2>1. \A t \in Unfinished' : t \in Unfinished
    BY <1>t, <1>15, NoRootType DEF Retire, Unfinished
  <2>2. Unfinished' = {}
    BY <1>t, <1>15, <2>1 DEF Retire, Progress
  <2>3. CASE own
    BY <1>s, <1>15, <2>3 DEF Retire, End
  <2>4. CASE ~own
    BY <1>15, <2>2, <2>4 DEF Retire, Goto, job, Progress, Importing, Undoing
  <2> QED
    BY <2>3, <2>4
<1>16. CASE Damage
  BY <1>t, <1>16 DEF Damage, job, Progress, Importing, Undoing
<1> QED
  BY <1>1, <1>2, <1>3, <1>4, <1>5, <1>6, <1>7, <1>8, <1>9, <1>10, <1>11, <1>12, <1>13,
     <1>14, <1>15, <1>16 DEF Next, Work

\* What Effective is, with and without an unfinished transaction.
LEMMA EffectiveIs ==
  ASSUME OneUnfinished
  PROVE  /\ Unfinished = {} => Effective = [db |-> db, files |-> files]
         /\ \A t \in Unfinished : Effective = [db |-> roots[t].db, files |-> roots[t].files]
<1>1. ASSUME NEW t \in Unfinished
      PROVE  Effective = [db |-> roots[t].db, files |-> roots[t].files]
  <2>1. \A u \in Unfinished : u = t
    BY DEF OneUnfinished
  <2>2. (CHOOSE u \in Unfinished : TRUE) = t
    BY <2>1
  <2> QED
    BY <2>2 DEF Effective
<1> QED
  BY <1>1 DEF Effective

\* The same after a step.
LEMMA EffectiveNext ==
  ASSUME OneUnfinished'
  PROVE  /\ Unfinished' = {} => Effective' = [db |-> db', files |-> files']
         /\ \A t \in Unfinished' :
              Effective' = [db |-> roots'[t].db, files |-> roots'[t].files]
<1>1. ASSUME NEW t \in Unfinished'
      PROVE  Effective' = [db |-> roots'[t].db, files |-> roots'[t].files]
  <2>1. \A u \in Unfinished' : u = t
    BY DEF OneUnfinished
  <2>2. (CHOOSE u \in Unfinished' : TRUE) = t
    BY <2>1
  <2> QED
    BY <2>2 DEF Effective
<1> QED
  BY <1>1 DEF Effective

\* An import is one step: what the next session will find changes only when
\* the phase COMPLETED is written, and then to the import's contents throughout.
LEMMA EffectiveStep ==
  ASSUME ImportInv, [Next]_vars
  PROVE  \/ Effective' = Effective
         \/ /\ (Mark \/ MarkFails) /\ step = "whole"
            /\ txn \in Txns /\ own /\ txn > Effective.db
            /\ Effective' = Atomic!Whole(txn)
<1>t. roots \in [Txns -> Roots] /\ Progress /\ OneUnfinished /\ OneUnfinished'
  BY RootsStep DEF ImportInv, TypeOK
<1>1. CASE Unfinished = {} /\ Unfinished' = {} /\ UNCHANGED <<db, files>>
  BY <1>t, <1>1, EffectiveIs, EffectiveNext
<1>2. ASSUME NEW t \in Unfinished, t \in Unfinished', Kept(t)
      PROVE  Effective' = Effective
  BY <1>t, <1>2, EffectiveIs, EffectiveNext DEF Kept
<1>3. CASE roots' = roots /\ (UNCHANGED <<db, files>> \/ Unfinished # {})
  <2>1. Unfinished' = Unfinished
    BY <1>3 DEF Unfinished
  <2> QED
    BY <1>1, <1>2, <1>3, <2>1 DEF Kept
<1>4. CASE UNCHANGED vars
  BY <1>3, <1>4 DEF vars
<1>5. CASE \/ (\E a \in {"open", "import"} : Begin(a)) \/ Open \/ Reject \/ Close
           \/ Copy \/ Verify \/ StepFails \/ RollbackFails \/ Crash
  BY <1>3, <1>5 DEF Begin, Open, Reject, Close, Copy, Verify, StepFails, RollbackFails, Crash
<1>6. CASE Apply \/ SetAside \/ Swap \/ PublishFile \/ RestoreDatabase \/ RestoreFile
  <2>1. txn \in Unfinished /\ roots' = roots
    BY <1>6, AtWork DEF Apply, SetAside, Swap, PublishFile, RestoreDatabase, RestoreFile,
                        Importing, Undoing
  <2> QED
    BY <1>3, <2>1
<1>7. CASE Recover
  <2>1. PICK gone \in SUBSET Disposable :
          roots' = [t \in Txns |-> IF t \in gone THEN NoRoot ELSE roots[t]]
    BY <1>7 DEF Recover
  <2>2. \A t \in Unfinished : t \notin Disposable
    BY DEF Unfinished, Disposable
  <2>3. \A t \in Unfinished : t \in Unfinished' /\ Kept(t)
    BY <2>1, <2>2 DEF Unfinished, Kept
  <2>4. \A t \in Unfinished' : t \in Unfinished
    BY <2>1, NoRootType DEF Unfinished
  <2> QED
    BY <1>1, <1>2, <1>7, <2>3, <2>4 DEF Recover
<1>8. CASE Prepare
  <2>1. Unfinished = {} /\ UNCHANGED <<db, files>>
    BY <1>t, <1>8 DEF Prepare, Progress
  <2> QED
    BY <1>1, <1>8, <2>1, NewImages
<1>9. CASE PublishRoot \/ PrepareFails
  <2>1. /\ Unfinished = {} /\ UNCHANGED <<db, files>>
        /\ db = roots[txn].db /\ files = roots[txn].files
    BY <1>t, <1>9 DEF PublishRoot, PrepareFails, Progress
  <2>2. CASE Unfinished' = {}
    BY <1>1, <2>1, <2>2
  <2>3. CASE /\ Unfinished' = {txn}
             /\ roots'[txn].db = roots[txn].db /\ roots'[txn].files = roots[txn].files
    BY <1>t, <2>1, <2>3, EffectiveIs, EffectiveNext
  <2> QED
    BY <2>1, <2>2, <2>3, UnfinishedStep DEF Kept
<1>10. CASE Mark \/ MarkFails
  <2>1. step \in {"applied", "published", "whole", "undone"}
    BY <1>10 DEF Mark, MarkFails, PhaseAt
  <2>2. txn \in Unfinished /\ txn \in Txns
    BY <2>1, AtWork DEF Importing, Undoing
  <2>3. PhaseAt[step] \in Phases
    BY <2>1 DEF PhaseAt, Phases
  <2>4. roots' \in {roots, Marked} /\ UNCHANGED <<db, files>>
    BY <1>10 DEF Mark, MarkFails
  <2>5. CASE roots' = roots
    BY <1>3, <2>4, <2>5
  <2>6. CASE roots' = Marked
    <3>1. /\ roots'[txn].place = "published" /\ roots'[txn].phase = PhaseAt[step]
          /\ roots'[txn].db = roots[txn].db /\ roots'[txn].files = roots[txn].files
      BY <1>t, <2>2, <2>3, <2>6, RootFields DEF Marked, Unfinished
    <3>2. CASE step \in {"applied", "published"}
      <4>1. PhaseAt[step] \notin Terminal
        BY <3>2 DEF PhaseAt, Terminal
      <4>2. txn \in Unfinished' /\ Kept(txn)
        BY <2>2, <3>1, <4>1 DEF Unfinished, Kept
      <4> QED
        BY <1>2, <2>2, <4>2
    <3>3. CASE step \in {"whole", "undone"}
      <4>1. PhaseAt[step] \in Terminal
        BY <3>3 DEF PhaseAt, Terminal
      <4>2. txn \notin Unfinished'
        BY <3>1, <4>1 DEF Unfinished
      <4>3. Unfinished' = {}
        BY <1>10, <2>2, <4>2, UnfinishedStep
           DEF ImportInv, OneUnfinished, Kept
      <4>4. Effective' = [db |-> db, files |-> files]
        BY <1>t, <2>4, <4>3, EffectiveNext
      <4>5. Effective = [db |-> roots[txn].db, files |-> roots[txn].files]
        BY <1>t, <2>2, EffectiveIs
      <4>6. CASE step = "undone"
        BY <1>t, <4>4, <4>5, <4>6 DEF Progress
      <4>7. CASE step = "whole"
        <5>1. db = txn /\ files = [j \in 1..Targets |-> txn] /\ own
          BY <1>t, <4>7 DEF Progress, Importing
        <5>2. PICK k \in 0..txn - 1 : roots[txn].db = k
          BY <2>2 DEF ImportInv, ImagesAreWhole, Older
        <5>3. txn > Effective.db
          BY <2>2, <4>5, <5>2 DEF Txns
        <5> QED
          BY <1>10, <2>2, <4>4, <4>7, <5>1, <5>3 DEF Atomic!Whole
      <4> QED
        BY <3>3, <4>6, <4>7
    <3> QED
      BY <2>1, <3>2, <3>3
  <2> QED
    BY <2>4, <2>5, <2>6
<1>11. CASE Retire
  <2>1. Unfinished = {} /\ UNCHANGED <<db, files>>
    BY <1>t, <1>11 DEF Retire, Progress
  <2>2. \A t \in Unfinished' : t \in Unfinished
    BY <1>t, <1>11, NoRootType DEF Retire, Unfinished
  <2> QED
    BY <1>1, <2>1, <2>2
<1>12. CASE Damage
  <2>1. PICK t \in Unfinished : roots' = [roots EXCEPT ![t].valid = FALSE]
    BY <1>12 DEF Damage
  <2>2. t \in Unfinished' /\ Kept(t)
    BY <1>t, <2>1, RootFields DEF Unfinished, Kept
  <2> QED
    BY <1>2, <2>2
<1> QED
  BY <1>4, <1>5, <1>6, <1>7, <1>8, <1>9, <1>10, <1>11, <1>12 DEF Next, Work

\* The database the next session will find is an import's, older than any
\* unfinished one.
LEMMA FoundIsContents ==
  ASSUME ImportInv
  PROVE  /\ Effective.db \in Contents
         /\ \A t \in Unfinished : Effective.db < t
         /\ Unfinished = {} => Effective.db = db
<1>1. ASSUME NEW t \in Unfinished
      PROVE  Effective.db \in Contents /\ Effective.db < t
  <2>1. PICK k \in 0..t - 1 : roots[t].db = k
    BY DEF ImportInv, ImagesAreWhole, Older
  <2>2. t \in Txns /\ Effective.db = k
    BY <2>1, EffectiveIs DEF ImportInv, Unfinished
  <2> QED
    BY <2>1, <2>2, ImportAssumption DEF Txns, Contents
<1>2. CASE Unfinished = {}
  <2>1. Effective.db = db
    BY <1>2, EffectiveIs DEF ImportInv
  <2>2. CASE step = "prepare"
    BY <2>1, <2>2, AtWork, OlderIsWhole DEF ImportInv, Progress, AllAre
  <2>3. CASE step # "prepare"
    BY <1>2, <2>1, <2>3 DEF ImportInv, DataAreWhole, AllAre
  <2> QED
    BY <1>2, <2>1, <2>2, <2>3
<1> QED
  BY <1>1, <1>2

\* What is reported agrees with what the next session will find.
LEMMA ReportsStep ==
  ASSUME ImportInv, [Next]_vars
  PROVE  Reports'
<1> DEFINE found == Effective.db
<1>t. /\ outcome \in [Txns -> Outcomes] /\ Reports /\ Numbered /\ Progress
      /\ found \in Contents /\ \A t \in Txns : t \in Nat /\ \A c \in Contents : c \in Nat
  BY FoundIsContents, ImportAssumption DEF ImportInv, TypeOK, Txns, Contents
<1>q. ASSUME \A t \in Txns : outcome'[t] = "committed" => found' >= t,
             found' \in Txns =>
                /\ outcome'[found'] \notin {"rolled_back", "recovery_required"}
                /\ outcome'[found'] = "none" => own' /\ txn' = found'
      PROVE  Reports'
  BY <1>q DEF Reports
<1>r. /\ \A t \in Txns : outcome[t] = "committed" => found >= t
      /\ found \in Txns => /\ outcome[found] \notin {"rolled_back", "recovery_required"}
                           /\ outcome[found] = "none" => own /\ txn = found
  BY <1>t DEF Reports
<1>f. \/ found' = found
      \/ /\ (Mark \/ MarkFails) /\ step = "whole"
         /\ txn \in Txns /\ own /\ txn > found /\ found' = txn
  <2>1. Atomic!Whole(txn).db = txn
    BY DEF Atomic!Whole
  <2> QED
    BY <2>1, EffectiveStep
<1> HIDE DEF found
<1>1. CASE UNCHANGED <<outcome, txn, own>>
  <2>1. CASE found' = found
    BY <1>q, <1>r, <1>1, <2>1
  <2>2. CASE txn \in Txns /\ own /\ txn > found /\ found' = txn
    <3>1. outcome[txn] = "none"
      BY <1>t, <2>2 DEF Numbered
    <3>2. \A t \in Txns : outcome[t] = "committed" => txn >= t
      BY <1>t, <1>r, <2>2
    <3> QED
      BY <1>q, <1>1, <2>2, <3>1, <3>2
  <2> QED
    BY <1>f, <2>1, <2>2
<1>2. CASE UNCHANGED outcome /\ ~own /\ ~(Mark \/ MarkFails)
  BY <1>q, <1>r, <1>f, <1>2
<1>3. ASSUME NEW result \in Outcomes \ {"none"}, End(result), found' = found,
             own /\ found = txn => result \notin {"rolled_back", "recovery_required"},
             own /\ result = "committed" => found = txn
      PROVE  Reports'
  <2>1. CASE own
    <3>1. outcome' = [outcome EXCEPT ![txn] = result] /\ txn \in Txns
      BY <1>3, <2>1, AtWork DEF End
    <3>2. \A t \in Txns : outcome'[t] = IF t = txn THEN result ELSE outcome[t]
      BY <1>t, <3>1
    <3> QED
      BY <1>t, <1>r, <1>q, <1>3, <2>1, <3>1, <3>2
  <2>2. CASE ~own
    BY <1>r, <1>q, <1>3, <2>2 DEF End
  <2> QED
    BY <2>1, <2>2
<1>4. {"failed", "recovery_required", "unknown", "committed", "rolled_back"}
        \subseteq Outcomes \ {"none"}
  BY DEF Outcomes
<1>5. CASE UNCHANGED vars
  BY <1>1, <1>5 DEF vars, job
<1>6. ASSUME NEW a \in {"open", "import"}, Begin(a)
      PROVE  Reports'
  BY <1>1, <1>6 DEF Begin
<1>7. CASE Recover \/ Open \/ Reject \/ Close \/ Prepare
  <2>1. UNCHANGED outcome /\ ~own
    BY <1>t, <1>7 DEF Recover, Open, Reject, Close, Prepare, Progress
  <2>2. ~(Mark \/ MarkFails)
    BY <1>7 DEF Recover, Open, Reject, Close, Prepare, Mark, MarkFails, PhaseAt
  <2> QED
    BY <1>2, <2>1, <2>2
<1>8. CASE \/ PublishRoot \/ Copy \/ Apply \/ SetAside \/ Swap \/ Verify \/ PublishFile
           \/ StepFails \/ Mark \/ RestoreDatabase \/ RestoreFile \/ Damage
  BY <1>1, <1>8 DEF PublishRoot, Copy, Apply, SetAside, Swap, Verify, PublishFile, StepFails,
                    Mark, RestoreDatabase, RestoreFile, Damage, Goto, GotoFile, job
<1>9. CASE PrepareFails
  <2>1. found' = found
    BY <1>f, <1>9 DEF PrepareFails
  <2> QED
    BY <1>3, <1>4, <1>9, <2>1 DEF PrepareFails
<1>10. ASSUME txn \in Unfinished
       PROVE  found # txn
  BY <1>t, <1>10, FoundIsContents DEF found, Unfinished, Txns
<1>11. CASE RollbackFails
  <2>1. found' = found /\ found # txn
    BY <1>f, <1>10, <1>11, AtWork DEF RollbackFails, Mark, MarkFails, PhaseAt, Undoing
  <2> QED
    BY <1>3, <1>4, <1>11, <2>1 DEF RollbackFails
<1>12. CASE MarkFails
  <2>1. step \in {"applied", "published", "whole", "undone"}
    BY <1>12 DEF MarkFails, PhaseAt
  <2>2. CASE step \in {"applied", "published"}
    BY <1>1, <1>12, <2>2 DEF MarkFails, Goto, job
  <2>3. CASE step = "undone"
    <3>1. found' = found /\ found # txn
      BY <1>f, <1>10, <2>3, AtWork DEF Undoing
    <3> QED
      BY <1>3, <1>4, <1>12, <2>3, <3>1 DEF MarkFails
  <2>4. CASE step = "whole"
    <3>1. End("failed")
      BY <1>12, <2>4 DEF MarkFails
    <3>2. CASE found' = found
      BY <1>3, <1>4, <3>1, <3>2
    <3>3. CASE txn \in Txns /\ own /\ txn > found /\ found' = txn
      <4>1. \A t \in Txns : outcome'[t] = IF t = txn THEN "failed" ELSE outcome[t]
        BY <1>t, <3>1, <3>3 DEF End
      <4>2. \A t \in Txns : outcome'[t] = "committed" => txn >= t
        BY <1>t, <1>r, <3>3, <4>1
      <4> QED
        BY <1>q, <3>3, <4>1, <4>2
    <3> QED
      BY <1>f, <3>2, <3>3
  <2> QED
    BY <2>1, <2>2, <2>3, <2>4
<1>13. CASE Retire
  <2>1. Unfinished = {} /\ (roots[txn].phase = "COMPLETED" <=> db = txn)
    BY <1>t, <1>13 DEF Retire, Progress
  <2>2. found = db /\ found' = found
    BY <1>f, <1>13, <2>1, FoundIsContents DEF Retire, found
  <2>3. CASE own
    BY <1>3, <1>4, <1>13, <2>1, <2>2, <2>3 DEF Retire
  <2>4. CASE ~own
    BY <1>1, <1>13, <2>4 DEF Retire, Goto, job
  <2> QED
    BY <2>3, <2>4
<1>14. CASE Crash
  <2>1. End("unknown")
    BY <1>14 DEF Crash, End
  <2>2. UNCHANGED <<db, files, roots>>
    BY <1>14 DEF Crash
  <2>3. Unfinished' = Unfinished
    BY <2>2 DEF Unfinished
  <2>4. found' = found
    BY <2>2, <2>3 DEF found, Effective
  <2> QED
    BY <1>3, <1>4, <2>1, <2>4
<1> QED
  BY <1>5, <1>6, <1>7, <1>8, <1>9, <1>11, <1>12, <1>13, <1>14 DEF Next, Work

\* The strengthened invariant, for any number of files and of imports, any
\* failures, deaths and damaged journals.
THEOREM ImportInductive == Spec => []ImportInv
<1>1. Init => ImportInv
  <2> SUFFICES ASSUME Init PROVE ImportInv
    OBVIOUS
  <2>1. 0 \in Contents /\ 0 \notin Txns
    BY ImportAssumption DEF Contents, Txns
  <2>2. TypeOK
    <3>1. "idle" \in Steps /\ "none" \in Outcomes /\ 0 \in 0..Targets + 1 /\ 0 \in 0..MaxFaults
      BY ImportAssumption DEF Steps, Outcomes
    <3> QED
      BY <2>1, <3>1, NoRootType DEF Init, TypeOK
  <2>3. Unfinished = {}
    BY NoRootType DEF Init, Unfinished
  <2>4. Effective.db = 0
    BY <2>3 DEF Effective, Init
  <2>5. OneUnfinished /\ ImagesAreWhole
    BY <2>3 DEF OneUnfinished, ImagesAreWhole
  <2>6. DataAreWhole
    BY <2>1 DEF DataAreWhole, AllAre, Init
  <2>7. Numbered /\ Reports
    BY <2>1, <2>3, <2>4 DEF Init, Numbered, Reports
  <2>8. Progress
    BY DEF Init, Progress, Importing, Undoing
  <2> QED
    BY <2>2, <2>5, <2>6, <2>7, <2>8 DEF ImportInv
<1>2. ImportInv /\ [Next]_vars => ImportInv'
  BY TypeStep, RootsStep, DataStep, NumberedStep, ProgressStep, ReportsStep DEF ImportInv
<1> QED
  BY <1>1, <1>2, PTL DEF Spec

\* A session, and the images of a new import, find whole data.
THEOREM SessionsWhole == Spec => []SessionsSeeWhole
<1>1. ImportInv => SessionsSeeWhole
  BY DEF ImportInv, Progress, DataAreWhole, SessionsSeeWhole
<1> QED
  BY <1>1, ImportInductive, PTL

\* What a session finds agrees with what was reported.
THEOREM OutcomesTrue == Spec => []OutcomesAreTrue
<1>1. ImportInv => OutcomesAreTrue
  <2> SUFFICES ASSUME ImportInv, step = "open"
               PROVE  /\ \A t \in Txns : outcome[t] = "committed" => db >= t
                      /\ db \in Txns =>
                           outcome[db] \notin {"rolled_back", "recovery_required", "none"}
    BY DEF OutcomesAreTrue
  <2>1. Unfinished = {} /\ ~own
    BY DEF ImportInv, Progress
  <2>2. Effective.db = db
    BY <2>1, FoundIsContents
  <2> QED
    BY <2>1, <2>2 DEF ImportInv, Reports
<1> QED
  BY <1>1, ImportInductive, PTL

\* There is never a second unfinished transaction to make a recovery give up.
THEOREM OneUnfinishedAlways == Spec => []OneUnfinished
<1>1. ImportInv => OneUnfinished
  BY DEF ImportInv
<1> QED
  BY <1>1, ImportInductive, PTL

\* Nothing changes a target file between the images and the publication.
THEOREM TargetsUntouched == Spec => []TargetsHold
<1>1. ImportInv => TargetsHold
  BY DEF ImportInv, Progress, TargetsHold, Unchanged
<1> QED
  BY <1>1, ImportInductive, PTL

\* Seen by the sessions that come after it, an import is one step or none.
THEOREM ImportAtomic == Spec => ImportIsAtomic
<1>1. Init => Atomic!Init
  <2> SUFFICES ASSUME Init PROVE Effective = Atomic!Whole(0)
    BY DEF Atomic!Init
  <2>1. Unfinished = {}
    BY NoRootType DEF Init, Unfinished
  <2> QED
    BY <2>1 DEF Effective, Init, Atomic!Whole
<1>2. ImportInv /\ [Next]_vars => [Atomic!Import]_Effective
  <2> SUFFICES ASSUME ImportInv, [Next]_vars, Effective' # Effective
               PROVE  Atomic!Import
    OBVIOUS
  <2>1. /\ txn \in 1..MaxImports /\ txn > Effective.db
        /\ Effective' = Atomic!Whole(txn)
    BY EffectiveStep DEF Txns
  <2> QED
    BY <2>1 DEF Atomic!Import
<1> QED
  BY <1>1, <1>2, ImportInductive, PTL DEF Spec, ImportIsAtomic, Atomic!Spec

=============================================================================
