--------------------------- MODULE ReconcileProofs ---------------------------
(***************************************************************************)
(* Proofs about reconciliation: an operation under which nobody moves the  *)
(* shared clone records what it deployed, and a row that says Synced by    *)
(* its verdict tells the truth, whatever fails and whoever interferes      *)
(* before and after.                                                       *)
(***************************************************************************)
EXTENDS Reconcile, TLAPS

\* Every value the code gives the row has the row's type.
LEMMA RowUpdates ==
    ASSUME TypeOK
    PROVE  /\ [rec EXCEPT !.headSHA = sha] \in Rows(Len(log))
           /\ [rec EXCEPT !.headSHA = dry] \in Rows(Len(log))
           /\ [rec EXCEPT !.headSHA = dry, !.health = "Degraded", !.lastError = TRUE]
                \in Rows(Len(log))
           /\ [rec EXCEPT !.health = "Degraded", !.lastError = TRUE] \in Rows(Len(log))
           /\ [rec EXCEPT !.health = "Progressing"] \in Rows(Len(log))
           /\ [rec EXCEPT !.status = "Synced", !.lastSynced = sha, !.lastError = FALSE]
                \in Rows(Len(log))
           /\ [rec EXCEPT !.status = "ManuallyManaged", !.lastError = FALSE]
                \in Rows(Len(log))
           /\ [rec EXCEPT !.status = "OutOfSync", !.health = "Progressing"]
                \in Rows(Len(log))
           /\ [rec EXCEPT !.status = "Synced", !.health = "Progressing",
                          !.lastSynced = sha, !.lastError = FALSE] \in Rows(Len(log))
           /\ [rec EXCEPT !.status = "Synced", !.lastError = FALSE] \in Rows(Len(log))
<1>1. rec \in Rows(Len(log)) /\ dry \in 0..Len(log) /\ sha \in 0..Len(log)
  BY DEF TypeOK
<1> QED
  BY <1>1, Zenon DEF Rows, Statuses, Healths

\* A new row and the absence of one have the row's type.
LEMMA RowStarts == ASSUME NEW n \in Nat PROVE NewRow \in Rows(n) /\ NoRow \in Rows(n)
<1>1. NewRow \in Rows(n)
  BY DEF Rows, NewRow, Statuses, Healths
<1> QED
  BY <1>1, Zenon DEF Rows, NoRow

\* A record of a commit of the branch joins the history.
LEMMA HistoryGrows ==
    ASSUME TypeOK, NEW c \in 0..Len(log), NEW op \in Ops, RecordSync(c, op)
    PROVE  history' \subseteq (1..Len(log)) \X Ops
BY SMTT(60) DEF TypeOK, RecordSync, Ops

\* What up leaves in the services is what the commit asks for, or was there.
LEMMA ApplyTyped ==
    ASSUME TypeOK, worktree # 0, NEW S, Apply(S)
    PROVE  live' \in [Services -> Values \cup {NoValue}]
<1>1. log[worktree] \in Values
  BY DEF TypeOK
<1>2. \A s \in Services : live[s] \in Values \cup {NoValue}
  BY DEF TypeOK
<1> QED
  BY <1>1, <1>2 DEF Apply

\* The type invariant is inductive.
LEMMA TypeStep == TypeOK /\ [Next]_vars => TypeOK'
<1> SUFFICES ASSUME TypeOK, [Next]_vars PROVE TypeOK'
  OBVIOUS
<1> USE ReconcileAssumption
<1>n. /\ Len(log) \in Nat /\ Len(log) \in 1..MaxCommits
      /\ rec \in Rows(Len(log))
      /\ sha \in 0..Len(log) /\ worktree \in 0..Len(log) /\ kind \in Ops
      /\ dry \in 0..Len(log) /\ HeadSHA \in 0..Len(log)
  BY DEF TypeOK, HeadSHA, Ops
<1>f. ASSUME NEW f, Failure(f) PROVE faults' \in 0..MaxFaults
  BY <1>f DEF Failure, TypeOK
<1>h. ASSUME NEW c \in 0..Len(log), finishResult(c)
      PROVE  sha' \in 0..Len(log) /\ pc' = "finish"
  BY <1>h DEF finishResult
<1>e. ASSUME OperationEnds
      PROVE  /\ pc' = "idle" /\ kind' = "poll" /\ last' \in 0..Len(log) /\ sha' \in 0..Len(log)
             /\ spec' \in Values \cup {NoValue} /\ wave' \in 1..Len(Waves)
             /\ moved' \in BOOLEAN
  <2>1. moved' \in BOOLEAN
    BY <1>e, Zenon DEF OperationEnds
  <2> QED
    BY <1>e, <1>n, <2>1 DEF OperationEnds
<1>m. ASSUME Undisturbed \/ Disturb PROVE moved' \in BOOLEAN
  BY <1>m, Zenon DEF Undisturbed, Disturb, TypeOK
<1>d. ASSUME Degrade PROVE rec' \in Rows(Len(log))
  BY <1>d, <1>n, RowUpdates DEF Degrade, updateStatus
<1>1. ASSUME NEW v \in Values, Push(v) PROVE TypeOK'
  <2>1. /\ log' \in Seq(Values) /\ Len(log') = Len(log) + 1
        /\ Len(log') \in 1..MaxCommits
    BY <1>1 DEF Push, TypeOK, HeadSHA
  <2>2. rec \in Rows(Len(log'))
    BY <1>n, <2>1 DEF Rows
  <2>3. history \subseteq (1..Len(log')) \X Ops
    BY <2>1 DEF TypeOK
  <2> QED
    BY <1>1, <2>1, <2>2, <2>3, SMTT(60) DEF Push, TypeOK, appVars, opVars, ghostVars
<1>2. ASSUME NEW s \in Services, Drift(s) PROVE TypeOK'
  BY <1>2, <1>f DEF Drift, TypeOK, appVars, opVars, ghostVars
<1>3. CASE Crash
  <2>1. live' \in [Services -> Values \cup {NoValue}]
    <3>1. live' = live \/ (worktree # 0 /\ \E S \in SUBSET Batch : Apply(S))
      BY <1>3 DEF Crash
    <3> QED
      BY <3>1, ApplyTyped DEF TypeOK
  <2>2. removing' \in BOOLEAN /\ dry' = 0 /\ faults' \in 0..MaxFaults
    BY <1>3, <1>f, Zenon DEF Crash
  <2>3. OperationEnds
    BY <1>3 DEF Crash
  <2> QED
    BY <1>3, <1>e, <2>1, <2>2, <2>3 DEF Crash, TypeOK, appVars
<1>4. ASSUME NEW k \in {"poll", "manual"}, Start(k) PROVE TypeOK'
  BY <1>4, <1>n DEF Start, TypeOK, appVars, ghostVars, Rows
<1>5. ASSUME NEW c \in 1..HeadSHA, StartRollback(c) PROVE TypeOK'
  <2>1. c \in 0..Len(log)
    BY <1>5, <1>n DEF HeadSHA
  <2>2. pc' \in {"finish", "sync"}
    BY <1>5 DEF StartRollback
  <2> QED
    BY <1>5, <2>1, <2>2 DEF StartRollback, TypeOK, appVars, ghostVars
<1>6. CASE SyncStep
  <2>1. sha' \in 0..Len(log) /\ pc' \in {"report", "checkout"} /\ worktree' \in 0..Len(log)
    BY <1>6, <1>n, Zenon DEF SyncStep, Sync
  <2>2. moved' \in BOOLEAN
    BY <1>6, <1>m DEF SyncStep
  <2> QED
    BY <1>6, <2>1, <2>2 DEF SyncStep, TypeOK, appVars
<1>7. CASE SyncStepFails
  <2>1. rec' \in Rows(Len(log))
    BY <1>7, <1>n, <1>d DEF SyncStepFails
  <2>2. sha' \in 0..Len(log) /\ pc' = "finish"
    BY <1>7, <1>n, <1>h DEF SyncStepFails
  <2> QED
    BY <1>7, <1>f, <2>1, <2>2 DEF SyncStepFails, SyncFails, TypeOK, ghostVars
<1>25. CASE ReportStep
  <2>1. rec' \in Rows(Len(log))
    BY <1>25, <1>n, RowUpdates DEF ReportStep, updateStatus
  <2>2. sha' \in 0..Len(log) /\ pc' \in {"parse", "finish"}
    BY <1>25, <1>n, <1>h DEF ReportStep
  <2> QED
    BY <1>25, <2>1, <2>2 DEF ReportStep, TypeOK, ghostVars
<1>8. CASE CheckoutStep
  <2>1. moved' \in BOOLEAN
    BY <1>8, <1>m DEF CheckoutStep
  <2> QED
    BY <1>8, <2>1 DEF CheckoutStep, CheckoutSHA, TypeOK, appVars, opVars
<1>9. CASE CheckoutStepFails
  <2>1. sha' \in 0..Len(log) /\ pc' = "finish"
    BY <1>9, <1>n, <1>h DEF CheckoutStepFails
  <2>2. faults' \in 0..MaxFaults
    BY <1>9, <1>f, Zenon DEF CheckoutStepFails, TypeOK
  <2> QED
    BY <1>9, <2>1, <2>2 DEF CheckoutStepFails, TypeOK, appVars, ghostVars
<1>10. CASE ParseStep
  <2>1. rec' \in Rows(Len(log)) /\ pc' \in {"deploy", "inspect"}
    BY <1>10, <1>n, RowUpdates, Zenon DEF ParseStep, updateStatus
  <2>2. spec' \in Values \cup {NoValue} /\ wave' \in 1..Len(Waves)
    BY <1>10, SMTT(60) DEF ParseStep, TypeOK
  <2>3. vouched' \in BOOLEAN
    BY <1>10, Zenon DEF ParseStep, TypeOK
  <2> QED
    BY <1>10, <2>1, <2>2, <2>3, Zenon DEF ParseStep, TypeOK
<1>11. CASE ParseStepFails
  <2>1. rec' \in Rows(Len(log)) /\ faults' \in 0..MaxFaults
    BY <1>11, <1>n, <1>d, <1>f, Zenon DEF ParseStepFails, TypeOK
  <2>2. sha' \in 0..Len(log) /\ pc' = "finish"
    <3>1. finishResult(sha) \/ finishResult(0)
      BY <1>11 DEF ParseStepFails
    <3> QED
      BY <3>1, <1>n, <1>h
  <2> QED
    BY <1>11, <2>1, <2>2 DEF ParseStepFails, TypeOK, ghostVars
<1>12. CASE InspectStep
  <2>1. rec' \in Rows(Len(log))
    BY <1>12, <1>n, RowUpdates DEF InspectStep, updateStatus
  <2>2. sha' \in 0..Len(log) /\ pc' \in {"finish", "deploy"}
    <3>1. finishResult(sha) \/ (pc' = "deploy" /\ sha' = sha)
      BY <1>12 DEF InspectStep
    <3> QED
      BY <3>1, <1>n, <1>h
  <2>3. drifted' \in BOOLEAN /\ vouched' \in BOOLEAN
    BY <1>12, Zenon DEF InspectStep, TypeOK
  <2> QED
    BY <1>12, <2>1, <2>2, <2>3, Zenon DEF InspectStep, TypeOK
<1>13. CASE InspectStepFails
  <2>1. rec' \in Rows(Len(log))
    BY <1>13, <1>d DEF InspectStepFails
  <2>2. sha' \in 0..Len(log) /\ pc' = "finish"
    BY <1>13, <1>n, <1>h DEF InspectStepFails
  <2> QED
    BY <1>13, <1>f, <2>1, <2>2 DEF InspectStepFails, TypeOK, ghostVars
<1>14. CASE DeployStep
  <2>1. live' \in [Services -> Values \cup {NoValue}]
    BY <1>14, ApplyTyped DEF DeployStep
  <2>2. pc' \in {"record", "deploy"} /\ wave' \in 1..Len(Waves)
    BY <1>14 DEF DeployStep, TypeOK
  <2>3. drifted' \in BOOLEAN
    BY <1>14, Zenon DEF DeployStep
  <2> QED
    BY <1>14, <2>1, <2>2, <2>3 DEF DeployStep, TypeOK, appVars, ghostVars
<1>15. CASE DeployStepFails
  <2>1. live' \in [Services -> Values \cup {NoValue}] /\ faults' \in 0..MaxFaults
    <3>1. \/ live' = live /\ faults' = faults
          \/ worktree # 0 /\ Failure("deploy") /\ \E S \in SUBSET Batch : Apply(S)
      BY <1>15 DEF DeployStepFails
    <3> QED
      BY <3>1, <1>f, ApplyTyped, Zenon DEF TypeOK
  <2>2. sha' \in 0..Len(log) /\ pc' = "finish" /\ rec' \in Rows(Len(log))
    BY <1>15, <1>n, <1>h, <1>d DEF DeployStepFails
  <2> QED
    BY <1>15, <2>1, <2>2 DEF DeployStepFails, TypeOK, ghostVars
<1>16. CASE RecordStep
  <2>1. rec' \in Rows(Len(log))
    BY <1>16, <1>n, RowUpdates DEF RecordStep, updateStatus
  <2>2. sha' \in 0..Len(log) /\ pc' = "finish"
    BY <1>16, <1>n, <1>h DEF RecordStep
  <2>3. vouched' \in BOOLEAN
    BY <1>16, Zenon DEF RecordStep
  <2> QED
    BY <1>16, <2>1, <2>2, <2>3 DEF RecordStep, TypeOK
<1>26. CASE FinishStep
  <2>1. history' \subseteq (1..Len(log)) \X Ops
    BY <1>26, <1>n, HistoryGrows DEF FinishStep
  <2>2. OperationEnds
    BY <1>26 DEF FinishStep
  <2> QED
    BY <1>26, <1>e, <2>1, <2>2 DEF FinishStep, TypeOK
<1>17. CASE DryRunSync
  <2>1. rec' \in Rows(Len(log)) /\ faults' \in 0..MaxFaults /\ worktree' \in 0..Len(log)
        /\ dry' \in 0..Len(log)
    BY <1>17, <1>n, <1>d, <1>f, Zenon DEF DryRunSync, Sync, SyncFails, TypeOK
  <2>2. moved' \in BOOLEAN
    BY <1>17, <1>m DEF DryRunSync
  <2> QED
    BY <1>17, <2>1, <2>2 DEF DryRunSync, TypeOK, opVars
<1>18. CASE DryRun
  <2>1. rec' \in Rows(Len(log)) /\ faults' \in 0..MaxFaults
    BY <1>18, <1>n, <1>f, RowUpdates, Zenon DEF DryRun, updateStatus, TypeOK
  <2> QED
    BY <1>18, <2>1 DEF DryRun, TypeOK, opVars, ghostVars
<1>19. ASSUME NEW c \in 1..HeadSHA, OtherApp(c) PROVE TypeOK'
  <2>1. moved' \in BOOLEAN
    BY <1>19, <1>m DEF OtherApp
  <2> QED
    BY <1>19, <2>1 DEF OtherApp, CheckoutSHA, HeadSHA, TypeOK, appVars, opVars
<1>20. CASE AdoptApplication
  <2>1. rec' \in Rows(Len(log))
    BY <1>20, <1>n, RowUpdates DEF AdoptApplication, updateStatus
  <2>2. rec.headSHA \in 0..Len(log)
    BY <1>n DEF Rows
  <2>3. history' \subseteq (1..Len(log)) \X Ops
    BY <1>20, <2>2, HistoryGrows DEF AdoptApplication, Ops
  <2>4. vouched' \in BOOLEAN
    BY <1>20, Zenon DEF AdoptApplication
  <2> QED
    BY <1>20, <2>1, <2>3, <2>4 DEF AdoptApplication, TypeOK, opVars
<1>21. CASE tearDownApp
  <2>1. live' \in [Services -> Values \cup {NoValue}]
    BY <1>21 DEF tearDownApp, TypeOK
  <2>2. faults' \in 0..MaxFaults
    BY <1>21, ReconcileAssumption, SMTT(60) DEF tearDownApp, Failure, TypeOK
  <2>3. drifted' \in BOOLEAN /\ removing' \in BOOLEAN
    BY <1>21, Zenon DEF tearDownApp, TypeOK
  <2> QED
    BY <1>21, <2>1, <2>2, <2>3 DEF tearDownApp, TypeOK, appVars, opVars, ghostVars
<1>22. CASE DeleteApplication
  <2>1. rec' \in Rows(Len(log))
    BY <1>22, <1>n, RowStarts DEF DeleteApplication
  <2> QED
    BY <1>22, <2>1, Zenon DEF DeleteApplication, TypeOK, opVars, ghostVars
<1>23. CASE CreateApplication
  <2>1. rec' \in Rows(Len(log))
    BY <1>23, <1>n, RowStarts DEF CreateApplication
  <2> QED
    BY <1>23, <2>1 DEF CreateApplication, TypeOK, opVars, ghostVars
<1>24. CASE UNCHANGED vars
  BY <1>24 DEF vars, opVars, ghostVars, TypeOK
<1> QED
  BY <1>1, <1>2, <1>3, <1>4, <1>5, <1>6, <1>7, <1>8, <1>9, <1>10, <1>11, <1>12,
     <1>13, <1>14, <1>15, <1>16, <1>17, <1>18, <1>19, <1>20, <1>21, <1>22, <1>23,
     <1>24, <1>25, <1>26 DEF Next, OpStep

\* The variables stay within their types, whatever fails and whoever interferes.
THEOREM TypeCorrect == Spec => []TypeOK
<1>1. Init => TypeOK
  <2> SUFFICES ASSUME Init PROVE TypeOK
    OBVIOUS
  <2>1. log \in Seq(Values) /\ Len(log) = 1
    BY DEF Init
  <2>2. rec \in Rows(Len(log))
    BY <2>1, RowStarts DEF Init
  <2>3. drifted \in BOOLEAN /\ moved \in BOOLEAN /\ vouched \in BOOLEAN /\ removing \in BOOLEAN
    BY Zenon DEF Init
  <2> QED
    BY <2>1, <2>2, <2>3, ReconcileAssumption DEF Init, TypeOK
<1> QED
  BY <1>1, TypeStep, PTL DEF Spec

-----------------------------------------------------------------------------
(* What an operation deploys *)

\* From the end of Sync or CheckoutSHA on, the clone holds the operation's
\* commit until somebody moves it, and the waves deployed so far run it.
RevInv ==
    /\ (kind = "rollback" /\ pc # "idle") => sha # 0
    /\ pc = "checkout" => kind = "rollback"
    /\ pc = "report" => kind # "rollback"
    /\ pc \in {"report", "parse", "inspect", "deploy", "record"} =>
         sha # 0 /\ (~moved => worktree = sha)
    /\ pc = "inspect" => (~moved => spec = log[sha]) /\ kind # "rollback" /\ wave = 1
    /\ (pc = "deploy" /\ OneShot) => wave = 1
    /\ (pc = "deploy" /\ ~drifted /\ ~moved) =>
         \A i \in 1..Len(Waves) : i < wave => \A s \in Waves[i] : live[s] = log[sha]
    /\ DeploysTheRevision

\* A service belongs to one of the waves.
LEMMA ServiceWave ==
    /\ \A s \in Services : \E i \in 1..Len(Waves) : s \in Waves[i]
    /\ \A i \in 1..Len(Waves) : Waves[i] \subseteq Services
BY DEF Services

\* A step that leaves the operation and what it looks at alone keeps RevInv.
LEMMA RevFrame ==
    ASSUME RevInv, UNCHANGED <<log, worktree, live, drifted, moved, pc, opVars>>
    PROVE  RevInv'
BY DEF RevInv, opVars, OneShot, DeploysTheRevision, Runs

\* So does a step that moves the clone, since it says so.
LEMMA RevDisturb ==
    ASSUME RevInv, Disturb, UNCHANGED <<log, live, drifted, pc, opVars>>
    PROVE  RevInv'
<1>1. CASE moved'
  BY <1>1 DEF RevInv, opVars, OneShot, DeploysTheRevision
<1>2. CASE ~moved'
  <2>1. ~moved /\ (pc = "idle" \/ worktree' = worktree)
    BY <1>2, Zenon DEF Disturb
  <2> QED
    BY <1>2, <2>1 DEF RevInv, opVars, OneShot, DeploysTheRevision, Runs
<1> QED
  BY <1>1, <1>2

\* A step after which the operation is about to end keeps RevInv.
LEMMA RevDone ==
    ASSUME pc' \in {"idle", "finish"}, kind' = "rollback" => pc' = "idle" \/ sha' # 0
    PROVE  RevInv'
BY DEF RevInv, DeploysTheRevision

\* Every step preserves RevInv, whatever fails and whoever interferes.
LEMMA RevStep == TypeOK /\ RevInv /\ [Next]_vars => RevInv'
<1> SUFFICES ASSUME TypeOK, RevInv, [Next]_vars PROVE RevInv'
  OBVIOUS
<1> USE ReconcileAssumption
<1>t. /\ Len(log) \in Nat \ {0} /\ log \in Seq(Values)
      /\ sha \in 0..Len(log) /\ wave \in 1..Len(Waves)
      /\ kind \in {"poll", "manual", "rollback"}
      /\ live \in [Services -> Values \cup {NoValue}]
  BY DEF TypeOK
<1>1. ASSUME NEW v \in Values, Push(v) PROVE RevInv'
  <2>1. sha # 0 => log'[sha] = log[sha]
    BY <1>t, <1>1 DEF Push
  <2> QED
    BY <1>1, <2>1, Zenon DEF Push, RevInv, opVars, ghostVars, OneShot, DeploysTheRevision, Runs
<1>2. ASSUME NEW s \in Services, Drift(s) PROVE RevInv'
  BY <1>2 DEF Drift, RevInv, opVars, ghostVars, OneShot, DeploysTheRevision
<1>3. CASE Crash \/ FinishStep
  BY <1>3, RevDone DEF Crash, FinishStep, OperationEnds
<1>4. ASSUME NEW k \in {"poll", "manual"}, Start(k) PROVE RevInv'
  BY <1>4 DEF Start, RevInv, DeploysTheRevision
<1>5. ASSUME NEW c \in 1..HeadSHA, StartRollback(c) PROVE RevInv'
  <2>1. pc' \in {"finish", "sync"} /\ sha' # 0
    BY <1>5 DEF StartRollback
  <2> QED
    BY <2>1 DEF RevInv, DeploysTheRevision
<1>6. CASE SyncStep
  <2>1. \/ kind = "rollback" /\ pc' = "checkout" /\ sha' = sha
        \/ kind # "rollback" /\ pc' = "report" /\ sha' = Len(log) /\ worktree' = sha'
    BY <1>6 DEF SyncStep, Sync, HeadSHA
  <2>2. kind' = kind /\ pc # "idle"
    BY <1>6 DEF SyncStep
  <2> QED
    BY <1>t, <2>1, <2>2 DEF RevInv, DeploysTheRevision
<1>7. CASE SyncStepFails \/ CheckoutStepFails \/ DeployStepFails \/ RecordStep
  BY <1>7, RevDone DEF SyncStepFails, CheckoutStepFails, DeployStepFails, RecordStep,
                       finishResult, RevInv
<1>8. CASE ParseStepFails \/ InspectStepFails
  BY <1>8, RevDone DEF ParseStepFails, InspectStepFails, finishResult, RevInv
<1>9. CASE ReportStep
  <2>1. CASE finishResult(sha)
    BY <1>9, <2>1, RevDone DEF ReportStep, finishResult, RevInv
  <2>2. CASE pc' = "parse" /\ sha' = sha
    BY <1>9, <2>2 DEF ReportStep, RevInv, ghostVars, DeploysTheRevision
  <2> QED
    BY <1>9, <2>1, <2>2 DEF ReportStep
<1>10. CASE CheckoutStep
  <2>2. /\ pc' = "parse" /\ worktree' = sha /\ sha' = sha /\ kind' = kind
    BY <1>10 DEF CheckoutStep, CheckoutSHA, opVars
  <2>3. sha # 0
    BY <1>10 DEF CheckoutStep, RevInv
  <2> QED
    BY <2>2, <2>3 DEF RevInv, DeploysTheRevision
<1>11. CASE ParseStep
  <2>1. /\ worktree' = worktree /\ sha' = sha /\ sha # 0 /\ spec' = log[worktree] /\ log' = log
        /\ wave' = 1 /\ kind' = kind /\ moved' = moved /\ (~moved => worktree = sha)
        /\ \/ kind = "rollback" /\ pc' = "deploy"
           \/ kind # "rollback" /\ pc' = "inspect"
    BY <1>11 DEF ParseStep, RevInv
  <2> QED
    BY <2>1 DEF RevInv, DeploysTheRevision
<1>12. CASE InspectStep
  <2>1. CASE finishResult(sha)
    BY <1>12, <2>1, RevDone DEF InspectStep, finishResult, RevInv
  <2>2. CASE pc' = "deploy" /\ sha' = sha
    <3>1. wave' = 1
      BY <1>12 DEF InspectStep, RevInv
    <3> QED
      BY <1>12, <2>2, <3>1 DEF InspectStep, RevInv, DeploysTheRevision
  <2> QED
    BY <1>12, <2>1, <2>2 DEF InspectStep
<1>13. CASE DeployStep
  <2>1. /\ pc = "deploy" /\ worktree' = worktree /\ sha' = sha /\ log' = log /\ sha # 0
        /\ kind' = kind /\ moved' = moved /\ (~moved => worktree = sha)
    BY <1>13 DEF DeployStep, RevInv, ghostVars
  <2>2. ~moved => live' = [s \in Services |-> IF s \in Batch THEN log[sha] ELSE live[s]]
    BY <1>13, <2>1 DEF DeployStep, Apply
  <2>3. ASSUME ~drifted \/ OneShot, ~moved, NEW i \in 1..Len(Waves),
               i < wave \/ OneShot \/ i = wave, NEW s \in Waves[i]
        PROVE  live'[s] = log[sha]
    <3>1. s \in Services
      BY ServiceWave
    <3>2. s \in Batch \/ live[s] = log[sha]
      BY <2>1, <2>3, <3>1 DEF Batch, RevInv
    <3> QED
      BY <2>2, <2>3, <3>1, <3>2
  <2>4. CASE OneShot \/ wave = Len(Waves)
    <3>1. pc' = "record" /\ (~drifted' => ~drifted \/ OneShot)
      BY <1>13, <2>4, Zenon DEF DeployStep
    <3>2. ASSUME ~drifted', ~moved PROVE \A s \in Services : live'[s] = log[sha]
      <4> SUFFICES ASSUME NEW s \in Services PROVE live'[s] = log[sha]
        OBVIOUS
      <4>1. PICK i \in 1..Len(Waves) : s \in Waves[i]
        BY ServiceWave
      <4>2. i < wave \/ OneShot \/ i = wave
        BY <1>t, <2>4
      <4> QED
        BY <2>3, <3>1, <3>2, <4>1, <4>2
    <3> QED
      BY <2>1, <3>1, <3>2 DEF RevInv, DeploysTheRevision, Runs
  <2>5. CASE ~OneShot /\ wave # Len(Waves)
    <3>1. pc' = "deploy" /\ wave' = wave + 1 /\ ~OneShot' /\ (~drifted' => ~drifted)
      BY <1>13, <2>1, <2>5, Zenon DEF DeployStep, OneShot
    <3>2. ASSUME ~drifted', ~moved
          PROVE  \A i \in 1..Len(Waves) : i < wave' => \A s \in Waves[i] : live'[s] = log[sha]
      BY <1>t, <2>3, <3>1, <3>2
    <3> QED
      BY <2>1, <3>1, <3>2 DEF RevInv, DeploysTheRevision
  <2> QED
    BY <2>4, <2>5
<1>14. CASE DryRunSync \/ \E c \in 1..HeadSHA : OtherApp(c)
  BY <1>14, RevDisturb DEF DryRunSync, OtherApp
<1>15. CASE DryRun \/ AdoptApplication \/ DeleteApplication \/ CreateApplication \/ UNCHANGED vars
  BY <1>15, RevFrame DEF DryRun, AdoptApplication, DeleteApplication, CreateApplication,
                         ghostVars, vars
<1>16. CASE tearDownApp
  <2>1. CASE drifted' = TRUE
    BY <1>16, <2>1 DEF tearDownApp, RevInv, opVars, ghostVars, OneShot, DeploysTheRevision
  <2>2. CASE UNCHANGED <<live, drifted>>
    BY <1>16, <2>2, RevFrame DEF tearDownApp, ghostVars
  <2> QED
    BY <1>16, <2>1, <2>2, Zenon DEF tearDownApp
<1> QED
  BY <1>1, <1>2, <1>3, <1>4, <1>5, <1>6, <1>7, <1>8, <1>9, <1>10, <1>11, <1>12, <1>13,
     <1>14, <1>15, <1>16 DEF Next, OpStep

\* The clone holds the operation's commit, or is known to have been moved, in every
\* reachable state.
LEMMA RevInvariant == Spec => []RevInv
<1>1. Init => RevInv
  BY DEF Init, RevInv, DeploysTheRevision
<1> QED
  BY <1>1, RevStep, TypeCorrect, PTL DEF Spec

\* Whatever fails and whoever interferes, an operation has deployed the commit it goes on
\* to record, unless the clone was moved between its Sync or CheckoutSHA and its last wave:
\* failures, rollbacks, removals and whatever was done to the clone before leave no trace.
THEOREM RecordedIsDeployed == Spec => []DeploysTheRevision
<1>1. RevInv => DeploysTheRevision
  BY DEF RevInv
<1> QED
  BY <1>1, RevInvariant, PTL

-----------------------------------------------------------------------------
(* What a row that says Synced means *)

\* Only a row that exists says Synced.  While an operation deploys, either its row does not
\* or nobody vouches for it; otherwise the services run the commit the row names.
SyncedInv ==
    /\ rec.status = "Synced" => rec.exists
    /\ (rec.status = "Synced" /\ vouched /\ pc \in {"deploy", "record"}) => FALSE
    /\ (rec.status = "Synced" /\ vouched /\ pc \notin {"deploy", "record"} /\ ~drifted) =>
         rec.lastSynced # 0 /\ Runs(log[rec.lastSynced])

\* Every step preserves SyncedInv.
LEMMA SyncedStep == TypeOK /\ RevInv /\ SyncedInv /\ [Next]_vars => SyncedInv'
<1> SUFFICES ASSUME TypeOK, RevInv, SyncedInv, [Next]_vars PROVE SyncedInv'
  OBVIOUS
<1>r. rec \in Rows(Len(log))
  BY DEF TypeOK
<1>t. /\ Len(log) \in Nat \ {0} /\ log \in Seq(Values)
      /\ rec.lastSynced \in 0..Len(log)
  <2>1. Len(log) \in Nat \ {0} /\ log \in Seq(Values)
    BY ReconcileAssumption DEF TypeOK
  <2>2. rec.lastSynced \in 0..Len(log)
    BY <1>r DEF Rows
  <2> QED
    BY <2>1, <2>2
\* Steps that leave what the row says of the services, and what they run, alone.
<1>f. ASSUME rec'.status = rec.status, rec'.exists = rec.exists,
             rec'.lastSynced = rec.lastSynced, live' = live, log' = log,
             vouched' => vouched, ~drifted' => ~drifted,
             pc' \in {"deploy", "record"} <=> pc \in {"deploy", "record"}
      PROVE  SyncedInv'
  BY <1>f, Zenon DEF SyncedInv, Runs
\* Steps after which nobody vouches for the row.
<1>g. ASSUME rec'.status = "Synced" => rec'.exists, rec'.status = "Synced" => ~vouched'
      PROVE  SyncedInv'
  BY <1>g, Zenon DEF SyncedInv
\* Writes that change neither status, nor commit.
<1>k. /\ LET n == [rec EXCEPT !.headSHA = sha]
         IN  n.status = rec.status /\ n.exists = rec.exists /\ n.lastSynced = rec.lastSynced
      /\ LET n == [rec EXCEPT !.headSHA = dry]
         IN  n.status = rec.status /\ n.exists = rec.exists /\ n.lastSynced = rec.lastSynced
      /\ LET n == [rec EXCEPT !.health = "Degraded", !.lastError = TRUE]
         IN  n.status = rec.status /\ n.exists = rec.exists /\ n.lastSynced = rec.lastSynced
      /\ LET n == [rec EXCEPT !.health = "Progressing"]
         IN  n.status = rec.status /\ n.exists = rec.exists /\ n.lastSynced = rec.lastSynced
      /\ LET n == [rec EXCEPT !.headSHA = dry, !.health = "Degraded", !.lastError = TRUE]
         IN  n.status = rec.status /\ n.exists = rec.exists /\ n.lastSynced = rec.lastSynced
  BY <1>r DEF Rows
<1>d. ASSUME Degrade
      PROVE  rec'.status = rec.status /\ rec'.exists = rec.exists
             /\ rec'.lastSynced = rec.lastSynced
  BY <1>d, <1>k DEF Degrade, updateStatus
<1>1. ASSUME NEW v \in Values, Push(v) PROVE SyncedInv'
  <2>1. rec.lastSynced # 0 => log'[rec.lastSynced] = log[rec.lastSynced]
    BY <1>t, <1>1 DEF Push
  <2> QED
    BY <1>1, <2>1, Zenon DEF Push, SyncedInv, appVars, ghostVars, Runs
<1>2. ASSUME NEW s \in Services, Drift(s) PROVE SyncedInv'
  BY <1>2, Zenon DEF Drift, SyncedInv, appVars, ghostVars
<1>3. CASE Crash
  <2>1. CASE pc \in {"deploy", "record"}
    BY <1>3, <1>g, <2>1 DEF Crash, SyncedInv, appVars
  <2>2. CASE pc \notin {"deploy", "record"}
    BY <1>3, <1>f, <2>2 DEF Crash, OperationEnds, appVars
  <2> QED
    BY <2>1, <2>2
<1>4. CASE (\E k \in {"poll", "manual"} : Start(k)) \/ \E c \in 1..HeadSHA : StartRollback(c)
  <2>1. pc = "idle" /\ pc' \in {"sync", "finish"}
        /\ UNCHANGED <<rec, live, log, drifted, vouched>>
    BY <1>4 DEF Start, StartRollback, appVars, ghostVars
  <2> QED
    BY <1>f, <2>1
<1>5. CASE SyncStep \/ SyncStepFails \/ CheckoutStep \/ CheckoutStepFails \/ FinishStep
  <2>1. pc \in {"sync", "checkout", "finish"} /\ pc' \notin {"deploy", "record"}
        /\ UNCHANGED <<live, log, drifted, vouched>>
    BY <1>5 DEF SyncStep, SyncStepFails, CheckoutStep, CheckoutStepFails, FinishStep, OperationEnds,
                finishResult, ghostVars
  <2>2. rec' = rec \/ Degrade
    BY <1>5 DEF SyncStep, SyncStepFails, CheckoutStep, CheckoutStepFails, FinishStep, appVars
  <2> QED
    BY <1>f, <1>d, <2>1, <2>2
<1>6. CASE ReportStep
  <2>1. pc = "report" /\ pc' \in {"parse", "finish"} /\ UNCHANGED <<live, log, drifted, vouched>>
    BY <1>6 DEF ReportStep, finishResult, ghostVars
  <2>2. rec'.status = rec.status /\ rec'.exists = rec.exists /\ rec'.lastSynced = rec.lastSynced
    BY <1>6, <1>k DEF ReportStep, updateStatus
  <2> QED
    BY <1>f, <2>1, <2>2
<1>7. CASE ParseStepFails \/ InspectStepFails
  <2>1. pc \in {"parse", "inspect"} /\ pc' = "finish" /\ UNCHANGED <<live, log, drifted, vouched>>
    BY <1>7 DEF ParseStepFails, InspectStepFails, finishResult, ghostVars
  <2>2. rec' = rec \/ Degrade
    BY <1>7 DEF ParseStepFails, InspectStepFails
  <2> QED
    BY <1>f, <1>d, <2>1, <2>2
<1>8. CASE ParseStep
  <2>1. rec'.status = rec.status /\ rec'.exists = rec.exists /\ rec'.lastSynced = rec.lastSynced
    BY <1>8, <1>k, Zenon DEF ParseStep, updateStatus
  <2>2. CASE kind = "rollback"
    <3>1. ~vouched'
      BY <1>8, <2>2, Zenon DEF ParseStep
    <3> QED
      BY <1>g, <2>1, <3>1 DEF SyncedInv
  <2>3. CASE kind # "rollback"
    <3>1. pc = "parse" /\ pc' = "inspect" /\ UNCHANGED <<live, log, drifted, vouched>>
      BY <1>8, <2>3 DEF ParseStep
    <3> QED
      BY <1>f, <2>1, <3>1
  <2> QED
    BY <2>2, <2>3
<1>9. CASE InspectStep
  <2>1. CASE ~rec.exists
    <3>1. rec' = rec
      BY <1>9, <2>1, Zenon DEF InspectStep, updateStatus
    <3> QED
      BY <1>g, <2>1, <3>1 DEF SyncedInv
  <2>2. CASE rec.exists /\ \A s \in Services : live[s] = spec
    <3>1. /\ rec' = [rec EXCEPT !.status = "Synced", !.lastSynced = sha, !.lastError = FALSE]
          /\ pc' = "finish" /\ live' = live /\ log' = log
      BY <1>9, <2>2 DEF InspectStep, updateStatus, finishResult
    <3>2. rec'.lastSynced = sha /\ rec'.exists = rec.exists
      BY <1>r, <3>1 DEF Rows
    <3>3. vouched' => ~moved
      BY <1>9, <2>2, Zenon DEF InspectStep
    <3>4. sha # 0 /\ (~moved => spec = log[sha])
      BY <1>9 DEF InspectStep, RevInv
    <3> QED
      BY <2>2, <3>1, <3>2, <3>3, <3>4, Zenon DEF SyncedInv, Runs
  <2>3. CASE rec.exists /\ \E s \in Services : live[s] # spec
    <3>1. \/ rec' = [rec EXCEPT !.status = "ManuallyManaged", !.lastError = FALSE]
          \/ rec' = [rec EXCEPT !.status = "OutOfSync", !.health = "Progressing"]
      BY <1>9, <2>3 DEF InspectStep, updateStatus
    <3>2. rec'.status \in {"ManuallyManaged", "OutOfSync"}
      BY <1>r, <3>1, Zenon DEF Rows
    <3> QED
      BY <1>g, <3>2
  <2> QED
    BY <2>1, <2>2, <2>3
<1>10. CASE DeployStep
  BY <1>10, <1>g, Zenon DEF DeployStep, SyncedInv, appVars, ghostVars
<1>11. CASE DeployStepFails
  <2>1. pc = "deploy" /\ vouched' = vouched
    BY <1>11 DEF DeployStepFails, ghostVars
  <2>2. rec'.status = rec.status /\ rec'.exists = rec.exists
    BY <1>11, <1>d DEF DeployStepFails
  <2> QED
    BY <1>g, <2>1, <2>2, Zenon DEF SyncedInv
<1>12. CASE RecordStep
  <2>1. CASE ~rec.exists
    <3>1. rec' = rec
      BY <1>12, <2>1, Zenon DEF RecordStep, updateStatus
    <3> QED
      BY <1>g, <2>1, <3>1 DEF SyncedInv
  <2>2. CASE rec.exists
    <3>1. rec' = [rec EXCEPT !.status = "Synced", !.health = "Progressing", !.lastSynced = sha,
                             !.lastError = FALSE]
      BY <1>12, <2>2 DEF RecordStep, updateStatus
    <3>2. rec'.lastSynced = sha /\ rec'.exists = rec.exists
      BY <1>r, <3>1 DEF Rows
    <3>3. pc = "record" /\ pc' = "finish" /\ UNCHANGED <<live, log, drifted>> /\ sha # 0
      BY <1>12 DEF RecordStep, finishResult, RevInv
    <3>4. vouched' => ~moved
      BY <1>12, Zenon DEF RecordStep
    <3>5. (~drifted /\ ~moved) => Runs(log[sha])
      BY <3>3 DEF RevInv, DeploysTheRevision
    <3> QED
      BY <2>2, <3>2, <3>3, <3>4, <3>5, Zenon DEF SyncedInv, Runs
  <2> QED
    BY <2>1, <2>2
<1>13. CASE DryRunSync \/ DryRun \/ \E c \in 1..HeadSHA : OtherApp(c)
  <2>1. UNCHANGED <<live, log, drifted, vouched, pc>>
    BY <1>13 DEF DryRunSync, DryRun, OtherApp, ghostVars
  <2>2. rec'.status = rec.status /\ rec'.exists = rec.exists /\ rec'.lastSynced = rec.lastSynced
    <3>1. \/ rec' = rec
          \/ Degrade
          \/ rec' = [rec EXCEPT !.headSHA = dry]
          \/ rec' = [rec EXCEPT !.headSHA = dry, !.health = "Degraded", !.lastError = TRUE]
      BY <1>13, Zenon DEF DryRunSync, DryRun, OtherApp, updateStatus, appVars
    <3> QED
      BY <1>d, <1>k, <3>1, Zenon
  <2> QED
    BY <1>f, <2>1, <2>2
<1>14. CASE AdoptApplication
  <2>1. rec' = [rec EXCEPT !.status = "Synced", !.lastError = FALSE] /\ rec.exists
    BY <1>14 DEF AdoptApplication, updateStatus
  <2>2. rec'.exists = rec.exists
    BY <1>r, <2>1, Zenon DEF Rows
  <2>3. ~vouched'
    BY <1>14, Zenon DEF AdoptApplication
  <2> QED
    BY <1>g, <2>1, <2>2, <2>3
<1>15. CASE tearDownApp
  <2>1. UNCHANGED <<rec, vouched, log, pc>>
    BY <1>15 DEF tearDownApp, appVars, ghostVars
  <2>2. CASE drifted' = TRUE
    BY <2>1, <2>2, Zenon DEF SyncedInv
  <2>3. CASE UNCHANGED <<live, drifted>>
    BY <1>f, <2>1, <2>3
  <2> QED
    BY <1>15, <2>2, <2>3, Zenon DEF tearDownApp
<1>16. CASE DeleteApplication \/ CreateApplication
  <2>1. rec' \in {NoRow, NewRow}
    BY <1>16, Zenon DEF DeleteApplication, CreateApplication
  <2>2. rec'.status = "Unknown"
    BY <2>1 DEF NoRow, NewRow
  <2> QED
    BY <1>g, <2>2
<1>17. CASE UNCHANGED vars
  <2>1. UNCHANGED <<rec, vouched, log, pc, live, drifted>>
    BY <1>17 DEF vars, ghostVars
  <2> QED
    BY <1>f, <2>1
<1> QED
  BY <1>1, <1>2, <1>3, <1>4, <1>5, <1>6, <1>7, <1>8, <1>9, <1>10, <1>11, <1>12,
     <1>13, <1>14, <1>15, <1>16, <1>17, Zenon DEF Next, OpStep

\* "Synced // Desired == Live": whatever fails and whoever interferes, a row that says Synced
\* by the verdict of an attempt whose clone nobody moved names the commit that runs.
THEOREM SyncedMeansLive == Spec => []SyncedIsLive
<1>1. Init => SyncedInv
  BY DEF Init, SyncedInv, NewRow
<1>2. SyncedInv => SyncedIsLive
  BY DEF SyncedInv, SyncedIsLive
<1> QED
  BY <1>1, <1>2, SyncedStep, TypeCorrect, RevInvariant, PTL DEF Spec

-----------------------------------------------------------------------------
(* The history of a removed application *)

\* A step that deletes the row deletes the history, and without a row none is written.
LEMMA OrphanStep == TypeOK /\ NoOrphanRecords /\ [Next]_vars => NoOrphanRecords'
<1> SUFFICES ASSUME TypeOK, NoOrphanRecords, [Next]_vars PROVE NoOrphanRecords'
  OBVIOUS
<1>1. \A c, op : RecordSync(c, op) /\ ~rec.exists => history' = {}
  BY DEF RecordSync, NoOrphanRecords
<1>2. ASSUME NEW n, updateStatus(n), n.exists = rec.exists PROVE rec'.exists = rec.exists
  BY <1>2 DEF updateStatus
<1>3. /\ [rec EXCEPT !.headSHA = sha].exists = rec.exists
      /\ [rec EXCEPT !.headSHA = dry].exists = rec.exists
      /\ [rec EXCEPT !.headSHA = dry, !.health = "Degraded", !.lastError = TRUE].exists = rec.exists
      /\ [rec EXCEPT !.health = "Degraded", !.lastError = TRUE].exists = rec.exists
      /\ [rec EXCEPT !.health = "Progressing"].exists = rec.exists
      /\ [rec EXCEPT !.status = "Synced", !.lastSynced = sha, !.lastError = FALSE].exists = rec.exists
      /\ [rec EXCEPT !.status = "ManuallyManaged", !.lastError = FALSE].exists = rec.exists
      /\ [rec EXCEPT !.status = "OutOfSync", !.health = "Progressing"].exists = rec.exists
      /\ [rec EXCEPT !.status = "Synced", !.health = "Progressing", !.lastSynced = sha,
                     !.lastError = FALSE].exists = rec.exists
      /\ [rec EXCEPT !.status = "Synced", !.lastError = FALSE].exists = rec.exists
  BY DEF TypeOK, Rows
<1>4. ASSUME rec'.exists = rec.exists, history' = history \/ \E c, op : RecordSync(c, op)
      PROVE  NoOrphanRecords'
  BY <1>1, <1>4 DEF NoOrphanRecords
<1>5. CASE OpStep
  <2>1. rec'.exists = rec.exists
    BY <1>2, <1>3, <1>5, Zenon DEF OpStep, SyncStep, SyncStepFails, ReportStep,
      CheckoutStep, CheckoutStepFails, ParseStep, ParseStepFails, InspectStep, InspectStepFails,
      DeployStep, DeployStepFails, RecordStep, FinishStep, Degrade, appVars
  <2>2. history' = history \/ \E c, op : RecordSync(c, op)
    BY <1>5 DEF OpStep, SyncStep, SyncStepFails, ReportStep, CheckoutStep, CheckoutStepFails,
      ParseStep, ParseStepFails, InspectStep, InspectStepFails, DeployStep, DeployStepFails,
      RecordStep, FinishStep, appVars
  <2> QED
    BY <1>4, <2>1, <2>2
<1>7. CASE DryRunSync \/ DryRun
  <2>1. rec'.exists = rec.exists /\ history' = history
    BY <1>2, <1>3, <1>7, Zenon DEF DryRunSync, DryRun, Degrade
  <2> QED
    BY <1>4, <2>1
<1>8. CASE AdoptApplication
  <2>1. rec'.exists = rec.exists /\ \E c, op : RecordSync(c, op)
    BY <1>2, <1>3, <1>8, Zenon DEF AdoptApplication
  <2> QED
    BY <1>4, <2>1
<1>9. CASE DeleteApplication
  BY <1>9 DEF DeleteApplication, NoOrphanRecords
<1>10. CASE CreateApplication
  BY <1>10 DEF CreateApplication, NoOrphanRecords, NewRow
<1>11. ASSUME UNCHANGED appVars PROVE NoOrphanRecords'
  BY <1>11 DEF appVars, NoOrphanRecords
<1>12. CASE \/ (\E v \in Values : Push(v)) \/ (\E s \in Services : Drift(s)) \/ Crash
            \/ (\E k \in {"poll", "manual"} : Start(k)) \/ (\E c \in 1..HeadSHA : StartRollback(c))
            \/ (\E c \in 1..HeadSHA : OtherApp(c)) \/ tearDownApp \/ UNCHANGED vars
  BY <1>11, <1>12 DEF Push, Drift, Crash, Start, StartRollback, OtherApp, tearDownApp, vars,
                      appVars
<1> QED
  BY <1>5, <1>7, <1>8, <1>9, <1>10, <1>12 DEF Next

\* No sync record outlives its application, whatever is running when it is removed: the
\* delete takes the history along and RecordSync needs the row (queries.go:255, 268).
THEOREM RecordsGoWithTheRow == Spec => []NoOrphanRecords
<1>1. Init => NoOrphanRecords
  BY DEF Init, NoOrphanRecords
<1> QED
  BY <1>1, TypeCorrect, OrphanStep, PTL DEF Spec

-----------------------------------------------------------------------------
(* What runs the head of its branch keeps running it. *)

\* The clone holds the head of the branch, and the services run it.
Settled == worktree = HeadSHA /\ Runs(log[HeadSHA])

\* The half of Converges that is about staying there: once the services run the head and the
\* clone holds it, only a new commit or a failure changes that.  Polls, manual syncs, dry runs
\* and adoptions, whatever point they have reached with whatever they have read, do not.
SettledStays == [][Settled /\ log' = log /\ faults' = faults => Settled']_vars

\* Without rollbacks no operation checks out an older commit.
Forward == kind # "rollback" /\ pc # "checkout"

\* Deploying from a clone that holds the head leaves services that run the head as they are.
LEMMA ApplyHead ==
    ASSUME TypeOK, Settled, NEW S, Apply(S), UNCHANGED <<log, worktree>>
    PROVE  Settled'
<1>1. \A s \in Services : live'[s] = log[HeadSHA]
  BY Zenon DEF Apply, Settled, Runs
<1> QED
  BY <1>1, Zenon DEF Settled, Runs, HeadSHA

\* Every step that is not a push or a failure preserves Settled.
LEMMA SettledStep ==
    ASSUME Others \subseteq {"dryrun", "adopt"}, TypeOK, Forward, Settled, [Next]_vars,
           log' = log, faults' = faults
    PROVE  Settled'
<1>h. HeadSHA' = HeadSHA /\ worktree # 0 /\ faults \in Nat /\ Len(log) \in Nat
  BY ReconcileAssumption DEF HeadSHA, TypeOK, Settled
<1>f. ASSUME NEW f, Failure(f) PROVE FALSE
  <2>1. faults' = faults + 1
    BY <1>f, Zenon DEF Failure
  <2> QED
    BY <1>h, <2>1
<1>1. ASSUME live' = live, worktree' \in {worktree, HeadSHA} PROVE Settled'
  BY <1>1, <1>h, Zenon DEF Settled, Runs
<1>2. ASSUME NEW v \in Values, Push(v) PROVE Settled'
  <2>1. Len(log') = Len(log) + 1
    BY <1>2 DEF Push, TypeOK
  <2> QED
    BY <1>h, <2>1
<1>3. CASE (\E s \in Services : Drift(s)) \/ Crash \/ InspectStepFails \/ SyncStepFails
  BY <1>3, <1>f, Zenon DEF Drift, Crash, InspectStepFails, SyncStepFails, SyncFails
<1>4. ASSUME NEW k \in {"poll", "manual"}, Start(k) PROVE Settled'
  BY <1>1, <1>4, Zenon DEF Start
<1>5. ASSUME NEW c \in 1..HeadSHA, StartRollback(c) PROVE Settled'
  BY <1>1, <1>5, Zenon DEF StartRollback
<1>6. CASE SyncStep
  BY <1>1, <1>6, Zenon DEF SyncStep, Sync
<1>7. CASE CheckoutStep \/ CheckoutStepFails
  BY <1>7, Zenon DEF CheckoutStep, CheckoutStepFails, Forward
<1>8. CASE ReportStep \/ ParseStep \/ ParseStepFails \/ InspectStep \/ RecordStep \/ FinishStep
  BY <1>1, <1>8, Zenon DEF ReportStep, ParseStep, ParseStepFails, InspectStep, RecordStep,
     FinishStep
<1>9. CASE DeployStep
  BY <1>9, ApplyHead, Zenon DEF DeployStep
<1>10. CASE DeployStepFails
  BY <1>h, <1>f, <1>10, Zenon DEF DeployStepFails
<1>11. CASE DryRunSync \/ DryRun
  BY <1>1, <1>f, <1>11, Zenon DEF DryRunSync, DryRun, Sync, SyncFails
<1>12. CASE AdoptApplication \/ DeleteApplication \/ CreateApplication
  BY <1>1, <1>12, Zenon DEF AdoptApplication, DeleteApplication, CreateApplication
<1>13. ~tearDownApp /\ \A c \in 1..HeadSHA : ~OtherApp(c)
  BY DEF tearDownApp, OtherApp
<1>14. CASE UNCHANGED vars
  <2>1. live' = live /\ worktree' = worktree
    BY <1>14 DEF vars
  <2> QED
    BY <1>1, <2>1, Zenon
<1> QED
  BY <1>2, <1>3, <1>4, <1>5, <1>6, <1>7, <1>8, <1>9, <1>10, <1>11, <1>12, <1>13, <1>14, Zenon
  DEF Next, OpStep

\* Without rollbacks no operation is one.
LEMMA ForwardStep ==
    ASSUME "rollback" \notin Requests, Forward, [Next]_vars
    PROVE  Forward'
<1>1. ASSUME kind' \in {kind, "poll"},
             pc' \in {pc, "idle", "sync", "report", "parse", "inspect", "deploy", "record", "finish"}
      PROVE  Forward'
  BY <1>1 DEF Forward
<1>2. ASSUME NEW k \in {"poll", "manual"}, Start(k) PROVE Forward'
  BY <1>2 DEF Start, Forward
<1>3. \A c \in 1..HeadSHA : ~StartRollback(c)
  BY Zenon DEF StartRollback
<1>4. CASE SyncStep \/ SyncStepFails \/ ReportStep \/ CheckoutStepFails \/ CheckoutStep
  BY <1>1, <1>4, Zenon DEF SyncStep, SyncStepFails, ReportStep, CheckoutStepFails, CheckoutStep,
     Forward, finishResult
<1>5. CASE ParseStep \/ ParseStepFails \/ InspectStep \/ InspectStepFails
  BY <1>1, <1>5, Zenon DEF ParseStep, ParseStepFails, InspectStep, InspectStepFails, Forward,
     finishResult
<1>6. CASE DeployStep \/ DeployStepFails \/ RecordStep \/ FinishStep \/ Crash
  BY <1>1, <1>6, Zenon DEF DeployStep, DeployStepFails, RecordStep, FinishStep, Crash, OperationEnds,
     finishResult
<1>7. CASE \/ (\E v \in Values : Push(v)) \/ (\E s \in Services : Drift(s))
           \/ (\E c \in 1..HeadSHA : OtherApp(c)) \/ DryRunSync \/ DryRun \/ AdoptApplication
           \/ tearDownApp \/ DeleteApplication \/ CreateApplication
  BY <1>1, <1>7, Zenon DEF Push, Drift, OtherApp, DryRunSync, DryRun, AdoptApplication,
     tearDownApp, DeleteApplication, CreateApplication, opVars
<1>8. CASE UNCHANGED vars
  <2>1. kind' = kind /\ pc' = pc
    BY <1>8 DEF vars, opVars
  <2> QED
    BY <1>1, <2>1, Zenon
<1> QED
  BY <1>2, <1>3, <1>4, <1>5, <1>6, <1>7, <1>8, Zenon DEF Next, OpStep

\* An application that runs the head of its branch goes on running it until the next commit or
\* failure, provided nobody rolls back, removes it, or moves the clone to another commit: a
\* sync under way, a wave half deployed and a late dry run all write the same head.
THEOREM HeadKeepsRunning ==
    ASSUME Others \subseteq {"dryrun", "adopt"}, "rollback" \notin Requests
    PROVE  Spec => SettledStays
<1>1. Init => Forward
  BY DEF Init, Forward
<1>2. Forward /\ [Next]_vars => Forward'
  BY ForwardStep
<1>3. TypeOK /\ Forward /\ [Next]_vars
        => [Settled /\ log' = log /\ faults' = faults => Settled']_vars
  BY SettledStep
<1> QED
  BY <1>1, <1>2, <1>3, TypeCorrect, PTL DEF Spec, SettledStays
=============================================================================
