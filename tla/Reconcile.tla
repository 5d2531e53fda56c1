------------------------------ MODULE Reconcile ------------------------------
(***************************************************************************)
(* One application's reconciliation (reconciler.go: reconcileApp,          *)
(* computeDiff, Rollback), with what it reads and writes: the upstream     *)
(* branch, the clone of the repository that every application with the     *)
(* same URL shares, the application's row in the store with its sync       *)
(* history, and the containers.                                            *)
(*                                                                         *)
(* Commit i of the branch sets every service to log[i].  Operations that   *)
(* hold the application's lock (poll, manual sync, rollback) run one at a  *)
(* time; what takes no lock (dry run, adoption, another application that   *)
(* uses the clone, removal of the manifest) may run between any two of     *)
(* their steps.  A circuit breaker that refuses the attempt only delays    *)
(* Start; blue-green Deploy has a module of its own.                       *)
(***************************************************************************)
EXTENDS Naturals, Sequences, FiniteSets

CONSTANTS
    Waves,      \* the services, as the sequence of sets groupByWave returns
    Values,     \* what a commit may ask of the services
    MaxCommits, \* bound on the commits of the branch
    Automated,  \* syncPolicy.automated
    SelfHeal,   \* syncPolicy.selfHeal
    Requests,   \* the locked operations that are asked for
    Others,     \* the lock-free activities beside them
    Faults,     \* what may fail
    MaxFaults   \* bound on the failures of a behaviour

ASSUME ReconcileAssumption ==
    /\ Len(Waves) \in Nat \ {0}
    /\ MaxCommits \in Nat \ {0}
    /\ {Automated, SelfHeal} \subseteq BOOLEAN
    /\ Requests \subseteq {"poll", "manual", "rollback"}
    /\ Others \subseteq {"dryrun", "adopt", "sharedclone", "remove"}
    /\ Faults \subseteq {"git", "parse", "inspect", "deploy", "drift", "crash"}
    /\ MaxFaults \in Nat

VARIABLES
    log,        \* the branch: what each commit asks for
    worktree,   \* the commit checked out in the clone; 0 when there is none
    live,       \* what each service runs
    drifted,    \* history: live changed by itself since it was last looked at
    rec,        \* the application's row
    history,    \* its sync_history: commit and operation of each record
    moved,      \* history: somebody else moved the clone since the operation set it
    vouched,    \* history: the row's Synced is the verdict of an undisturbed attempt
    pc,         \* where the locked operation is
    kind,       \* which operation it is
    last,       \* appRec.LastSyncedSHA as read at its start
    sha,        \* headSHA, or targetSHA of a rollback
    spec,       \* composeSpec
    wave,       \* index of the next wave to deploy
    dry,        \* head a dry run has synced to and not yet reported; 0 when none
    removing,   \* syncConfigManifests is between tearDownApp and DeleteApplication
    faults      \* failures so far

appVars == <<rec, history>>
ghostVars == <<moved, vouched>>
opVars == <<kind, last, sha, spec, wave>>
vars == <<log, worktree, live, drifted, rec, history, ghostVars, pc, opVars, dry, removing,
          faults>>

Services == UNION {Waves[i] : i \in 1..Len(Waves)}
NoValue == "none"
HeadSHA == Len(log)
Forced == kind # "poll"

Statuses == {"Unknown", "Synced", "OutOfSync", "ManuallyManaged"}
Healths == {"Unknown", "Progressing", "Degraded"}
Ops == {"poll", "manual", "rollback", "adopt"}

\* The columns of applications that reconciliation uses, n commits being known.
Rows(n) == [exists : BOOLEAN, lastSynced : 0..n, headSHA : 0..n,
            status : Statuses, health : Healths, lastError : BOOLEAN]
NewRow == [exists |-> TRUE, lastSynced |-> 0, headSHA |-> 0,
           status |-> "Unknown", health |-> "Unknown", lastError |-> FALSE]
NoRow == [NewRow EXCEPT !.exists = FALSE]

TypeOK ==
    /\ log \in Seq(Values) /\ Len(log) \in 1..MaxCommits
    /\ worktree \in 0..Len(log)
    /\ live \in [Services -> Values \cup {NoValue}]
    /\ drifted \in BOOLEAN /\ moved \in BOOLEAN /\ vouched \in BOOLEAN
    /\ rec \in Rows(Len(log))
    /\ history \subseteq (1..Len(log)) \X Ops
    /\ pc \in {"idle", "sync", "report", "checkout", "parse", "inspect", "deploy", "record",
               "finish"}
    /\ kind \in {"poll", "manual", "rollback"}
    /\ last \in 0..Len(log)
    /\ sha \in 0..Len(log)
    /\ spec \in Values \cup {NoValue}
    /\ wave \in 1..Len(Waves)
    /\ dry \in 0..Len(log)
    /\ removing \in BOOLEAN
    /\ faults \in 0..MaxFaults

Init ==
    /\ \E v \in Values : log = <<v>>
    /\ worktree = 0
    /\ live \in [Services -> Values \cup {NoValue}]    \* what the project runs already
    /\ drifted = FALSE /\ moved = FALSE /\ vouched = FALSE
    /\ rec = NewRow
    /\ history = {}
    /\ pc = "idle"
    /\ kind = "poll" /\ last = 0 /\ sha = 0 /\ spec = NoValue /\ wave = 1
    /\ dry = 0
    /\ removing = FALSE
    /\ faults = 0

-----------------------------------------------------------------------------
(* The branch, the containers, and failures. *)

Push(v) ==
    /\ HeadSHA < MaxCommits
    /\ log' = Append(log, v)
    /\ UNCHANGED <<worktree, live, drifted, appVars, ghostVars, pc, opVars, dry, removing, faults>>

Failure(f) ==
    /\ f \in Faults
    /\ faults < MaxFaults
    /\ faults' = faults + 1

\* A container is stopped or removed behind dockercd's back.
Drift(s) ==
    /\ Failure("drift")
    /\ live[s] # NoValue
    /\ live' = [live EXCEPT ![s] = NoValue]
    /\ drifted' = TRUE
    /\ UNCHANGED <<log, worktree, appVars, ghostVars, pc, opVars, dry, removing>>

-----------------------------------------------------------------------------
(* The clone (gitsync.go) *)

\* Mutant: a clone that exists is not pulled.
SyncOnce == worktree' = IF worktree = 0 THEN HeadSHA ELSE worktree

\* A pull, or a new clone when the pull fails, leaves the branch's head.
Sync == worktree' = HeadSHA

\* The pull failed; the clone was perhaps already wiped for a new one.
SyncFails ==
    /\ Failure("git")
    /\ worktree' \in {worktree, 0}

CheckoutSHA(c) == worktree' = c

\* The operation has just set the clone; somebody else may just have.
Undisturbed == moved' = FALSE
Disturb == moved' = (moved \/ (pc # "idle" /\ worktree' # worktree))

-----------------------------------------------------------------------------
(* The store (queries.go) *)

\* Mutants: an empty error is taken for one that is not to be written; a head
\* that is known is not overwritten.
KeepError(new) ==
    rec' = IF rec.exists THEN [new EXCEPT !.lastError = @ \/ rec.lastError] ELSE rec
KeepHead(new) ==
    rec' = IF rec.exists
           THEN [new EXCEPT !.headSHA = IF rec.headSHA = 0 THEN @ ELSE rec.headSHA]
           ELSE rec

\* A field the update leaves empty is not written; a missing row is an error
\* that the caller logs.
updateStatus(new) == rec' = IF rec.exists THEN new ELSE rec

\* Mutant: foreign keys are not enforced.
RecordAnyway(c, op) ==
    history' = IF c # 0 THEN history \cup {<<c, op>>} ELSE history

\* RecordSync; sync_history refers to the row, so without it nothing is kept.
RecordSync(c, op) ==
    history' = IF rec.exists /\ c # 0 THEN history \cup {<<c, op>>} ELSE history

\* The result names commit c; it is recorded next (FinishStep).
finishResult(c) ==
    /\ sha' = c
    /\ pc' = "finish"

\* Every failure path of reconcileApp marks the row, none of Rollback's do so
\* before it deploys.
Degrade ==
    updateStatus([rec EXCEPT !.health = "Degraded", !.lastError = TRUE])

-----------------------------------------------------------------------------
(* reconcileApp and Rollback, up to the deployment *)

Start(k) ==
    /\ pc = "idle"
    /\ rec.exists
    /\ k \in Requests \cap {"poll", "manual"}
    /\ kind' = k
    /\ last' = rec.lastSynced
    /\ sha' = 0
    /\ pc' = "sync"
    /\ UNCHANGED <<log, worktree, live, drifted, appVars, ghostVars, spec, wave, dry, removing,
                   faults>>

\* Without the row, or without a record of the commit, the request fails.
StartRollback(c) ==
    /\ pc = "idle"
    /\ "rollback" \in Requests
    /\ kind' = "rollback"
    /\ sha' = c
    /\ pc' = IF rec.exists /\ \E op \in Ops : <<c, op>> \in history THEN "sync" ELSE "finish"
    /\ UNCHANGED <<log, worktree, live, drifted, appVars, ghostVars, last, spec, wave, dry,
                   removing, faults>>

SyncStep ==
    /\ pc = "sync"
    /\ Sync
    /\ Undisturbed
    /\ IF kind = "rollback"
       THEN pc' = "checkout" /\ UNCHANGED sha
       ELSE pc' = "report" /\ sha' = HeadSHA
    /\ UNCHANGED <<log, live, drifted, appVars, vouched, kind, last, spec, wave, dry, removing,
                   faults>>

SyncStepFails ==
    /\ pc = "sync"
    /\ SyncFails
    /\ IF kind = "rollback" THEN UNCHANGED rec ELSE Degrade
    /\ finishResult(sha)
    /\ UNCHANGED <<log, live, drifted, history, ghostVars, kind, last, spec, wave, dry, removing>>

\* The head is written to the row; change detection skips a poll whose head is
\* the last synced commit.
ReportStep ==
    /\ pc = "report"
    /\ updateStatus([rec EXCEPT !.headSHA = sha])
    /\ IF sha = last /\ ~Forced /\ ~SelfHeal
       THEN finishResult(sha)
       ELSE pc' = "parse" /\ UNCHANGED sha
    /\ UNCHANGED <<log, worktree, live, drifted, history, ghostVars, kind, last, spec, wave, dry,
                   removing, faults>>

CheckoutStep ==
    /\ pc = "checkout"
    /\ worktree # 0
    /\ CheckoutSHA(sha)
    /\ Undisturbed
    /\ pc' = "parse"
    /\ UNCHANGED <<log, live, drifted, appVars, vouched, opVars, dry, removing, faults>>

\* The clone was wiped meanwhile, or git fails.
CheckoutStepFails ==
    /\ pc = "checkout"
    /\ \/ worktree = 0 /\ UNCHANGED faults
       \/ worktree # 0 /\ Failure("git")
    /\ finishResult(sha)
    /\ UNCHANGED <<log, worktree, live, drifted, appVars, ghostVars, kind, last, spec, wave, dry,
                   removing>>

\* Parse reads the files that are in the clone now.  A rollback leaves the
\* status as it is until it has deployed.
ParseStep ==
    /\ pc = "parse"
    /\ worktree # 0
    /\ spec' = log[worktree]
    /\ IF kind = "rollback"
       THEN /\ updateStatus([rec EXCEPT !.health = "Progressing"])
            /\ pc' = "deploy"
            /\ vouched' = FALSE
       ELSE /\ UNCHANGED <<rec, vouched>>
            /\ pc' = "inspect"
    /\ wave' = 1
    /\ UNCHANGED <<log, worktree, live, drifted, history, moved, kind, last, sha, dry, removing,
                   faults>>

\* The clone is gone, the files do not parse, or a host port is taken.  A
\* failed attempt is recorded without a commit, a failed rollback with it.
ParseStepFails ==
    /\ pc = "parse"
    /\ \/ worktree = 0 /\ UNCHANGED <<rec, faults>>
       \/ /\ worktree # 0
          /\ Failure("parse")
          /\ IF kind = "rollback" THEN UNCHANGED rec ELSE Degrade
    /\ finishResult(IF kind = "rollback" THEN sha ELSE 0)
    /\ UNCHANGED <<log, worktree, live, drifted, history, ghostVars, kind, last, spec, wave, dry,
                   removing>>

\* Inspect, Diff and the decision.
InspectStep ==
    /\ pc = "inspect"
    /\ drifted' = FALSE
    /\ \/ /\ \A s \in Services : live[s] = spec
          /\ updateStatus([rec EXCEPT !.status = "Synced", !.lastSynced = sha,
                                      !.lastError = FALSE])
          /\ vouched' = ~moved
          /\ finishResult(sha)
       \/ /\ \E s \in Services : live[s] # spec
          /\ ~Automated /\ ~Forced
          /\ updateStatus([rec EXCEPT !.status = "ManuallyManaged", !.lastError = FALSE])
          /\ finishResult(sha)
          /\ UNCHANGED vouched
       \/ /\ \E s \in Services : live[s] # spec
          /\ Automated \/ Forced
          /\ updateStatus([rec EXCEPT !.status = "OutOfSync", !.health = "Progressing"])
          /\ pc' = "deploy"
          /\ UNCHANGED <<sha, vouched>>
    /\ UNCHANGED <<log, worktree, live, history, moved, kind, last, spec, wave, dry, removing,
                   faults>>

InspectStepFails ==
    /\ pc = "inspect"
    /\ Failure("inspect")
    /\ Degrade
    /\ finishResult(0)
    /\ UNCHANGED <<log, worktree, live, drifted, history, ghostVars, kind, last, spec, wave, dry,
                   removing>>

-----------------------------------------------------------------------------
(* Deployment *)

\* A rollback, or an application with one wave, is applied as a whole.
OneShot == kind = "rollback" \/ Len(Waves) = 1
Batch == IF OneShot THEN Services ELSE Waves[wave]

\* docker compose reads the files again, once for every wave.
Apply(S) == live' = [s \in Services |-> IF s \in S THEN log[worktree] ELSE live[s]]

DeployStep ==
    /\ pc = "deploy"
    /\ worktree # 0
    /\ Apply(Batch)
    /\ IF OneShot \/ wave = Len(Waves)
       THEN pc' = "record" /\ UNCHANGED wave
       ELSE wave' = wave + 1 /\ UNCHANGED pc
    /\ drifted' = (drifted /\ ~OneShot)
    /\ UNCHANGED <<log, worktree, appVars, ghostVars, kind, last, sha, spec, dry, removing,
                   faults>>

\* Some services of the batch may have been applied before the hook, the pull,
\* up or the health gate of the wave failed, or the context ended.
DeployStepFails ==
    /\ pc = "deploy"
    /\ \/ worktree = 0 /\ UNCHANGED <<live, faults>>
       \/ worktree # 0 /\ Failure("deploy") /\ \E S \in SUBSET Batch : Apply(S)
    /\ Degrade
    /\ finishResult(sha)
    /\ UNCHANGED <<log, worktree, drifted, history, ghostVars, kind, last, spec, wave, dry,
                   removing>>

\* Mutant: the head of the branch is recorded, not the commit that was deployed.
RecordHead ==
    /\ pc = "record"
    /\ updateStatus([rec EXCEPT !.status = "Synced", !.health = "Progressing",
                                !.lastSynced = HeadSHA, !.lastError = FALSE])
    /\ vouched' = ~moved
    /\ finishResult(sha)
    /\ UNCHANGED <<log, worktree, live, drifted, history, moved, kind, last, spec, wave, dry,
                   removing, faults>>

\* STEP 8, and the end of Rollback.
RecordStep ==
    /\ pc = "record"
    /\ updateStatus([rec EXCEPT !.status = "Synced", !.health = "Progressing",
                                !.lastSynced = sha, !.lastError = FALSE])
    /\ vouched' = ~moved
    /\ finishResult(sha)
    /\ UNCHANGED <<log, worktree, live, drifted, history, moved, kind, last, spec, wave, dry,
                   removing, faults>>

\* The operation is over, and what it knew is gone.
OperationEnds ==
    /\ pc' = "idle"
    /\ kind' = "poll" /\ last' = 0 /\ sha' = 0 /\ spec' = NoValue /\ wave' = 1
    /\ moved' = FALSE

FinishStep ==
    /\ pc = "finish"
    /\ RecordSync(sha, kind)
    /\ OperationEnds
    /\ UNCHANGED <<log, worktree, live, drifted, rec, vouched, dry, removing, faults>>

OpStep ==
    \/ SyncStep \/ SyncStepFails \/ ReportStep \/ CheckoutStep \/ CheckoutStepFails
    \/ ParseStep \/ ParseStepFails \/ InspectStep \/ InspectStepFails
    \/ DeployStep \/ DeployStepFails \/ RecordStep \/ FinishStep

\* The process dies and restarts: what it was doing is lost, up perhaps half
\* way; the row and the clone stay.
Crash ==
    /\ Failure("crash")
    /\ pc # "idle" \/ removing \/ dry # 0
    /\ \/ UNCHANGED live
       \/ pc = "deploy" /\ worktree # 0 /\ \E S \in SUBSET Batch : Apply(S)
    /\ OperationEnds
    /\ removing' = FALSE
    /\ dry' = 0
    /\ UNCHANGED <<log, worktree, drifted, appVars, vouched>>

-----------------------------------------------------------------------------
(* What runs without the application's lock *)

\* DryRun and RenderDesired: the clone moves to the head of the branch, ...
DryRunSync ==
    /\ "dryrun" \in Others
    /\ rec.exists
    /\ dry = 0
    /\ \/ Sync /\ dry' = HeadSHA /\ UNCHANGED <<rec, faults>>
       \/ SyncFails /\ Degrade /\ UNCHANGED dry
    /\ Disturb
    /\ UNCHANGED <<log, live, drifted, history, vouched, pc, opVars, removing>>

\* ... which is then reported; what follows may fail.
DryRun ==
    /\ dry # 0
    /\ \/ updateStatus([rec EXCEPT !.headSHA = dry]) /\ UNCHANGED faults
       \/ /\ Failure("parse") \/ Failure("inspect")
          /\ updateStatus([rec EXCEPT !.headSHA = dry, !.health = "Degraded",
                                      !.lastError = TRUE])
    /\ dry' = 0
    /\ UNCHANGED <<log, worktree, live, drifted, history, ghostVars, pc, opVars, removing>>

\* Another application with the same repository URL is polled or rolled back.
OtherApp(c) ==
    /\ "sharedclone" \in Others
    /\ CheckoutSHA(c)
    /\ Disturb
    /\ UNCHANGED <<log, live, drifted, appVars, vouched, pc, opVars, dry, removing, faults>>

AdoptApplication ==
    /\ "adopt" \in Others
    /\ rec.exists
    /\ updateStatus([rec EXCEPT !.status = "Synced", !.lastError = FALSE])
    /\ RecordSync(rec.headSHA, "adopt")
    /\ vouched' = FALSE
    /\ UNCHANGED <<log, worktree, live, drifted, moved, pc, opVars, dry, removing, faults>>

\* The manifest is gone: tearDownApp, whose failure is only logged, and then
\* DeleteApplication.
tearDownApp ==
    /\ "remove" \in Others
    /\ rec.exists
    /\ ~removing
    /\ \/ live' = [s \in Services |-> NoValue] /\ drifted' = TRUE /\ UNCHANGED faults
       \/ UNCHANGED <<live, drifted>> /\ Failure("deploy")
    /\ removing' = TRUE
    /\ UNCHANGED <<log, worktree, appVars, ghostVars, pc, opVars, dry>>

DeleteApplication ==
    /\ removing
    /\ rec' = NoRow
    /\ history' = {}
    /\ removing' = FALSE
    /\ UNCHANGED <<log, worktree, live, drifted, ghostVars, pc, opVars, dry, faults>>

\* The manifest is back: syncConfigManifests registers the application anew.
CreateApplication ==
    /\ "remove" \in Others
    /\ ~rec.exists
    /\ rec' = NewRow
    /\ UNCHANGED <<log, worktree, live, drifted, history, ghostVars, pc, opVars, dry, removing,
                   faults>>

Next ==
    \/ \E v \in Values : Push(v)
    \/ \E s \in Services : Drift(s)
    \/ Crash
    \/ \E k \in {"poll", "manual"} : Start(k)
    \/ \E c \in 1..HeadSHA : StartRollback(c)
    \/ OpStep
    \/ DryRunSync \/ DryRun
    \/ \E c \in 1..HeadSHA : OtherApp(c)
    \/ AdoptApplication
    \/ tearDownApp
    \/ DeleteApplication
    \/ CreateApplication

\* The scheduler polls the application again and again, and an operation that
\* has begun goes on.
Fairness == WF_vars(Start("poll")) /\ WF_vars(OpStep)

Spec == Init /\ [][Next]_vars
FairSpec == Spec /\ Fairness

-----------------------------------------------------------------------------
(* Properties *)

Runs(v) == \A s \in Services : live[s] = v

\* "Synced // Desired == Live" (docs/design.md): between operations, a row that
\* says Synced names a commit, and the services run what that commit asks for.
\* Polls that are skipped, attempts that fail or are cut off at any point, dry
\* runs, other users of the clone and a removal in their middle do not change
\* that.  Excused are services that changed since they were last looked at, and
\* a Synced that no undisturbed attempt wrote: one from an adoption, from an
\* attempt under which the clone was moved, or kept by a rollback that has
\* deployed nothing, a part or all but did not come to record it.
SyncedIsLive ==
    (pc = "idle" /\ rec.exists /\ rec.status = "Synced" /\ vouched /\ ~drifted) =>
        /\ rec.lastSynced # 0
        /\ Runs(log[rec.lastSynced])

\* Without the excuse for what no undisturbed attempt wrote: does not hold.
SyncedIsAlwaysLive ==
    (pc = "idle" /\ rec.exists /\ rec.status = "Synced" /\ ~drifted) =>
        /\ rec.lastSynced # 0
        /\ Runs(log[rec.lastSynced])

\* An operation that nobody disturbs has deployed the commit it is about to
\* record, in every wave (reconcileApp STEP 8, Rollback): polls follow the head,
\* rollbacks leave the clone at an old commit for the next operation, dry runs
\* and other applications move it before Sync, wipe it when a pull fails, and
\* may move it again at any point afterwards, which `moved' then tells.
DeploysTheRevision == (pc = "record" /\ ~drifted /\ ~moved) => Runs(log[sha])

\* Without the excuse for a clone that was moved: does not hold, since dry runs
\* and the applications with the same URL take another lock or none.
AlwaysDeploysTheRevision == (pc = "record" /\ ~drifted) => Runs(log[sha])

\* Once pushes and failures cease, an automated application runs the head of
\* its branch and keeps running it (reconcileApp, polled by the scheduler).
Converges == <>[]Runs(log[HeadSHA])

\* Once failures cease, no error of an earlier attempt is shown for ever.
ErrorsClear == <>[](~rec.lastError)

\* Dry runs that report late do not matter: the row of an application that is
\* polled ends up naming the head of its branch (computeDiff, updateStatus of
\* headSHA).
HeadIsReported == <>[](rec.exists => rec.headSHA = HeadSHA)

\* The history of a removed application goes with its row and does not come
\* back, even when an operation that was running ends later (RecordSync).
NoOrphanRecords == ~rec.exists => history = {}

\* "On the next reconciliation, the deployer will re-attempt docker compose
\* up -d" (docs/design.md 11.5): after a deployment that failed, a later poll
\* deploys again.
PartialIsRetried ==
    (Automated /\ pc = "idle" /\ rec.status = "OutOfSync" /\ ~Runs(log[HeadSHA]))
        ~> (pc = "deploy" \/ Runs(log[HeadSHA]))

\* "Manifest-sourced apps whose files have been removed from all sources are
\* torn down and deleted from the store" (syncConfigManifests): when the row is
\* gone and no operation runs, nothing of the application runs.
RemovedIsGone == (pc = "idle" /\ ~rec.exists) => Runs(NoValue)

\* Rollback goes "to prior commit SHA" (docs/design.md): the commit it deploys
\* has a sync record that is not a rollback's own.
RollsBackToPrior ==
    (kind = "rollback" /\ pc = "deploy") =>
        \E op \in Ops \ {"rollback"} : <<sha, op>> \in history

\* Adoption "marks it as synced, avoiding an unnecessary re-deployment"
\* (AdoptApplication): a poll does not deploy the commit that was adopted.
AdoptionAvoidsDeploy ==
    [][(pc = "inspect" /\ pc' = "deploy" /\ kind = "poll" /\ rec.status = "Synced")
         => <<sha, "adopt">> \notin history]_vars
=============================================================================
