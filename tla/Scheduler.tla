------------------------------ MODULE Scheduler ------------------------------
(***************************************************************************)
(* The reconciler's scheduling core (internal/reconciler): the scheduler   *)
(* goroutine with its schedule and queued maps, the bounded work queue,    *)
(* the trigger channel, the worker pool, the per-application mutexes kept  *)
(* in a sync.Map, the API's synchronous ReconcileNow and Rollback, and the *)
(* registrations and removals config sync performs on the scheduler        *)
(* goroutine.  What a reconciliation does is left to other modules: here   *)
(* it is the interval during which a process is "reconciling" an app.      *)
(*                                                                         *)
(* Time is abstracted to what the scheduler compares it with: a scheduled  *)
(* application is "due" (its time is not after now) or "later".  The timer *)
(* of the loop may fire whenever the loop waits for it.                    *)
(***************************************************************************)
EXTENDS Naturals, Sequences, FiniteSets

CONSTANTS
  Apps,         \* application names
  Workers,      \* the worker goroutines
  Callers,      \* API requests that run ReconcileNow or Rollback
  Removable,    \* applications whose manifest may disappear
  NoApp,        \* not an application
  TriggerCap,   \* capacity of the trigger channel (16 in New)
  ApiNames,     \* applications the API creates and deletes
  MaxChanges,   \* bound: manifest changes one config sync finds
  MaxRemovals,  \* bound: how many times config sync removes an application
  MayStop       \* whether the reconciler's context may be cancelled

ASSUME SchedulerAssumption ==
  /\ IsFiniteSet(Workers)
  /\ Removable \subseteq Apps /\ ApiNames \subseteq Apps
  /\ NoApp \notin Apps
  /\ Workers \cap Callers = {}
  /\ TriggerCap \in Nat
  /\ MaxChanges \in Nat /\ MaxRemovals \in Nat
  /\ MayStop \in BOOLEAN

VARIABLES
  stored,     \* the applications table: how each name got there, if it is there
  schedule,   \* the schedule map
  queued,     \* the names whose queued entry is true
  trigger,    \* the trigger channel
  workQueue,  \* the work queue channel
  sched,      \* where the scheduler goroutine is
  wake,       \* what nextWakeTime found when the timer was last reset
  plan,       \* the config changes the running config sync still has to apply
  leaving,    \* the application between the two halves of RemoveApp
  due,        \* names enqueueDueApps has collected and not yet sent
  appLocks,   \* the sync.Map of mutexes: generation of the stored mutex, 0 if none
  lastGen,    \* the youngest mutex generation
  pc,         \* where each worker and caller is
  job,        \* the application it works on
  lock,       \* the generation of the mutex it got from getAppLock
  removals,   \* how many removals config sync has performed
  ctxDone,    \* the reconciler's context is cancelled
  missed      \* history: applications a worker dropped because TryLock failed

schedVars == <<schedule, queued>>
loopVars  == <<sched, wake, plan, leaving, due>>
lockVars  == <<appLocks, lastGen>>
procVars  == <<pc, job, lock>>
envVars   == <<removals, ctxDone>>
vars == <<stored, schedVars, trigger, workQueue, loopVars, lockVars, procVars, envVars, missed>>

Procs == Workers \cup Callers
QueueCap == 2 * Cardinality(Workers)
NoPlan == [new |-> {}, changed |-> {}, gone |-> {}]

TypeOK ==
  /\ stored \in [Apps -> {"absent", "api", "manifest"}]
  /\ schedule \in [Apps -> {"none", "due", "later"}]
  /\ queued \subseteq Apps
  /\ trigger \in Seq(Apps)
  /\ workQueue \in Seq(Apps)
  /\ sched \in {"top", "select", "config", "unschedule", "collect", "send", "exited"}
  /\ wake \in {"idle", "due", "later"}
  /\ plan \in [new : SUBSET Apps, changed : SUBSET Apps, gone : SUBSET Apps]
  /\ leaving \in Apps \cup {NoApp}
  /\ due \subseteq Apps
  /\ appLocks \in [Apps -> Nat]
  /\ lastGen \in Nat
  /\ pc \in [Procs -> {"idle", "dequeued", "locking", "reconciling",
                       "rescheduling", "exited"}]
  /\ job \in [Procs -> Apps \cup {NoApp}]
  /\ lock \in [Procs -> Nat]
  /\ removals \in Nat
  /\ ctxDone \in BOOLEAN
  /\ missed \subseteq Apps

\* New, and Start up to the point where its goroutines run: every stored
\* application is scheduled for now.
Init ==
  /\ stored \in [Apps -> {"absent", "api", "manifest"}]
  /\ schedule = [a \in Apps |-> IF stored[a] = "absent" THEN "none" ELSE "due"]
  /\ queued = {}
  /\ trigger = <<>>
  /\ workQueue = <<>>
  /\ sched = "top" /\ wake = "idle" /\ plan = NoPlan /\ leaving = NoApp /\ due = {}
  /\ appLocks = [a \in Apps |-> 0] /\ lastGen = 0
  /\ pc = [p \in Procs |-> "idle"]
  /\ job = [p \in Procs |-> NoApp]
  /\ lock = [p \in Procs |-> 0]
  /\ removals = 0
  /\ ctxDone = FALSE
  /\ missed = {}

-----------------------------------------------------------------------------
(* Time and the outside world *)

\* The time of a scheduled application arrives.
TimePasses(a) ==
  /\ schedule[a] = "later"
  /\ schedule' = [schedule EXCEPT ![a] = "due"]
  /\ UNCHANGED <<stored, queued, trigger, workQueue, loopVars, lockVars, procVars, envVars,
                 missed>>

\* A webhook, the event watcher or the image poller asks for a reconciliation;
\* a full trigger channel drops the request.
TriggerReconcile(a) ==
  /\ trigger' = IF Len(trigger) < TriggerCap THEN Append(trigger, a) ELSE trigger
  /\ UNCHANGED <<stored, schedVars, workQueue, loopVars, lockVars, procVars, envVars, missed>>

\* The API's CreateApplication and DeleteApplication touch the store only.
ApiCreate(a) ==
  /\ stored[a] = "absent"
  /\ stored' = [stored EXCEPT ![a] = "api"]
  /\ UNCHANGED <<schedVars, trigger, workQueue, loopVars, lockVars, procVars, envVars, missed>>

ApiDelete(a) ==
  /\ stored[a] # "absent"
  /\ stored' = [stored EXCEPT ![a] = "absent"]
  /\ UNCHANGED <<schedVars, trigger, workQueue, loopVars, lockVars, procVars, envVars, missed>>

-----------------------------------------------------------------------------
(* schedulerLoop *)

Unqueued == {a \in Apps \ queued : schedule[a] # "none"}

\* Mutant: queued applications are not skipped.
WakeForQueued ==
  IF \E a \in Apps : schedule[a] = "due" THEN "due"
  ELSE IF \E a \in Apps : schedule[a] = "later" THEN "later" ELSE "idle"

nextWakeTime ==
  IF Unqueued = {} THEN "idle"
  ELSE IF \E a \in Unqueued : schedule[a] = "due" THEN "due" ELSE "later"

\* The top of the loop: the timer is reset for the earliest application that
\* is not queued.
ResetTimer ==
  /\ sched = "top"
  /\ wake' = nextWakeTime
  /\ sched' = "select"
  /\ UNCHANGED <<stored, schedVars, trigger, workQueue, plan, leaving, due, lockVars, procVars,
                 envVars, missed>>

ReceiveTrigger ==
  /\ sched = "select"
  /\ trigger # <<>>
  /\ schedule' = [schedule EXCEPT ![Head(trigger)] = "due"]
  /\ trigger' = Tail(trigger)
  /\ sched' = "collect"
  /\ UNCHANGED <<stored, queued, workQueue, wake, plan, leaving, due, lockVars, procVars,
                 envVars, missed>>

\* The timer fires and syncConfigManifests compares the manifest sources with
\* the store.  Any unknown name may have a new manifest, any manifest-sourced
\* application a changed one, and one of Removable may have lost its manifest.
TimerFires ==
  /\ sched = "select"
  /\ \E new, changed, gone \in SUBSET Apps :
       /\ \A a \in new : stored[a] = "absent"
       /\ \A a \in changed \cup gone : stored[a] = "manifest"
       /\ gone \subseteq Removable \ changed
       /\ Cardinality(new \cup changed \cup gone) =< MaxChanges
       /\ removals + Cardinality(gone) =< MaxRemovals
       /\ plan' = [new |-> new, changed |-> changed, gone |-> gone]
  /\ sched' = "config"
  /\ UNCHANGED <<stored, schedVars, trigger, workQueue, wake, leaving, due, lockVars, procVars,
                 envVars, missed>>

\* CreateApplication and AddApp; a name the API has taken meanwhile is skipped.
ConfigRegister(a) ==
  /\ sched = "config"
  /\ a \in plan.new
  /\ plan' = [plan EXCEPT !.new = @ \ {a}]
  /\ IF stored[a] = "absent"
       THEN /\ stored' = [stored EXCEPT ![a] = "manifest"]
            /\ schedule' = [schedule EXCEPT ![a] = "due"]
       ELSE UNCHANGED <<stored, schedule>>
  /\ UNCHANGED <<queued, trigger, workQueue, sched, wake, leaving, due, lockVars, procVars,
                 envVars, missed>>

\* UpdateManifest, which does not fail on a missing row, and AddApp.
ConfigUpdate(a) ==
  /\ sched = "config"
  /\ a \in plan.changed
  /\ plan' = [plan EXCEPT !.changed = @ \ {a}]
  /\ schedule' = [schedule EXCEPT ![a] = "due"]
  /\ UNCHANGED <<stored, queued, trigger, workQueue, sched, wake, leaving, due, lockVars,
                 procVars, envVars, missed>>

\* DeleteApplication; a row that is already gone ends the removal early.
ConfigRemove(a) ==
  /\ sched = "config"
  /\ plan.new = {} /\ plan.changed = {} /\ leaving = NoApp
  /\ a \in plan.gone
  /\ plan' = [plan EXCEPT !.gone = @ \ {a}]
  /\ removals' = removals + 1
  /\ IF stored[a] = "absent"
       THEN UNCHANGED <<stored, sched, leaving>>
       ELSE /\ stored' = [stored EXCEPT ![a] = "absent"]
            /\ sched' = "unschedule"
            /\ leaving' = a
  /\ UNCHANGED <<schedVars, trigger, workQueue, wake, due, lockVars, procVars, ctxDone, missed>>

\* RemoveApp under scheduleMu: the name leaves the schedule and loses its mark.
Unschedule ==
  /\ sched = "unschedule"
  /\ leaving # NoApp
  /\ schedule' = [schedule EXCEPT ![leaving] = "none"]
  /\ queued' = queued \ {leaving}
  /\ sched' = "config"
  /\ UNCHANGED <<stored, trigger, workQueue, wake, plan, leaving, due, lockVars, procVars,
                 envVars, missed>>

\* RemoveApp after the unlock: the mutex leaves the sync.Map, held or not.
DropLock ==
  /\ sched = "config"
  /\ leaving # NoApp
  /\ appLocks' = [appLocks EXCEPT ![leaving] = 0]
  /\ leaving' = NoApp
  /\ UNCHANGED <<stored, schedVars, trigger, workQueue, sched, wake, plan, due, lastGen,
                 procVars, envVars, missed>>

ConfigDone ==
  /\ sched = "config"
  /\ plan = NoPlan /\ leaving = NoApp
  /\ sched' = "collect"
  /\ UNCHANGED <<stored, schedVars, trigger, workQueue, wake, plan, leaving, due, lockVars,
                 procVars, envVars, missed>>

\* Mutant: applications that are already queued are collected again.
CollectQueued ==
  /\ sched = "collect"
  /\ due' = {a \in Apps : schedule[a] = "due"}
  /\ queued' = queued \cup due'
  /\ sched' = "send"
  /\ UNCHANGED <<stored, schedule, trigger, workQueue, wake, plan, leaving, lockVars, procVars,
                 envVars, missed>>

\* enqueueDueApps, first part: under scheduleMu, mark and collect what is due.
CollectDue ==
  /\ sched = "collect"
  /\ due' = {a \in Unqueued : schedule[a] = "due"}
  /\ queued' = queued \cup due'
  /\ sched' = "send"
  /\ UNCHANGED <<stored, schedule, trigger, workQueue, wake, plan, leaving, lockVars, procVars,
                 envVars, missed>>

\* Mutant: a name the full queue refuses keeps its mark.
EnqueueOrForget(a) ==
  /\ sched = "send"
  /\ a \in due
  /\ due' = due \ {a}
  /\ workQueue' = IF Len(workQueue) < QueueCap THEN Append(workQueue, a) ELSE workQueue
  /\ UNCHANGED <<stored, schedVars, trigger, sched, wake, plan, leaving, lockVars, procVars,
                 envVars, missed>>

\* enqueueDueApps, second part: a non-blocking send for each collected name; a
\* name the full queue refuses is unmarked and retried shortly.
EnqueueDue(a) ==
  /\ sched = "send"
  /\ a \in due
  /\ due' = due \ {a}
  /\ IF Len(workQueue) < QueueCap
       THEN /\ workQueue' = Append(workQueue, a)
            /\ UNCHANGED schedVars
       ELSE /\ queued' = queued \ {a}
            /\ schedule' = [schedule EXCEPT ![a] = "later"]
            /\ UNCHANGED workQueue
  /\ UNCHANGED <<stored, trigger, sched, wake, plan, leaving, lockVars, procVars, envVars,
                 missed>>

LoopAgain ==
  /\ sched = "send"
  /\ due = {}
  /\ sched' = "top"
  /\ UNCHANGED <<stored, schedVars, trigger, workQueue, wake, plan, leaving, due, lockVars,
                 procVars, envVars, missed>>

SchedulerExits ==
  /\ sched = "select"
  /\ ctxDone
  /\ sched' = "exited"
  /\ UNCHANGED <<stored, schedVars, trigger, workQueue, wake, plan, leaving, due, lockVars,
                 procVars, envVars, missed>>

SchedulerStep ==
  \/ ResetTimer \/ ReceiveTrigger \/ TimerFires \/ Unschedule \/ DropLock
  \/ ConfigDone \/ CollectDue \/ LoopAgain \/ SchedulerExits
  \/ \E a \in Apps : ConfigRegister(a) \/ ConfigUpdate(a) \/ ConfigRemove(a) \/ EnqueueDue(a)

-----------------------------------------------------------------------------
(* Per-application mutexes *)

Held(a, g) == \E p \in Procs : pc[p] = "reconciling" /\ job[p] = a /\ lock[p] = g

\* LoadOrStore: the stored mutex, or a fresh one that becomes the stored one.
getAppLock(p) ==
  LET a == job'[p] IN
  IF appLocks[a] = 0
    THEN /\ lastGen' = lastGen + 1
         /\ appLocks' = [appLocks EXCEPT ![a] = lastGen + 1]
         /\ lock' = [lock EXCEPT ![p] = lastGen + 1]
    ELSE /\ lock' = [lock EXCEPT ![p] = appLocks[a]]
         /\ UNCHANGED lockVars

-----------------------------------------------------------------------------
(* worker *)

Dequeue(w) ==
  /\ pc[w] = "idle"
  /\ workQueue # <<>>
  /\ job' = [job EXCEPT ![w] = Head(workQueue)]
  /\ workQueue' = Tail(workQueue)
  /\ pc' = [pc EXCEPT ![w] = "dequeued"]
  /\ UNCHANGED <<stored, schedVars, trigger, loopVars, lockVars, lock, envVars, missed>>

WorkerGetsLock(w) ==
  /\ pc[w] = "dequeued"
  /\ pc' = [pc EXCEPT ![w] = "locking"]
  /\ job' = job
  /\ getAppLock(w)
  /\ UNCHANGED <<stored, schedVars, trigger, workQueue, loopVars, envVars, missed>>

\* Mutant: the result of TryLock is ignored.
IgnoreTryLock(w) ==
  /\ pc[w] = "locking"
  /\ pc' = [pc EXCEPT ![w] = "reconciling"]
  /\ UNCHANGED <<stored, schedVars, trigger, workQueue, loopVars, lockVars, job, lock, envVars,
                 missed>>

\* TryLock; when it fails the worker goes back for the next name and leaves
\* this one as it is.
TryLock(w) ==
  /\ pc[w] = "locking"
  /\ IF Held(job[w], lock[w])
       THEN /\ pc' = [pc EXCEPT ![w] = "idle"]
            /\ job' = [job EXCEPT ![w] = NoApp]
            /\ lock' = [lock EXCEPT ![w] = 0]
            /\ missed' = missed \cup {job[w]}
       ELSE /\ pc' = [pc EXCEPT ![w] = "reconciling"]
            /\ UNCHANGED <<job, lock, missed>>
  /\ UNCHANGED <<stored, schedVars, trigger, workQueue, loopVars, lockVars, envVars>>

\* reconcileApp returns and the mutex is unlocked.
WorkerUnlocks(w) ==
  /\ pc[w] = "reconciling"
  /\ pc' = [pc EXCEPT ![w] = "rescheduling"]
  /\ lock' = [lock EXCEPT ![w] = 0]
  /\ UNCHANGED <<stored, schedVars, trigger, workQueue, loopVars, lockVars, job, envVars,
                 missed>>

\* Mutant: the queued mark is not cleared.
KeepMark(w) ==
  /\ pc[w] = "rescheduling"
  /\ schedule' = [schedule EXCEPT ![job[w]] = "later"]
  /\ pc' = [pc EXCEPT ![w] = "idle"]
  /\ job' = [job EXCEPT ![w] = NoApp]
  /\ UNCHANGED <<stored, queued, trigger, workQueue, loopVars, lockVars, lock, envVars, missed>>

reschedule(w) ==
  /\ pc[w] = "rescheduling"
  /\ schedule' = [schedule EXCEPT ![job[w]] = "later"]
  /\ queued' = queued \ {job[w]}
  /\ pc' = [pc EXCEPT ![w] = "idle"]
  /\ job' = [job EXCEPT ![w] = NoApp]
  /\ UNCHANGED <<stored, trigger, workQueue, loopVars, lockVars, lock, envVars, missed>>

\* Mutant: the context is looked at after a reconciliation only.
ExitAfterWork(w) ==
  /\ pc[w] = "rescheduling"
  /\ ctxDone
  /\ pc' = [pc EXCEPT ![w] = "exited"]
  /\ UNCHANGED <<stored, schedVars, trigger, workQueue, loopVars, lockVars, job, lock, envVars,
                 missed>>

WorkerExits(w) ==
  /\ pc[w] = "idle"
  /\ ctxDone
  /\ pc' = [pc EXCEPT ![w] = "exited"]
  /\ UNCHANGED <<stored, schedVars, trigger, workQueue, loopVars, lockVars, job, lock, envVars,
                 missed>>

WorkerStep(w) ==
  \/ Dequeue(w) \/ WorkerGetsLock(w) \/ TryLock(w) \/ WorkerUnlocks(w)
  \/ reschedule(w) \/ WorkerExits(w)

-----------------------------------------------------------------------------
(* ReconcileNow and Rollback, called by the API for an application it has
   found in the store *)

CallerGetsLock(c, a) ==
  /\ pc[c] = "idle"
  /\ stored[a] # "absent"
  /\ pc' = [pc EXCEPT ![c] = "locking"]
  /\ job' = [job EXCEPT ![c] = a]
  /\ getAppLock(c)
  /\ UNCHANGED <<stored, schedVars, trigger, workQueue, loopVars, envVars, missed>>

CallerLocks(c) ==
  /\ pc[c] = "locking"
  /\ ~Held(job[c], lock[c])
  /\ pc' = [pc EXCEPT ![c] = "reconciling"]
  /\ UNCHANGED <<stored, schedVars, trigger, workQueue, loopVars, lockVars, job, lock, envVars,
                 missed>>

\* Unlock on return: nothing is rescheduled.
CallerUnlocks(c) ==
  /\ pc[c] = "reconciling"
  /\ pc' = [pc EXCEPT ![c] = "idle"]
  /\ job' = [job EXCEPT ![c] = NoApp]
  /\ lock' = [lock EXCEPT ![c] = 0]
  /\ UNCHANGED <<stored, schedVars, trigger, workQueue, loopVars, lockVars, envVars, missed>>

-----------------------------------------------------------------------------
(* Shutdown *)

Cancel ==
  /\ MayStop
  /\ ~ctxDone
  /\ ctxDone' = TRUE
  /\ UNCHANGED <<stored, schedVars, trigger, workQueue, loopVars, lockVars, procVars, removals,
                 missed>>

-----------------------------------------------------------------------------

Next ==
  \/ SchedulerStep
  \/ \E w \in Workers : WorkerStep(w)
  \/ \E c \in Callers :
       \/ \E a \in Apps : CallerGetsLock(c, a)
       \/ CallerLocks(c)
       \/ CallerUnlocks(c)
  \/ \E a \in Apps : TimePasses(a) \/ TriggerReconcile(a)
  \/ \E a \in ApiNames : ApiCreate(a) \/ ApiDelete(a)
  \/ Cancel

\* The goroutines are scheduled, time passes, and a reconciliation ends because
\* its context has a deadline.  A mutex that is unlocked again and again is
\* eventually granted to a goroutine blocked in Lock.
Fairness ==
  /\ WF_vars(SchedulerStep) /\ SF_vars(SchedulerExits)
  /\ \A w \in Workers : WF_vars(WorkerStep(w)) /\ SF_vars(WorkerExits(w))
  /\ \A c \in Callers : SF_vars(CallerLocks(c)) /\ WF_vars(CallerUnlocks(c))
  /\ \A a \in Apps : WF_vars(TimePasses(a))

Spec == Init /\ [][Next]_vars
FairSpec == Spec /\ Fairness

-----------------------------------------------------------------------------
(* Properties *)

InQueue(a) == \E i \in 1..Len(workQueue) : workQueue[i] = a
InHand(a) == \E w \in Workers : job[w] = a
Reconciling(a) == {p \in Procs : pc[p] = "reconciling" /\ job[p] = a}

\* An application that is never removed is at most once on its way to a worker:
\* collected by enqueueDueApps, in the work queue, or in one worker's hands, and
\* it is marked as queued all that time.  So two workers never meet on one
\* application, and TryLock only ever fails because the API holds the mutex.
AtMostOnceQueued ==
  \A a \in Apps \ Removable :
    /\ \A i, j \in 1..Len(workQueue) : workQueue[i] = a /\ workQueue[j] = a => i = j
    /\ \A v, w \in Workers : job[v] = a /\ job[w] = a => v = w
    /\ a \in due => ~InQueue(a) /\ ~InHand(a)
    /\ InQueue(a) => ~InHand(a)
    /\ a \in due \/ InQueue(a) \/ InHand(a) => a \in queued

\* An application marked as queued is on its way to a worker or in its hands,
\* so that something will clear the mark, unless a worker has dropped it after
\* a failed TryLock.
QueuedIsCarried ==
  \A a \in Apps \ (Removable \cup missed) :
    a \in queued => a \in due \/ InQueue(a) \/ InHand(a)

\* Where the job of an application is, as its names, marks and workers tell.
JobPhase(a) ==
  IF \E w \in Workers : job[w] = a /\ pc[w] = "reconciling" THEN "running"
  ELSE IF \E w \in Workers : job[w] = a /\ pc[w] = "rescheduling" THEN "ending"
  ELSE IF InHand(a) THEN "taken"
  ELSE IF a \in due \/ InQueue(a) THEN "waiting"
  ELSE IF a \in queued THEN "skipped" ELSE "idle"

Cycle == INSTANCE JobCycle
           WITH Jobs <- Apps \ Removable, phase <- [a \in Apps \ Removable |-> JobPhase(a)]

\* The scheduler, its queue and its workers take every application that is never removed
\* through the cycle of JobCycle, one place at a time: the collected names, the work queue,
\* one worker's hands, and back into the schedule.
OneJobPerApp == Cycle!Spec

\* The per-application mutex keeps worker polls, manual syncs and rollbacks of
\* one application apart, as long as RemoveApp does not replace the mutex.
NoOverlap ==
  \A a \in Apps \ Removable : \A p, q \in Reconciling(a) : p = q

\* The scheduler does not spin: when the timer was set to fire at once, there
\* still is an application for enqueueDueApps to collect.
NoBusyLoop ==
  Removable = {} /\ wake = "due" /\ sched \in {"select", "config", "collect"}
    => \E a \in Unqueued : schedule[a] = "due"

\* Every scheduled application is offered to the work queue again and again: one
\* that the full queue refused is not forgotten, until the reconciler is stopped.
OfferedAgain ==
  \A a \in Apps : schedule[a] # "none" ~> ctxDone \/ a \in due

\* While the work queue has room for every scheduled application, each one is
\* reconciled by a worker again and again until the reconciler is stopped,
\* dropped triggers, deleted rows and changing manifests notwithstanding.
PolledAgain ==
  \A a \in Apps :
    schedule[a] # "none" ~> \/ ctxDone
                            \/ \E w \in Workers : w \in Reconciling(a)
                            \/ Cardinality({b \in Apps : schedule[b] # "none"}) > QueueCap

\* Once the context is cancelled, the scheduler and every worker return.
ShutdownCompletes ==
  ctxDone ~> sched = "exited" /\ \A w \in Workers : pc[w] = "exited"

\* Two reconciliations of one application never run at the same time, whatever
\* config sync removes: the per-app locking the README promises.
PerAppLocking ==
  \A a \in Apps : \A p, q \in Reconciling(a) : p = q

\* An application a worker skipped because its mutex was taken is reconciled by
\* a worker later: the design's "the scheduler will retry on the next cycle".
SkippedIsRetried ==
  \A a \in Apps : a \in missed ~> \E w \in Workers : w \in Reconciling(a)

\* RemoveApp takes an application out of the schedule for good: only a trigger
\* or a manifest puts a name into it.
RemovedStaysOut ==
  [][\A a \in Apps :
       schedule[a] = "none" /\ schedule'[a] # "none" =>
         \/ sched = "select" /\ trigger # <<>> /\ a = Head(trigger)
         \/ sched = "config" /\ a \in plan.new \cup plan.changed]_vars
=============================================================================
