--------------------------- MODULE SchedulerProofs ---------------------------
(* Proofs about Scheduler, for every set of applications, workers and API
   callers and every bound.  The invariants are those the TLC runs check. *)
EXTENDS Scheduler, TLAPS

\* The next-state relation as one disjunct per action, for case analysis.
LEMMA NextCases ==
  ASSUME [Next]_vars
  PROVE  \/ ResetTimer \/ ReceiveTrigger \/ TimerFires \/ Unschedule \/ DropLock \/ ConfigDone
         \/ CollectDue \/ LoopAgain \/ SchedulerExits \/ Cancel
         \/ \E a \in Apps : \/ ConfigRegister(a) \/ ConfigUpdate(a) \/ ConfigRemove(a)
                            \/ EnqueueDue(a) \/ TimePasses(a) \/ TriggerReconcile(a)
                            \/ ApiCreate(a) \/ ApiDelete(a)
         \/ \E w \in Workers : \/ Dequeue(w) \/ WorkerGetsLock(w) \/ TryLock(w)
                               \/ WorkerUnlocks(w) \/ reschedule(w) \/ WorkerExits(w)
         \/ \E c \in Callers : \/ \E a \in Apps : CallerGetsLock(c, a)
                               \/ CallerLocks(c) \/ CallerUnlocks(c)
         \/ UNCHANGED vars
  BY SchedulerAssumption DEF Next, SchedulerStep, WorkerStep

-----------------------------------------------------------------------------
(* Type correctness *)

\* A process has an application exactly while it is busy with one.
BusyHasJob ==
  \A p \in Procs : pc[p] \in {"idle", "exited"} <=> job[p] = NoApp

TypeInv == TypeOK /\ BusyHasJob

\* The types are inductive together with BusyHasJob: the mutex a process gets
\* has a generation only because the process has an application.
LEMMA TypeInvariant == Spec => []TypeInv
<1>1. Init => TypeInv
  <2> SUFFICES ASSUME Init PROVE TypeInv
    OBVIOUS
  <2>1. plan \in [new : SUBSET Apps, changed : SUBSET Apps, gone : SUBSET Apps]
    BY DEF Init, NoPlan
  <2>2. schedule \in [Apps -> {"none", "due", "later"}]
    BY DEF Init
  <2>3. trigger \in Seq(Apps) /\ workQueue \in Seq(Apps)
    BY DEF Init
  <2>4. /\ appLocks \in [Apps -> Nat] /\ lock \in [Procs -> Nat]
        /\ job \in [Procs -> Apps \cup {NoApp}]
        /\ pc \in [Procs -> {"idle", "dequeued", "locking", "reconciling",
                             "rescheduling", "exited"}]
    BY DEF Init
  <2>5. BusyHasJob
    BY DEF Init, BusyHasJob
  <2> QED
    BY <2>1, <2>2, <2>3, <2>4, <2>5, Zenon DEF Init, TypeInv, TypeOK
<1>2. TypeInv /\ [Next]_vars => TypeInv'
  <2> SUFFICES ASSUME TypeInv, [Next]_vars PROVE TypeInv'
    OBVIOUS
  <2>1. CASE ResetTimer
    BY <2>1 DEF ResetTimer, TypeInv, TypeOK, BusyHasJob, nextWakeTime, schedVars, lockVars, procVars, envVars
  <2>2. CASE ReceiveTrigger
    BY <2>2 DEF ReceiveTrigger, TypeInv, TypeOK, BusyHasJob, lockVars, procVars, envVars
  <2>3. CASE TimerFires
    BY <2>3 DEF TimerFires, TypeInv, TypeOK, BusyHasJob, schedVars, lockVars, procVars, envVars
  <2>u. CASE Unschedule
    <3>1. leaving \in Apps
      BY <2>u, Zenon DEF Unschedule, TypeInv, TypeOK
    <3>2. schedule' \in [Apps -> {"none", "due", "later"}] /\ queued' \subseteq Apps
      BY <2>u, <3>1, Zenon DEF Unschedule, TypeInv, TypeOK
    <3>3. /\ sched' = "config"
          /\ UNCHANGED <<stored, trigger, workQueue, wake, plan, leaving, due, appLocks, lastGen,
                         pc, job, lock, removals, ctxDone, missed>>
      BY <2>u DEF Unschedule, lockVars, procVars, envVars
    <3> QED
      BY <3>2, <3>3 DEF TypeInv, TypeOK, BusyHasJob
  <2>4. CASE DropLock
    BY <2>4 DEF DropLock, TypeInv, TypeOK, BusyHasJob, schedVars, procVars, envVars
  <2>5. CASE ConfigDone
    BY <2>5 DEF ConfigDone, TypeInv, TypeOK, BusyHasJob, schedVars, lockVars, procVars, envVars
  <2>6. CASE CollectDue
    BY <2>6 DEF CollectDue, TypeInv, TypeOK, BusyHasJob, Unqueued, lockVars, procVars, envVars
  <2>7. CASE LoopAgain
    BY <2>7 DEF LoopAgain, TypeInv, TypeOK, BusyHasJob, schedVars, lockVars, procVars, envVars
  <2>8. CASE SchedulerExits
    BY <2>8 DEF SchedulerExits, TypeInv, TypeOK, BusyHasJob, schedVars, lockVars, procVars, envVars
  <2>9. CASE Cancel
    BY <2>9 DEF Cancel, TypeInv, TypeOK, BusyHasJob, schedVars, loopVars, lockVars, procVars
  <2>10. ASSUME NEW a \in Apps, ConfigRegister(a) PROVE TypeInv'
    BY <2>10, ZenonT(60) DEF ConfigRegister, TypeInv, TypeOK, BusyHasJob, lockVars, procVars, envVars
  <2>11. ASSUME NEW a \in Apps, ConfigUpdate(a) PROVE TypeInv'
    BY <2>11, Zenon DEF ConfigUpdate, TypeInv, TypeOK, BusyHasJob, lockVars, procVars, envVars
  <2>12. ASSUME NEW a \in Apps, ConfigRemove(a) PROVE TypeInv'
    <3>1. plan' \in [new : SUBSET Apps, changed : SUBSET Apps, gone : SUBSET Apps]
      BY <2>12, Zenon DEF ConfigRemove, TypeInv, TypeOK
    <3>2. /\ stored' \in [Apps -> {"absent", "api", "manifest"}]
          /\ leaving' \in Apps \cup {NoApp}
          /\ sched' \in {sched, "unschedule"}
      BY <2>12, ZenonT(60) DEF ConfigRemove, TypeInv, TypeOK
    <3>3. removals' \in Nat
      BY <2>12 DEF ConfigRemove, TypeInv, TypeOK
    <3>4. UNCHANGED <<schedule, queued, trigger, workQueue, wake, due, appLocks, lastGen, pc,
                      job, lock, ctxDone, missed>>
      BY <2>12 DEF ConfigRemove, schedVars, lockVars, procVars
    <3> QED
      BY <3>1, <3>2, <3>3, <3>4 DEF TypeInv, TypeOK, BusyHasJob
  <2>13. ASSUME NEW a \in Apps, EnqueueDue(a) PROVE TypeInv'
    <3>1. workQueue' \in Seq(Apps)
      <4>1. workQueue' = workQueue \/ workQueue' = Append(workQueue, a)
        BY <2>13 DEF EnqueueDue
      <4>2. workQueue \in Seq(Apps)
        BY DEF TypeInv, TypeOK
      <4> QED
        BY <4>1, <4>2
    <3>2. schedule' \in [Apps -> {"none", "due", "later"}] /\ queued' \subseteq Apps
      BY <2>13, Zenon DEF EnqueueDue, TypeInv, TypeOK, schedVars
    <3> QED
      BY <2>13, <3>1, <3>2, Zenon
      DEF EnqueueDue, TypeInv, TypeOK, BusyHasJob, lockVars, procVars, envVars
  <2>14. ASSUME NEW a \in Apps, TimePasses(a) PROVE TypeInv'
    BY <2>14 DEF TimePasses, TypeInv, TypeOK, BusyHasJob, loopVars, lockVars, procVars, envVars
  <2>15. ASSUME NEW a \in Apps, TriggerReconcile(a) PROVE TypeInv'
    <3>1. trigger' \in Seq(Apps)
      <4>1. trigger' = trigger \/ trigger' = Append(trigger, a)
        BY <2>15 DEF TriggerReconcile
      <4>2. trigger \in Seq(Apps)
        BY DEF TypeInv, TypeOK
      <4> QED
        BY <4>1, <4>2
    <3> QED
      BY <2>15, <3>1
      DEF TriggerReconcile, TypeInv, TypeOK, BusyHasJob, schedVars, loopVars, lockVars, procVars, envVars
  <2>16. ASSUME NEW a \in Apps, ApiCreate(a) \/ ApiDelete(a) PROVE TypeInv'
    <3>1. stored' \in [Apps -> {"absent", "api", "manifest"}]
      BY <2>16 DEF ApiCreate, ApiDelete, TypeInv, TypeOK
    <3>2. UNCHANGED <<schedVars, trigger, workQueue, loopVars, lockVars, procVars, envVars, missed>>
      BY <2>16 DEF ApiCreate, ApiDelete
    <3> QED
      BY <3>1, <3>2 DEF TypeInv, TypeOK, BusyHasJob, schedVars, loopVars, lockVars, procVars, envVars
  <2>17. ASSUME NEW w \in Workers, Dequeue(w) PROVE TypeInv'
    <3>1. Head(workQueue) \in Apps
      BY <2>17 DEF Dequeue, TypeInv, TypeOK
    <3>2. workQueue' \in Seq(Apps)
      BY <2>17 DEF Dequeue, TypeInv, TypeOK
    <3>3. /\ pc' \in [Procs -> {"idle", "dequeued", "locking", "reconciling",
                                "rescheduling", "exited"}]
          /\ job' \in [Procs -> Apps \cup {NoApp}]
      BY <2>17, <3>1, Zenon DEF Dequeue, TypeInv, TypeOK
    <3>4. BusyHasJob'
      BY <2>17, <3>1, SchedulerAssumption DEF Dequeue, TypeInv, TypeOK, BusyHasJob, Procs
    <3> QED
      BY <2>17, <3>2, <3>3, <3>4, Zenon
      DEF Dequeue, TypeInv, TypeOK, schedVars, loopVars, lockVars, envVars
  <2>18. ASSUME NEW w \in Workers, WorkerGetsLock(w) PROVE TypeInv'
    <3>1. job[w] \in Apps /\ job'[w] = job[w]
      BY <2>18, Zenon DEF WorkerGetsLock, TypeInv, TypeOK, BusyHasJob, Procs
    <3>2. /\ appLocks' \in [Apps -> Nat]
          /\ lastGen' \in Nat
          /\ lock' \in [Procs -> Nat]
      <4>1. appLocks \in [Apps -> Nat] /\ lastGen \in Nat /\ lock \in [Procs -> Nat]
        BY DEF TypeInv, TypeOK
      <4>2. \/ /\ lastGen' = lastGen + 1
               /\ appLocks' = [appLocks EXCEPT ![job[w]] = lastGen + 1]
               /\ lock' = [lock EXCEPT ![w] = lastGen + 1]
            \/ /\ lock' = [lock EXCEPT ![w] = appLocks[job[w]]]
               /\ appLocks' = appLocks /\ lastGen' = lastGen
        BY <2>18, <3>1 DEF WorkerGetsLock, getAppLock, lockVars
      <4> QED
        BY <3>1, <4>1, <4>2
    <3>3. /\ pc' \in [Procs -> {"idle", "dequeued", "locking", "reconciling",
                                "rescheduling", "exited"}]
          /\ job' \in [Procs -> Apps \cup {NoApp}]
          /\ BusyHasJob'
      BY <2>18, <3>1, SchedulerAssumption DEF WorkerGetsLock, TypeInv, TypeOK, BusyHasJob, Procs
    <3> QED
      BY <2>18, <3>2, <3>3
      DEF WorkerGetsLock, TypeInv, TypeOK, schedVars, loopVars, envVars
  <2>19. ASSUME NEW w \in Workers, TryLock(w) PROVE TypeInv'
    <3>1. /\ pc' \in [Procs -> {"idle", "dequeued", "locking", "reconciling",
                                "rescheduling", "exited"}]
          /\ job' \in [Procs -> Apps \cup {NoApp}]
          /\ lock' \in [Procs -> Nat]
      <4>1. /\ pc \in [Procs -> {"idle", "dequeued", "locking", "reconciling",
                                 "rescheduling", "exited"}]
            /\ job \in [Procs -> Apps \cup {NoApp}]
            /\ lock \in [Procs -> Nat]
        BY DEF TypeInv, TypeOK
      <4>2. \/ /\ pc' = [pc EXCEPT ![w] = "idle"]
               /\ job' = [job EXCEPT ![w] = NoApp]
               /\ lock' = [lock EXCEPT ![w] = 0]
            \/ /\ pc' = [pc EXCEPT ![w] = "reconciling"]
               /\ job' = job /\ lock' = lock
        BY <2>19 DEF TryLock
      <4> QED
        BY <4>1, <4>2
    <3>2. missed' \subseteq Apps
      <4>1. job[w] \in Apps
        BY <2>19, Zenon DEF TryLock, TypeInv, TypeOK, BusyHasJob, Procs
      <4>2. missed' = missed \/ missed' = missed \cup {job[w]}
        BY <2>19 DEF TryLock
      <4> QED
        BY <4>1, <4>2 DEF TypeInv, TypeOK
    <3>3. BusyHasJob'
      <4>1. /\ DOMAIN pc = Procs /\ DOMAIN job = Procs /\ w \in Procs
            /\ pc[w] = "locking" /\ job[w] # NoApp
            /\ BusyHasJob
        BY <2>19, Zenon DEF TryLock, TypeInv, TypeOK, BusyHasJob, Procs
      <4>2. \/ /\ pc' = [pc EXCEPT ![w] = "idle"]
               /\ job' = [job EXCEPT ![w] = NoApp]
            \/ /\ pc' = [pc EXCEPT ![w] = "reconciling"]
               /\ job' = job
        BY <2>19 DEF TryLock
      <4>3. /\ pc \in [Procs -> {"idle", "dequeued", "locking", "reconciling",
                                 "rescheduling", "exited"}]
            /\ job \in [Procs -> Apps \cup {NoApp}]
        BY DEF TypeInv, TypeOK
      <4> QED
        BY <4>1, <4>2, <4>3 DEF BusyHasJob
    <3> QED
      BY <2>19, <3>1, <3>2, <3>3, Zenon DEF TryLock, TypeInv, TypeOK, schedVars, loopVars, lockVars, envVars
  <2>20. ASSUME NEW w \in Workers, WorkerUnlocks(w) PROVE TypeInv'
    BY <2>20 DEF WorkerUnlocks, TypeInv, TypeOK, BusyHasJob, Procs, schedVars, loopVars, lockVars, envVars
  <2>21. ASSUME NEW w \in Workers, reschedule(w) PROVE TypeInv'
    BY <2>21, ZenonT(60) DEF reschedule, TypeInv, TypeOK, BusyHasJob, Procs, loopVars, lockVars, envVars
  <2>22. ASSUME NEW w \in Workers, WorkerExits(w) PROVE TypeInv'
    BY <2>22 DEF WorkerExits, TypeInv, TypeOK, BusyHasJob, Procs, schedVars, loopVars, lockVars, envVars
  <2>23. ASSUME NEW c \in Callers, NEW a \in Apps, CallerGetsLock(c, a) PROVE TypeInv'
    <3>1. a \in Apps /\ job'[c] = a
      BY <2>23 DEF CallerGetsLock, TypeInv, TypeOK, BusyHasJob, Procs
    <3>2. /\ appLocks' \in [Apps -> Nat]
          /\ lastGen' \in Nat
          /\ lock' \in [Procs -> Nat]
      <4>1. appLocks \in [Apps -> Nat] /\ lastGen \in Nat /\ lock \in [Procs -> Nat]
        BY DEF TypeInv, TypeOK
      <4>2. \/ /\ lastGen' = lastGen + 1
               /\ appLocks' = [appLocks EXCEPT ![a] = lastGen + 1]
               /\ lock' = [lock EXCEPT ![c] = lastGen + 1]
            \/ /\ lock' = [lock EXCEPT ![c] = appLocks[a]]
               /\ appLocks' = appLocks /\ lastGen' = lastGen
        BY <2>23, <3>1 DEF CallerGetsLock, getAppLock, lockVars
      <4> QED
        BY <3>1, <4>1, <4>2
    <3>3. /\ pc' \in [Procs -> {"idle", "dequeued", "locking", "reconciling",
                                "rescheduling", "exited"}]
          /\ job' \in [Procs -> Apps \cup {NoApp}]
          /\ BusyHasJob'
      BY <2>23, <3>1, SchedulerAssumption DEF CallerGetsLock, TypeInv, TypeOK, BusyHasJob, Procs
    <3> QED
      BY <2>23, <3>2, <3>3, Zenon
      DEF CallerGetsLock, TypeInv, TypeOK, schedVars, loopVars, envVars
  <2>24. ASSUME NEW c \in Callers, CallerLocks(c) PROVE TypeInv'
    BY <2>24 DEF CallerLocks, TypeInv, TypeOK, BusyHasJob, Procs, schedVars, loopVars, lockVars, envVars
  <2>25. ASSUME NEW c \in Callers, CallerUnlocks(c) PROVE TypeInv'
    BY <2>25, SMTT(60) DEF CallerUnlocks, TypeInv, TypeOK, BusyHasJob, Procs, schedVars, loopVars, lockVars, envVars
  <2>26. CASE UNCHANGED vars
    BY <2>26 DEF vars, TypeInv, TypeOK, BusyHasJob, schedVars, loopVars, lockVars, procVars, envVars
  <2> QED
    BY NextCases, <2>1, <2>2, <2>3, <2>u, <2>4, <2>5, <2>6, <2>7, <2>8, <2>9, <2>10, <2>11,
       <2>12, <2>13, <2>14, <2>15, <2>16, <2>17, <2>18, <2>19, <2>20, <2>21, <2>22,
       <2>23, <2>24, <2>25, <2>26
<1> QED
  BY <1>1, <1>2, PTL DEF Spec

\* Every variable of the scheduler keeps its type.
THEOREM TypeCorrect == Spec => []TypeOK
  BY TypeInvariant, PTL DEF TypeInv

-----------------------------------------------------------------------------
(* Mutual exclusion *)

\* NoOverlap made inductive: for an application that is never removed, whoever
\* waits for its mutex or holds it has the one mutex the map holds, because
\* only an application of Removable ever loses its map entry.
MutexInv ==
  /\ leaving \in Removable \cup {NoApp}
  /\ plan.gone \subseteq Removable
  /\ \A p \in Procs :
       pc[p] \in {"locking", "reconciling"} /\ job[p] \in Apps \ Removable
         => lock[p] # 0 /\ lock[p] = appLocks[job[p]]
  /\ NoOverlap

\* A step that leaves the mutexes and the processes alone and adds nothing to
\* the planned removals preserves MutexInv.
LEMMA MutexFrame ==
  ASSUME MutexInv, UNCHANGED <<appLocks, pc, job, lock>>,
         leaving' \in Removable \cup {NoApp}, plan'.gone \subseteq Removable
  PROVE  MutexInv'
  BY DEF MutexInv, NoOverlap, Reconciling

\* A process that gets an application's mutex out of the map preserves MutexInv.
LEMMA GetLockKeepsMutex ==
  ASSUME TypeInv, MutexInv, NEW p \in Procs, NEW a \in Apps,
         pc[p] \in {"idle", "dequeued"},
         pc' = [pc EXCEPT ![p] = "locking"],
         job' = [job EXCEPT ![p] = a],
         getAppLock(p),
         UNCHANGED <<leaving, plan>>
  PROVE  MutexInv'
<1>1. job'[p] = a
  BY DEF TypeInv, TypeOK
<1>2. /\ appLocks'[a] # 0
      /\ lock' = [lock EXCEPT ![p] = appLocks'[a]]
      /\ \A b \in Apps : b # a \/ appLocks[a] # 0 => appLocks'[b] = appLocks[b]
  BY <1>1 DEF getAppLock, TypeInv, TypeOK, lockVars
<1>3. ASSUME NEW q \in Procs, pc'[q] \in {"locking", "reconciling"},
             job'[q] \in Apps \ Removable
      PROVE  lock'[q] # 0 /\ lock'[q] = appLocks'[job'[q]]
  <2>1. CASE q = p
    BY <1>1, <1>2, <2>1 DEF TypeInv, TypeOK
  <2>2. CASE q # p
    <3>1. /\ pc[q] \in {"locking", "reconciling"}
          /\ job'[q] = job[q] /\ lock'[q] = lock[q]
      BY <1>2, <1>3, <2>2 DEF TypeInv, TypeOK
    <3>2. lock[q] # 0 /\ lock[q] = appLocks[job[q]]
      BY <1>3, <3>1 DEF MutexInv
    <3> QED
      BY <1>2, <1>3, <3>1, <3>2, Zenon
  <2> QED
    BY <2>1, <2>2
<1>4. NoOverlap'
  BY DEF MutexInv, NoOverlap, Reconciling, TypeInv, TypeOK
<1> QED
  BY <1>3, <1>4 DEF MutexInv

\* A process that locks a free mutex is alone with its application.
LEMMA LockKeepsMutex ==
  ASSUME TypeInv, MutexInv, NEW p \in Procs,
         pc[p] = "locking", ~Held(job[p], lock[p]),
         pc' = [pc EXCEPT ![p] = "reconciling"],
         UNCHANGED <<appLocks, job, lock, leaving, plan>>
  PROVE  MutexInv'
<1>1. ASSUME NEW a \in Apps \ Removable, NEW q \in Procs, NEW r \in Procs,
             q \in Reconciling(a)', r \in Reconciling(a)'
      PROVE  q = r
  <2>1. ASSUME NEW s \in Procs, s # p, s \in Reconciling(a)', p \in Reconciling(a)'
        PROVE  FALSE
    <3>1. pc[s] = "reconciling" /\ job[s] = a /\ job[p] = a
      BY <2>1 DEF Reconciling, TypeInv, TypeOK
    <3>2. lock[s] = appLocks[a] /\ lock[p] = appLocks[a]
      BY <3>1 DEF MutexInv
    <3> QED
      BY <3>1, <3>2 DEF Held
  <2>2. ASSUME q # p, r # p PROVE q = r
    BY <1>1, <2>2 DEF MutexInv, NoOverlap, Reconciling, TypeInv, TypeOK
  <2> QED
    BY <1>1, <2>1, <2>2
<1>2. NoOverlap'
  BY <1>1, Zenon DEF NoOverlap, Reconciling
<1>3. \A q \in Procs :
        pc'[q] \in {"locking", "reconciling"} /\ job'[q] \in Apps \ Removable
          => lock'[q] # 0 /\ lock'[q] = appLocks'[job'[q]]
  BY DEF MutexInv, TypeInv, TypeOK
<1> QED
  BY <1>2, <1>3, Zenon DEF MutexInv

\* A process that takes a name, gives its mutex back or finishes preserves
\* MutexInv.
LEMMA LeaveKeepsMutex ==
  ASSUME TypeInv, MutexInv, NEW p \in Procs,
         NEW s \in {"idle", "dequeued", "rescheduling", "exited"},
         NEW b, NEW g,
         pc' = [pc EXCEPT ![p] = s],
         job' = [job EXCEPT ![p] = b] \/ job' = job,
         lock' = [lock EXCEPT ![p] = g] \/ lock' = lock,
         UNCHANGED <<appLocks, leaving, plan>>
  PROVE  MutexInv'
<1>1. \A q \in Procs : pc'[q] \in {"locking", "reconciling"} =>
        q # p /\ pc'[q] = pc[q] /\ job'[q] = job[q] /\ lock'[q] = lock[q]
  BY DEF TypeInv, TypeOK
<1>2. NoOverlap'
  BY <1>1 DEF MutexInv, NoOverlap, Reconciling
<1> QED
  BY <1>1, <1>2 DEF MutexInv

\* Every step preserves MutexInv.
LEMMA MutexStep ==
  ASSUME TypeInv, MutexInv, [Next]_vars
  PROVE  MutexInv'
<1>1. CASE ResetTimer \/ ReceiveTrigger \/ ConfigDone \/ CollectDue \/ LoopAgain \/ SchedulerExits
  <2>1. UNCHANGED <<leaving, plan, lockVars, procVars>>
    BY <1>1 DEF ResetTimer, ReceiveTrigger, ConfigDone, CollectDue, LoopAgain, SchedulerExits
  <2> QED
    BY <2>1, MutexFrame, Zenon DEF MutexInv, lockVars, procVars
<1>2. CASE Cancel \/ UNCHANGED vars
  BY <1>2, MutexFrame, Zenon DEF Cancel, vars, MutexInv, loopVars, lockVars, procVars
<1>3. CASE TimerFires
  <2>1. plan'.gone \subseteq Removable
    BY <1>3 DEF TimerFires
  <2>2. UNCHANGED <<leaving, lockVars, procVars>>
    BY <1>3 DEF TimerFires
  <2> QED
    BY <2>1, <2>2, MutexFrame, Zenon DEF MutexInv, lockVars, procVars
<1>u. CASE Unschedule
  BY <1>u, MutexFrame, Zenon DEF Unschedule, MutexInv, lockVars, procVars
<1>4. CASE DropLock
  <2>1. leaving \in Removable /\ leaving' = NoApp
    BY <1>4, Zenon DEF DropLock, MutexInv
  <2>2. \A b \in Apps \ Removable : appLocks'[b] = appLocks[b]
    BY <1>4, <2>1 DEF DropLock, TypeInv, TypeOK
  <2> QED
    BY <1>4, <2>1, <2>2, SMTT(60) DEF DropLock, MutexInv, NoOverlap, Reconciling, procVars
<1>5. ASSUME NEW a \in Apps, ConfigRegister(a) \/ ConfigUpdate(a) PROVE MutexInv'
  <2>1. plan'.gone = plan.gone
    BY <1>5 DEF ConfigRegister, ConfigUpdate, TypeInv, TypeOK
  <2> QED
    BY <1>5, <2>1, MutexFrame DEF ConfigRegister, ConfigUpdate, MutexInv, lockVars, procVars
<1>6. ASSUME NEW a \in Apps, ConfigRemove(a) PROVE MutexInv'
  <2>1. plan'.gone \subseteq plan.gone
    BY <1>6 DEF ConfigRemove, TypeInv, TypeOK
  <2>2. leaving' \in Removable \cup {NoApp}
    BY <1>6 DEF ConfigRemove, MutexInv
  <2> QED
    BY <1>6, <2>1, <2>2, MutexFrame DEF ConfigRemove, MutexInv, lockVars, procVars
<1>7. ASSUME NEW a \in Apps,
             EnqueueDue(a) \/ TimePasses(a) \/ TriggerReconcile(a) \/ ApiCreate(a) \/ ApiDelete(a)
      PROVE  MutexInv'
  BY <1>7, MutexFrame, Zenon DEF EnqueueDue, TimePasses, TriggerReconcile, ApiCreate, ApiDelete,
     MutexInv, loopVars, lockVars, procVars
<1>8. ASSUME NEW w \in Workers,
             Dequeue(w) \/ WorkerUnlocks(w) \/ reschedule(w) \/ WorkerExits(w)
      PROVE  MutexInv'
  <2>1. w \in Procs
    BY DEF Procs
  <2>2. CASE Dequeue(w)
    BY <2>1, <2>2, LeaveKeepsMutex, Zenon DEF Dequeue, loopVars, lockVars
  <2>3. CASE WorkerUnlocks(w)
    BY <2>1, <2>3, LeaveKeepsMutex, Zenon DEF WorkerUnlocks, loopVars, lockVars
  <2>4. CASE reschedule(w)
    BY <2>1, <2>4, LeaveKeepsMutex, Zenon DEF reschedule, loopVars, lockVars
  <2>5. CASE WorkerExits(w)
    BY <2>1, <2>5, LeaveKeepsMutex, Zenon DEF WorkerExits, loopVars, lockVars
  <2> QED
    BY <1>8, <2>2, <2>3, <2>4, <2>5
<1>9. ASSUME NEW w \in Workers, WorkerGetsLock(w) PROVE MutexInv'
  <2>1. w \in Procs /\ job[w] \in Apps
    BY <1>9, Zenon DEF WorkerGetsLock, TypeInv, TypeOK, BusyHasJob, Procs
  <2>2. job' = [job EXCEPT ![w] = job[w]]
    BY <1>9 DEF WorkerGetsLock, TypeInv, TypeOK
  <2> QED
    BY <1>9, <2>1, <2>2, GetLockKeepsMutex, Zenon DEF WorkerGetsLock, loopVars
<1>10. ASSUME NEW w \in Workers, TryLock(w) PROVE MutexInv'
  <2>1. w \in Procs
    BY DEF Procs
  <2>2. CASE Held(job[w], lock[w])
    BY <1>10, <2>1, <2>2, LeaveKeepsMutex DEF TryLock, loopVars, lockVars
  <2>3. CASE ~Held(job[w], lock[w])
    BY <1>10, <2>1, <2>3, LockKeepsMutex DEF TryLock, loopVars, lockVars
  <2> QED
    BY <2>2, <2>3
<1>11. ASSUME NEW c \in Callers, NEW a \in Apps, CallerGetsLock(c, a) PROVE MutexInv'
  BY <1>11, GetLockKeepsMutex, Zenon DEF CallerGetsLock, loopVars, Procs
<1>12. ASSUME NEW c \in Callers, CallerLocks(c) PROVE MutexInv'
  BY <1>12, LockKeepsMutex, Zenon DEF CallerLocks, loopVars, lockVars, Procs
<1>13. ASSUME NEW c \in Callers, CallerUnlocks(c) PROVE MutexInv'
  BY <1>13, LeaveKeepsMutex, Zenon DEF CallerUnlocks, loopVars, lockVars, Procs
<1> QED
  BY NextCases, <1>1, <1>2, <1>3, <1>u, <1>4, <1>5, <1>6, <1>7, <1>8, <1>9, <1>10, <1>11, <1>12, <1>13

\* MutexInv holds in every reachable state.
LEMMA MutexInvariant == Spec => []MutexInv
<1>1. Init => MutexInv
  BY DEF Init, MutexInv, NoOverlap, Reconciling, NoPlan
<1> QED
  BY <1>1, TypeInvariant, MutexStep, PTL DEF Spec

\* An application that config sync never removes is reconciled by one process
\* at a time: a worker's poll, a manual sync or a rollback.
THEOREM MutualExclusion == Spec => []NoOverlap
  BY MutexInvariant, PTL DEF MutexInv

-----------------------------------------------------------------------------
(* The queued marks *)

\* AtMostOnceQueued and QueuedIsCarried are inductive once enqueueDueApps is
\* known to start from an empty list.
TokenInv ==
  /\ sched # "send" => due = {}
  /\ AtMostOnceQueued
  /\ QueuedIsCarried

\* What the worker that receives from the work queue and the scheduler that
\* sends to it do to the positions of the names.
LEMMA TailPositions ==
  ASSUME NEW q \in Seq(Apps), q # <<>>
  PROVE  /\ Head(q) = q[1] /\ 1 \in 1..Len(q) /\ Head(q) \in Apps
         /\ \A i \in 1..Len(Tail(q)) : i + 1 \in 1..Len(q) /\ Tail(q)[i] = q[i + 1]
         /\ \A i \in 1..Len(q) : i # 1 => i - 1 \in 1..Len(Tail(q)) /\ Tail(q)[i - 1] = q[i]
  OBVIOUS

\* Append adds one position and leaves the others.
LEMMA AppendPositions ==
  ASSUME NEW q \in Seq(Apps), NEW a \in Apps
  PROVE  /\ Len(q) + 1 \in 1..Len(Append(q, a)) /\ Append(q, a)[Len(q) + 1] = a
         /\ \A i \in 1..Len(q) : i \in 1..Len(Append(q, a)) /\ Append(q, a)[i] = q[i]
         /\ \A i \in 1..Len(Append(q, a)) : i = Len(q) + 1 \/ i \in 1..Len(q)
  OBVIOUS

\* A step that moves no name and changes no mark preserves TokenInv.
LEMMA TokenFrame ==
  ASSUME TokenInv, UNCHANGED <<queued, due, workQueue, missed>>,
         \A w \in Workers : job'[w] = job[w],
         sched' # "send" => due = {}
  PROVE  TokenInv'
<1>1. \A b \in Apps : InQueue(b)' = InQueue(b) /\ InHand(b)' = InHand(b)
  BY DEF InQueue, InHand
<1>2. AtMostOnceQueued'
  BY <1>1, ZenonT(60) DEF TokenInv, AtMostOnceQueued
<1>3. QueuedIsCarried'
  BY <1>1, Zenon DEF TokenInv, QueuedIsCarried
<1> QED
  BY <1>2, <1>3 DEF TokenInv

\* enqueueDueApps collects names that nobody carries, and marks them.
LEMMA CollectKeepsTokens ==
  ASSUME TypeInv, TokenInv, CollectDue
  PROVE  TokenInv'
<1>1. /\ due = {} /\ due' \cap queued = {} /\ queued' = queued \cup due'
      /\ UNCHANGED <<workQueue, job, missed>> /\ sched' = "send"
  BY SMTT(60) DEF CollectDue, TokenInv, Unqueued, procVars
<1>2. \A a \in Apps : InQueue(a)' = InQueue(a) /\ InHand(a)' = InHand(a)
  BY <1>1 DEF InQueue, InHand
<1>3. AtMostOnceQueued'
  BY <1>1, <1>2, Zenon DEF TokenInv, AtMostOnceQueued
<1>4. QueuedIsCarried'
  BY <1>1, <1>2 DEF TokenInv, QueuedIsCarried
<1> QED
  BY <1>1, <1>3, <1>4 DEF TokenInv

\* A name that is sent moves into the queue; one that is refused loses its mark.
LEMMA EnqueueKeepsTokens ==
  ASSUME TypeInv, TokenInv, NEW a \in Apps, EnqueueDue(a)
  PROVE  TokenInv'
<1>1. /\ sched = "send" /\ sched' = "send" /\ a \in due /\ due' = due \ {a}
      /\ UNCHANGED <<job, missed>>
  BY DEF EnqueueDue, procVars
<1>2. \A b \in Apps : InHand(b)' = InHand(b)
  BY <1>1 DEF InHand
<1>3. CASE Len(workQueue) < QueueCap
  <2>1. workQueue' = Append(workQueue, a) /\ queued' = queued
    BY <1>3 DEF EnqueueDue, schedVars
  <2>2. workQueue \in Seq(Apps)
    BY DEF TypeInv, TypeOK
  <2>3. \A b \in Apps : InQueue(b)' <=> b = a \/ InQueue(b)
    BY <2>1, <2>2, AppendPositions DEF InQueue
  <2>4. ASSUME NEW b \in Apps \ Removable, NEW i \in 1..Len(workQueue'),
               NEW j \in 1..Len(workQueue'), workQueue'[i] = b, workQueue'[j] = b
        PROVE  i = j
    <3>1. CASE b = a
      <4>1. ~InQueue(a)
        BY <1>1, <3>1, Zenon DEF TokenInv, AtMostOnceQueued
      <4> QED
        BY <2>1, <2>2, <2>4, <3>1, <4>1, AppendPositions DEF InQueue
    <3>2. CASE b # a
      BY <2>1, <2>2, <2>4, <3>2, AppendPositions, SMTT(60) DEF TokenInv, AtMostOnceQueued
    <3> QED
      BY <3>1, <3>2
  <2>5. AtMostOnceQueued'
    BY <1>1, <1>2, <2>1, <2>3, <2>4, ZenonT(60) DEF TokenInv, AtMostOnceQueued
  <2>6. QueuedIsCarried'
    BY <1>1, <1>2, <2>1, <2>3 DEF TokenInv, QueuedIsCarried
  <2> QED
    BY <1>1, <2>5, <2>6 DEF TokenInv
<1>4. CASE ~(Len(workQueue) < QueueCap)
  <2>1. workQueue' = workQueue /\ queued' = queued \ {a}
    BY <1>4 DEF EnqueueDue
  <2>2. \A b \in Apps : InQueue(b)' = InQueue(b)
    BY <2>1 DEF InQueue
  <2>3. AtMostOnceQueued'
    BY <1>1, <1>2, <2>1, <2>2, SMTT(60) DEF TokenInv, AtMostOnceQueued
  <2>4. QueuedIsCarried'
    BY <1>1, <1>2, <2>1, <2>2 DEF TokenInv, QueuedIsCarried
  <2> QED
    BY <1>1, <2>3, <2>4 DEF TokenInv
<1> QED
  BY <1>3, <1>4

\* A name that is received moves from the queue into one worker's hands.
LEMMA DequeueKeepsTokens ==
  ASSUME TypeInv, TokenInv, NEW w \in Workers, Dequeue(w)
  PROVE  TokenInv'
<1> DEFINE h == Head(workQueue)
<1>1. /\ workQueue \in Seq(Apps) /\ workQueue # <<>> /\ workQueue' = Tail(workQueue)
      /\ job' = [job EXCEPT ![w] = h]
      /\ UNCHANGED <<queued, due, sched, missed>>
  BY Zenon DEF Dequeue, TypeInv, TypeOK, schedVars, loopVars
<1>2. job[w] = NoApp /\ h \in Apps /\ w \in Procs
  BY <1>1, TailPositions DEF Dequeue, TypeInv, BusyHasJob, Procs
<1>3. job'[w] = h /\ \A v \in Workers : v # w => job'[v] = job[v]
  BY <1>1, <1>2 DEF TypeInv, TypeOK, Procs
<1>4. \A b \in Apps : InHand(b)' <=> b = h \/ InHand(b)
  BY <1>2, <1>3, SchedulerAssumption, Zenon DEF InHand
<1>5. ASSUME NEW b \in Apps, InQueue(b) PROVE b = h \/ InQueue(b)'
  <2>1. PICK i \in 1..Len(workQueue) : workQueue[i] = b
    BY <1>5 DEF InQueue
  <2>2. i = 1 => b = h
    BY <1>1, <2>1, TailPositions
  <2>3. i # 1 => i - 1 \in 1..Len(workQueue') /\ workQueue'[i - 1] = b
    BY <1>1, <2>1, TailPositions, Zenon
  <2> QED
    BY <2>2, <2>3 DEF InQueue
<1>6. \A b \in Apps : InQueue(b)' => InQueue(b)
  BY <1>1, TailPositions DEF InQueue
<1>7. InQueue(h)
  BY <1>1, TailPositions DEF InQueue
<1>8. ASSUME NEW b \in Apps \ Removable, b = h PROVE ~InQueue(b)'
  <2> SUFFICES ASSUME NEW i \in 1..Len(workQueue'), workQueue'[i] = b PROVE FALSE
    BY DEF InQueue
  <2>1. i + 1 \in 1..Len(workQueue) /\ workQueue[i + 1] = b /\ workQueue[1] = b
        /\ 1 \in 1..Len(workQueue) /\ i \in Nat /\ i # 0
    BY <1>1, <1>8, TailPositions
  <2>2. i + 1 = 1
    BY <2>1, Zenon DEF TokenInv, AtMostOnceQueued
  <2> QED
    BY <2>1, <2>2
<1>9. ASSUME NEW b \in Apps \ Removable, NEW i \in 1..Len(workQueue'),
             NEW j \in 1..Len(workQueue'), workQueue'[i] = b, workQueue'[j] = b
      PROVE  i = j
  <2>1. /\ i + 1 \in 1..Len(workQueue) /\ workQueue[i + 1] = b
        /\ j + 1 \in 1..Len(workQueue) /\ workQueue[j + 1] = b
        /\ i \in Nat /\ j \in Nat
    BY <1>1, <1>9, TailPositions
  <2>2. i + 1 = j + 1
    BY <2>1, Zenon DEF TokenInv, AtMostOnceQueued
  <2> QED
    BY <2>1, <2>2
<1>10. ASSUME NEW b \in Apps \ Removable, NEW u \in Workers, NEW v \in Workers,
              job'[u] = b, job'[v] = b
       PROVE  u = v
  <2>1. b = h => ~InHand(b)
    BY <1>7, Zenon DEF TokenInv, AtMostOnceQueued
  <2> QED
    BY <1>3, <1>10, <2>1, Zenon DEF TokenInv, AtMostOnceQueued, InHand
<1> HIDE DEF h
<1>11. AtMostOnceQueued'
  <2>1. ASSUME NEW b \in Apps \ Removable, b \in due'
        PROVE  ~InQueue(b)' /\ ~InHand(b)'
    BY <1>1, <1>4, <1>6, <1>7, <2>1, Zenon DEF TokenInv, AtMostOnceQueued
  <2>2. ASSUME NEW b \in Apps \ Removable, InQueue(b)' PROVE ~InHand(b)'
    BY <1>4, <1>6, <1>8, <2>2, Zenon DEF TokenInv, AtMostOnceQueued
  <2>3. ASSUME NEW b \in Apps \ Removable, b \in due' \/ InQueue(b)' \/ InHand(b)'
        PROVE  b \in queued'
    BY <1>1, <1>4, <1>6, <1>7, <2>3, Zenon DEF TokenInv, AtMostOnceQueued
  <2> QED
    BY <1>9, <1>10, <2>1, <2>2, <2>3, Zenon DEF AtMostOnceQueued
<1>12. QueuedIsCarried'
  BY <1>1, <1>4, <1>5 DEF TokenInv, QueuedIsCarried
<1> QED
  BY <1>1, <1>11, <1>12 DEF TokenInv

\* A worker that lets go of its application, either because TryLock failed, which
\* leaves the mark, or because it reschedules it, which clears the mark.
LEMMA ReleaseKeepsTokens ==
  ASSUME TypeInv, TokenInv, NEW w \in Workers, NEW a \in Apps, job[w] = a,
         job' = [job EXCEPT ![w] = NoApp],
         \/ queued' = queued \ {a} /\ missed' = missed
         \/ queued' = queued /\ missed' = missed \cup {a},
         UNCHANGED <<due, workQueue, sched>>
  PROVE  TokenInv'
<1>1. \A v \in Workers : job'[v] = IF v = w THEN NoApp ELSE job[v]
  BY Zenon DEF TypeInv, TypeOK, Procs
<1>2. InHand(a) /\ \A b \in Apps : InHand(b)' => InHand(b)
  BY <1>1, SchedulerAssumption DEF InHand
<1>3. \A b \in Apps : b # a /\ InHand(b) => InHand(b)'
  BY <1>1 DEF InHand
<1>4. a \notin Removable => ~InHand(a)'
  BY <1>1, SchedulerAssumption, SMTT(60) DEF InHand, TokenInv, AtMostOnceQueued
<1>5. \A b \in Apps : InQueue(b)' = InQueue(b)
  BY DEF InQueue
<1>6. a \notin Removable => a \notin due /\ ~InQueue(a)
  BY <1>2, Zenon DEF TokenInv, AtMostOnceQueued
<1>7. AtMostOnceQueued'
  <2>1. \A b \in Apps \ Removable : \A u, v \in Workers : job'[u] = b /\ job'[v] = b => u = v
    BY <1>1, SchedulerAssumption, SMTT(60) DEF TokenInv, AtMostOnceQueued
  <2>2. \A b \in Apps \ Removable : b \in due' \/ InQueue(b)' \/ InHand(b)' => b \in queued'
    BY <1>2, <1>4, <1>5, <1>6 DEF TokenInv, AtMostOnceQueued
  <2> QED
    BY <1>2, <1>5, <2>1, <2>2, Zenon DEF TokenInv, AtMostOnceQueued
<1>8. QueuedIsCarried'
  BY <1>3, <1>5 DEF TokenInv, QueuedIsCarried
<1> QED
  BY <1>7, <1>8 DEF TokenInv

\* Every step preserves TokenInv.
LEMMA TokenStep ==
  ASSUME TypeInv, MutexInv, TokenInv, [Next]_vars
  PROVE  TokenInv'
<1> USE DEF schedVars, loopVars, lockVars, procVars, envVars
<1>1. CASE ResetTimer \/ ReceiveTrigger \/ TimerFires \/ DropLock \/ ConfigDone \/ LoopAgain
           \/ SchedulerExits \/ Cancel \/ UNCHANGED vars
  BY <1>1, TokenFrame, Zenon DEF ResetTimer, ReceiveTrigger, TimerFires, DropLock, ConfigDone,
     LoopAgain, SchedulerExits, Cancel, vars, TokenInv
<1>2. CASE CollectDue
  BY <1>2, CollectKeepsTokens
<1>3. ASSUME NEW a \in Apps,
             \/ ConfigRegister(a) \/ ConfigUpdate(a) \/ TimePasses(a) \/ TriggerReconcile(a)
             \/ ApiCreate(a) \/ ApiDelete(a)
      PROVE  TokenInv'
  <2>1. CASE ConfigRegister(a) \/ ConfigUpdate(a)
    BY <2>1, TokenFrame DEF ConfigRegister, ConfigUpdate, TokenInv
  <2>2. CASE TimePasses(a) \/ TriggerReconcile(a)
    BY <2>2, TokenFrame, Zenon DEF TimePasses, TriggerReconcile, TokenInv
  <2>3. CASE ApiCreate(a) \/ ApiDelete(a)
    BY <2>3, TokenFrame, Zenon DEF ApiCreate, ApiDelete, TokenInv
  <2> QED
    BY <1>3, <2>1, <2>2, <2>3
<1>r. ASSUME NEW a \in Apps, ConfigRemove(a) PROVE TokenInv'
  <2>1. UNCHANGED <<due, workQueue, job, missed, queued>> /\ sched' # "send" /\ sched # "send"
    BY <1>r, Zenon DEF ConfigRemove
  <2> QED
    BY <2>1, TokenFrame, Zenon DEF TokenInv
<1>4. CASE Unschedule
  <2>1. leaving \in Removable /\ queued' = queued \ {leaving}
    BY <1>4, Zenon DEF Unschedule, MutexInv
  <2>2. UNCHANGED <<due, workQueue, job, missed>> /\ sched' # "send" /\ sched # "send"
    BY <1>4, Zenon DEF Unschedule
  <2>3. \A b \in Apps : InQueue(b)' = InQueue(b) /\ InHand(b)' = InHand(b)
    BY <2>2 DEF InQueue, InHand
  <2>4. AtMostOnceQueued'
    BY <2>1, <2>2, <2>3, Zenon DEF TokenInv, AtMostOnceQueued
  <2>5. QueuedIsCarried'
    BY <2>1, <2>2, <2>3 DEF TokenInv, QueuedIsCarried
  <2> QED
    BY <2>2, <2>4, <2>5 DEF TokenInv
<1>5. ASSUME NEW a \in Apps, EnqueueDue(a) PROVE TokenInv'
  BY <1>5, EnqueueKeepsTokens
<1>6. ASSUME NEW w \in Workers, Dequeue(w) PROVE TokenInv'
  BY <1>6, DequeueKeepsTokens
<1>7. ASSUME NEW w \in Workers, WorkerGetsLock(w) \/ WorkerUnlocks(w) \/ WorkerExits(w)
      PROVE  TokenInv'
  <2>1. CASE WorkerGetsLock(w)
    BY <2>1, TokenFrame, Zenon DEF WorkerGetsLock, TokenInv
  <2>2. CASE WorkerUnlocks(w)
    BY <2>2, TokenFrame, Zenon DEF WorkerUnlocks, TokenInv
  <2>3. CASE WorkerExits(w)
    BY <2>3, TokenFrame, Zenon DEF WorkerExits, TokenInv
  <2> QED
    BY <1>7, <2>1, <2>2, <2>3
<1>8. ASSUME NEW w \in Workers, TryLock(w) PROVE TokenInv'
  <2>1. job[w] \in Apps
    BY <1>8, Zenon DEF TryLock, TypeInv, TypeOK, BusyHasJob, Procs
  <2>2. CASE Held(job[w], lock[w])
    BY <1>8, <2>1, <2>2, ReleaseKeepsTokens, Zenon DEF TryLock
  <2>3. CASE ~Held(job[w], lock[w])
    BY <1>8, <2>3, TokenFrame, Zenon DEF TryLock, TokenInv
  <2> QED
    BY <2>2, <2>3
<1>9. ASSUME NEW w \in Workers, reschedule(w) PROVE TokenInv'
  <2>1. job[w] \in Apps
    BY <1>9, Zenon DEF reschedule, TypeInv, TypeOK, BusyHasJob, Procs
  <2> QED
    BY <1>9, <2>1, ReleaseKeepsTokens, Zenon DEF reschedule
<1>10. ASSUME NEW c \in Callers,
              \/ \E a \in Apps : CallerGetsLock(c, a)
              \/ CallerLocks(c) \/ CallerUnlocks(c)
       PROVE  TokenInv'
  <2>1. \A w \in Workers : job'[w] = job[w]
    BY <1>10, SchedulerAssumption, SMTT(60)
    DEF CallerGetsLock, CallerLocks, CallerUnlocks, TypeInv, TypeOK, Procs
  <2> QED
    BY <1>10, <2>1, TokenFrame, Zenon DEF CallerGetsLock, CallerLocks, CallerUnlocks, TokenInv
<1> QED
  BY NextCases, <1>1, <1>2, <1>3, <1>r, <1>4, <1>5, <1>6, <1>7, <1>8, <1>9, <1>10, Zenon

\* TokenInv holds in every reachable state.
LEMMA TokenInvariant == Spec => []TokenInv
<1>1. Init => TokenInv
  <2> SUFFICES ASSUME Init PROVE TokenInv
    OBVIOUS
  <2>1. due = {} /\ queued = {} /\ workQueue = <<>>
    BY DEF Init
  <2>2. \A a \in Apps : ~InQueue(a)
    BY <2>1 DEF InQueue
  <2>3. \A a \in Apps : ~InHand(a)
    BY SchedulerAssumption, Zenon DEF Init, InHand, Procs
  <2>4. AtMostOnceQueued
    BY <2>1, <2>2, <2>3 DEF AtMostOnceQueued, InQueue, InHand
  <2> QED
    BY <2>1, <2>4 DEF TokenInv, QueuedIsCarried
<1> QED
  BY <1>1, TypeInvariant, MutexInvariant, TokenStep, PTL DEF Spec

\* An application config sync never removes is at most once on its way to a
\* worker, whatever the number of workers, triggers and queue overflows.
THEOREM QueuedAtMostOnce == Spec => []AtMostOnceQueued
  BY TokenInvariant, PTL DEF TokenInv

\* A queued mark without a worker, queue slot or pending send behind it exists
\* only after a failed TryLock: no other path loses an application.
THEOREM QueuedMarkIsBacked == Spec => []QueuedIsCarried
  BY TokenInvariant, PTL DEF TokenInv

-----------------------------------------------------------------------------
(* The scheduler does not spin *)

\* What nextWakeTime found due stays unqueued and due until it is collected.
LEMMA BusyLoopStep ==
  ASSUME TypeInv, MutexInv, TokenInv, NoBusyLoop, [Next]_vars
  PROVE  NoBusyLoop'
<1> USE DEF schedVars, loopVars, lockVars, procVars, envVars
<1> SUFFICES ASSUME Removable = {}, wake' = "due", sched' \in {"select", "config", "collect"}
             PROVE  \E a \in Apps \ queued' : schedule'[a] = "due"
  BY Zenon DEF NoBusyLoop, Unqueued
<1> DEFINE Waiting(a) == a \in Apps \ queued /\ schedule[a] = "due"
           Stays == \A b \in Apps : Waiting(b) => b \notin queued' /\ schedule'[b] = "due"
<1>1. CASE ResetTimer
  <2>1. \E a \in Unqueued : schedule[a] = "due"
    BY <1>1 DEF ResetTimer, nextWakeTime
  <2> QED
    BY <1>1, <2>1 DEF ResetTimer, Unqueued
<1>2. ASSUME Stays, wake = "due", sched \in {"select", "config", "collect"}
      PROVE  \E a \in Apps \ queued' : schedule'[a] = "due"
  BY <1>2, Zenon DEF NoBusyLoop, Unqueued
<1>3. CASE \/ ReceiveTrigger \/ TimerFires \/ DropLock \/ ConfigDone \/ Cancel \/ UNCHANGED vars
           \/ \E a \in Apps : \/ ConfigRegister(a) \/ ConfigUpdate(a) \/ TimePasses(a)
                              \/ TriggerReconcile(a) \/ ApiCreate(a) \/ ApiDelete(a)
  <2>1. queued' = queued /\ wake' = wake
    BY <1>3, Zenon DEF ReceiveTrigger, TimerFires, DropLock, ConfigDone, Cancel, vars,
       ConfigRegister, ConfigUpdate, TimePasses, TriggerReconcile, ApiCreate, ApiDelete
  <2>2. sched \in {"select", "config", "collect"}
    BY <1>3, Zenon DEF ReceiveTrigger, TimerFires, DropLock, ConfigDone, Cancel, vars,
       ConfigRegister, ConfigUpdate, TimePasses, TriggerReconcile, ApiCreate, ApiDelete
  <2>3. \A b \in Apps : schedule[b] = "due" => schedule'[b] = "due"
    BY <1>3, SMTT(60) DEF ReceiveTrigger, TimerFires, DropLock, ConfigDone, Cancel, vars,
       ConfigRegister, ConfigUpdate, TimePasses, TriggerReconcile, ApiCreate, ApiDelete,
       TypeInv, TypeOK
  <2> QED
    BY <1>2, <2>1, <2>2, <2>3, Zenon
<1>4. CASE CollectDue \/ LoopAgain \/ SchedulerExits
  BY <1>4, Zenon DEF CollectDue, LoopAgain, SchedulerExits
<1>5. ASSUME Unschedule \/ \E a \in Apps : ConfigRemove(a) \/ EnqueueDue(a) PROVE FALSE
  BY <1>5 DEF Unschedule, ConfigRemove, EnqueueDue, MutexInv
<1>6. ASSUME NEW w \in Workers,
             \/ Dequeue(w) \/ WorkerGetsLock(w) \/ TryLock(w) \/ WorkerUnlocks(w) \/ WorkerExits(w)
      PROVE  \E a \in Apps \ queued' : schedule'[a] = "due"
  <2>1. CASE Dequeue(w) \/ WorkerGetsLock(w)
    BY <1>2, <2>1, Zenon DEF Dequeue, WorkerGetsLock
  <2>2. CASE WorkerUnlocks(w) \/ WorkerExits(w)
    BY <1>2, <2>2, Zenon DEF WorkerUnlocks, WorkerExits
  <2>3. CASE TryLock(w)
    BY <1>2, <2>3, Zenon DEF TryLock
  <2> QED
    BY <1>6, <2>1, <2>2, <2>3
<1>7. ASSUME NEW w \in Workers, reschedule(w)
      PROVE  \E a \in Apps \ queued' : schedule'[a] = "due"
  <2>1. job[w] \in Apps
    BY <1>7, Zenon DEF reschedule, TypeInv, TypeOK, BusyHasJob, Procs
  <2>2. job[w] \in queued
    BY <2>1, Zenon DEF TokenInv, AtMostOnceQueued, InHand
  <2> QED
    BY <1>2, <1>7, <2>1, <2>2, Zenon DEF reschedule, TypeInv, TypeOK
<1>8. ASSUME NEW c \in Callers,
             \/ \E a \in Apps : CallerGetsLock(c, a)
             \/ CallerLocks(c) \/ CallerUnlocks(c)
      PROVE  \E a \in Apps \ queued' : schedule'[a] = "due"
  BY <1>2, <1>8, Zenon DEF CallerGetsLock, CallerLocks, CallerUnlocks
<1> QED
  BY NextCases, <1>1, <1>3, <1>4, <1>5, <1>6, <1>7, <1>8, Zenon

\* Without removals, a timer set to fire at once always finds an application to
\* enqueue: the scheduler loop cannot spin, whatever the workers do meanwhile.
THEOREM NoSpin == Spec => []NoBusyLoop
<1>1. Init => NoBusyLoop
  BY DEF Init, NoBusyLoop
<1> QED
  BY <1>1, TypeInvariant, MutexInvariant, TokenInvariant, BusyLoopStep, PTL DEF Spec

-----------------------------------------------------------------------------
(* The scheduler implements JobCycle *)

Pollable == Apps \ Removable
Phases == [a \in Pollable |-> JobPhase(a)]

\* Who carries a job, whether it is on its way and whether it is marked decide its phase.
LEMMA SamePhase ==
  ASSUME NEW b,
         \A w \in Workers : /\ job'[w] = b <=> job[w] = b
                            /\ job[w] = b => pc'[w] = pc[w],
         b \in due' \/ InQueue(b)' <=> b \in due \/ InQueue(b),
         b \in queued' <=> b \in queued
  PROVE  JobPhase(b)' = JobPhase(b)
<1>1. (\E w \in Workers : job[w] = b /\ pc[w] = "reconciling")'
        <=> (\E w \in Workers : job[w] = b /\ pc[w] = "reconciling")
  BY Zenon
<1>2. (\E w \in Workers : job[w] = b /\ pc[w] = "rescheduling")'
        <=> (\E w \in Workers : job[w] = b /\ pc[w] = "rescheduling")
  BY Zenon
<1>3. InHand(b)' <=> InHand(b)
  BY Zenon DEF InHand
<1> QED
  BY <1>1, <1>2, <1>3, Zenon DEF JobPhase

\* A job in hand is as far as the one worker that has it.
LEMMA HandPhase ==
  ASSUME TokenInv, NEW a \in Pollable, NEW w \in Workers, job[w] = a
  PROVE  JobPhase(a) = IF pc[w] = "reconciling" THEN "running"
                       ELSE IF pc[w] = "rescheduling" THEN "ending" ELSE "taken"
<1>1. \A v \in Workers : job[v] = a => v = w
  BY Zenon DEF TokenInv, AtMostOnceQueued, Pollable
<1> QED
  BY <1>1, Zenon DEF JobPhase, InHand

\* The same of the state a step leads to.
LEMMA HandPhaseNext ==
  ASSUME TokenInv', NEW a \in Pollable, NEW w \in Workers, job'[w] = a
  PROVE  JobPhase(a)' = IF pc'[w] = "reconciling" THEN "running"
                        ELSE IF pc'[w] = "rescheduling" THEN "ending" ELSE "taken"
<1>1. \A v \in Workers : job'[v] = a => v = w
  BY Zenon DEF TokenInv, AtMostOnceQueued, Pollable
<1> QED
  BY <1>1, Zenon DEF JobPhase, InHand

\* A job in nobody's hands waits if it is on its way, and else its mark tells.
LEMMA FreePhase ==
  ASSUME NEW a, ~InHand(a)
  PROVE  JobPhase(a) = IF a \in due \/ InQueue(a) THEN "waiting"
                       ELSE IF a \in queued THEN "skipped" ELSE "idle"
  BY Zenon DEF JobPhase, InHand

\* The same of the state a step leads to.
LEMMA FreePhaseNext ==
  ASSUME NEW a, ~InHand(a)'
  PROVE  JobPhase(a)' = IF a \in due' \/ InQueue(a)' THEN "waiting"
                        ELSE IF a \in queued' THEN "skipped" ELSE "idle"
  BY Zenon DEF JobPhase, InHand

\* Where no phase changes the cycle stutters.
LEMMA NoMove ==
  ASSUME \A b \in Pollable : JobPhase(b)' = JobPhase(b)
  PROVE  Phases' = Phases
  BY Zenon DEF Phases

\* A step of one job along an edge of the cycle is a step of JobCycle.
LEMMA OneMove ==
  ASSUME NEW a \in Pollable, \A b \in Pollable \ {a} : JobPhase(b)' = JobPhase(b),
         \/ JobPhase(a) = "waiting" /\ JobPhase(a)' = "idle"
         \/ JobPhase(a) = "waiting" /\ JobPhase(a)' = "taken"
         \/ JobPhase(a) = "taken" /\ JobPhase(a)' = "skipped"
         \/ JobPhase(a) = "taken" /\ JobPhase(a)' = "running"
         \/ JobPhase(a) = "running" /\ JobPhase(a)' = "ending"
         \/ JobPhase(a) = "ending" /\ JobPhase(a)' = "idle"
  PROVE  Cycle!Next
<1>1. Phases[a] = JobPhase(a)
  BY Zenon DEF Phases
<1>2. Phases' = [Phases EXCEPT ![a] = JobPhase(a)']
  BY Zenon DEF Phases
<1>3. \/ Cycle!Move(a, "waiting", "idle") \/ Cycle!Move(a, "waiting", "taken")
      \/ Cycle!Move(a, "taken", "skipped") \/ Cycle!Move(a, "taken", "running")
      \/ Cycle!Move(a, "running", "ending") \/ Cycle!Move(a, "ending", "idle")
  BY <1>1, <1>2, Zenon DEF Cycle!Move, Phases, Pollable
<1> QED
  BY <1>3, Zenon DEF Cycle!Next, Cycle!Refuse, Cycle!Take, Cycle!Skip, Cycle!Run, Cycle!Finish,
     Cycle!Rest, Pollable

\* A step of a worker that keeps its application, or lets it go, moves no other job.
LEMMA OthersStay ==
  ASSUME NEW w \in Workers, NEW b \in Pollable, b # job[w], job'[w] \in {job[w], NoApp},
         \A v \in Workers \ {w} : job'[v] = job[v] /\ pc'[v] = pc[v],
         UNCHANGED <<due, workQueue>>, b \in queued' <=> b \in queued
  PROVE  JobPhase(b)' = JobPhase(b)
<1>1. b # NoApp
  BY SchedulerAssumption, Zenon DEF Pollable
<1>2. \A v \in Workers : (job'[v] = b <=> job[v] = b) /\ (job[v] = b => pc'[v] = pc[v])
  BY <1>1, Zenon
<1>3. InQueue(b)' <=> InQueue(b)
  BY Zenon DEF InQueue
<1> QED
  BY <1>2, <1>3, SamePhase, Zenon

\* Steps that leave the names, the marks and the workers alone.
LEMMA NobodyMoves ==
  ASSUME UNCHANGED <<due, workQueue, queued>>,
         \A w \in Workers : job'[w] = job[w] /\ pc'[w] = pc[w]
  PROVE  Phases' = Phases
<1>1. ASSUME NEW b \in Pollable PROVE JobPhase(b)' = JobPhase(b)
  <2>1. InQueue(b)' <=> InQueue(b)
    BY Zenon DEF InQueue
  <2> QED
    BY <2>1, SamePhase, Zenon
<1> QED
  BY <1>1, NoMove, Zenon

\* enqueueDueApps offers the jobs it collects, which are idle, all at once.
LEMMA CollectOffers ==
  ASSUME TokenInv, CollectDue
  PROVE  Cycle!Next
<1>1. /\ due = {} /\ due' = {a \in Unqueued : schedule[a] = "due"} /\ queued' = queued \cup due'
      /\ UNCHANGED <<workQueue, job, pc>>
  BY Zenon DEF CollectDue, TokenInv, procVars
<1> DEFINE S == due' \cap Pollable
<1>2. ASSUME NEW b \in Pollable PROVE /\ InQueue(b)' <=> InQueue(b)
                                      /\ InHand(b)' <=> InHand(b)
  BY <1>1, Zenon DEF InQueue, InHand
<1>3. ASSUME NEW b \in S PROVE JobPhase(b) = "idle" /\ JobPhase(b)' = "waiting"
  <2>1. b \in Pollable /\ b \notin queued /\ b \in due'
    BY <1>1, <1>3, Zenon DEF Unqueued
  <2>2. b \notin due /\ ~InQueue(b) /\ ~InHand(b)
    BY <2>1, Zenon DEF TokenInv, AtMostOnceQueued, Pollable
  <2> QED
    BY <1>2, <2>1, <2>2, FreePhase, FreePhaseNext, Zenon
<1>4. ASSUME NEW b \in Pollable, b \notin S PROVE JobPhase(b)' = JobPhase(b)
  BY <1>1, <1>2, <1>4, SamePhase, Zenon
<1>5. /\ \A b \in S : Phases[b] = "idle"
      /\ Phases' = [b \in Pollable |-> IF b \in S THEN "waiting" ELSE Phases[b]]
  BY <1>3, <1>4, Zenon DEF Phases
<1>6. S \in SUBSET Pollable
  BY Zenon
<1> HIDE DEF S
<1> QED
  BY <1>5, <1>6, Zenon DEF Cycle!Next, Cycle!Offer, Phases, Pollable

\* A name that is sent goes on waiting, in the queue; one that is refused is idle again.
LEMMA EnqueueMoves ==
  ASSUME TypeInv, TokenInv, NEW a \in Apps, EnqueueDue(a)
  PROVE  Cycle!Next \/ Phases' = Phases
<1>1. a \in due /\ due' = due \ {a} /\ UNCHANGED <<job, pc>> /\ workQueue \in Seq(Apps)
  BY Zenon DEF EnqueueDue, procVars, TypeInv, TypeOK
<1>2. CASE Len(workQueue) < QueueCap
  <2>1. workQueue' = Append(workQueue, a) /\ queued' = queued
    BY <1>2, Zenon DEF EnqueueDue, schedVars
  <2>2. \A b \in Apps : InQueue(b)' <=> b = a \/ InQueue(b)
    BY <1>1, <2>1, AppendPositions DEF InQueue
  <2>3. ASSUME NEW b \in Pollable PROVE JobPhase(b)' = JobPhase(b)
    BY <1>1, <2>1, <2>2, SamePhase, Zenon DEF Pollable
  <2> QED
    BY <2>3, NoMove, Zenon
<1>3. CASE ~(Len(workQueue) < QueueCap)
  <2>1. workQueue' = workQueue /\ queued' = queued \ {a}
    BY <1>3, Zenon DEF EnqueueDue
  <2>2. ASSUME NEW b \in Pollable PROVE InQueue(b)' <=> InQueue(b)
    BY <2>1, Zenon DEF InQueue
  <2>3. ASSUME NEW b \in Pollable, b # a PROVE JobPhase(b)' = JobPhase(b)
    BY <1>1, <2>1, <2>2, <2>3, SamePhase, Zenon
  <2>4. CASE a \in Pollable
    <3>1. ~InQueue(a) /\ ~InHand(a)
      BY <1>1, <2>4, Zenon DEF TokenInv, AtMostOnceQueued, Pollable
    <3>2. JobPhase(a) = "waiting"
      BY <1>1, <3>1, FreePhase, Zenon
    <3>3. ~InHand(a)' /\ ~InQueue(a)'
      BY <1>1, <2>2, <2>4, <3>1, Zenon DEF InHand
    <3>4. JobPhase(a)' = "idle"
      BY <1>1, <2>1, <3>3, FreePhaseNext, Zenon
    <3> QED
      BY <2>3, <2>4, <3>2, <3>4, OneMove, Zenon
  <2>5. CASE a \notin Pollable
    BY <2>3, <2>5, NoMove, Zenon
  <2> QED
    BY <2>4, <2>5, Zenon
<1> QED
  BY <1>2, <1>3, Zenon

\* A worker that receives a name takes its job, which was waiting in the queue.
LEMMA DequeueMoves ==
  ASSUME TypeInv, TokenInv, TokenInv', NEW w \in Workers, Dequeue(w)
  PROVE  Cycle!Next \/ Phases' = Phases
<1>h. PICK h : h = Head(workQueue)
  BY Zenon
<1>1. /\ workQueue \in Seq(Apps) /\ workQueue # <<>> /\ workQueue' = Tail(workQueue)
      /\ due' = due /\ queued' = queued /\ job[w] = NoApp
  BY Zenon DEF Dequeue, TypeInv, TypeOK, BusyHasJob, Procs, schedVars, loopVars
<1>2. job'[w] = h /\ pc'[w] = "dequeued" /\ \A v \in Workers \ {w} : job'[v] = job[v] /\ pc'[v] = pc[v]
  BY <1>h, Zenon DEF Dequeue, TypeInv, TypeOK, Procs
<1>3. InQueue(h) /\ \A b \in Apps \ {h} : InQueue(b)' <=> InQueue(b)
  <2>1. /\ h = workQueue[1] /\ 1 \in 1..Len(workQueue)
        /\ \A i \in 1..Len(workQueue') :
             i + 1 \in 1..Len(workQueue) /\ workQueue'[i] = workQueue[i + 1]
        /\ \A i \in 1..Len(workQueue) :
             i # 1 => i - 1 \in 1..Len(workQueue') /\ workQueue'[i - 1] = workQueue[i]
    BY <1>h, <1>1, TailPositions, Zenon
  <2>2. ASSUME NEW b, b # h, InQueue(b) PROVE InQueue(b)'
    BY <2>1, <2>2, Zenon DEF InQueue
  <2>3. ASSUME NEW b, InQueue(b)' PROVE InQueue(b)
    BY <2>1, <2>3, Zenon DEF InQueue
  <2> QED
    BY <2>1, <2>2, <2>3, Zenon DEF InQueue
<1>4. ASSUME NEW b \in Pollable, b # h PROVE JobPhase(b)' = JobPhase(b)
  <2>1. b # NoApp /\ b \in Apps
    BY SchedulerAssumption, Zenon DEF Pollable
  <2>2. \A v \in Workers : (job'[v] = b <=> job[v] = b) /\ (job[v] = b => pc'[v] = pc[v])
    BY <1>1, <1>2, <1>4, <2>1, Zenon
  <2>3. InQueue(b)' <=> InQueue(b)
    BY <1>3, <1>4, <2>1, Zenon
  <2> QED
    BY <1>1, <2>2, <2>3, SamePhase, Zenon
<1>5. CASE h \in Pollable
  <2>1. ~InHand(h)
    BY <1>3, <1>5, Zenon DEF TokenInv, AtMostOnceQueued, Pollable
  <2>2. JobPhase(h) = "waiting"
    BY <1>3, <2>1, FreePhase, Zenon
  <2>3. JobPhase(h)' = IF pc'[w] = "reconciling" THEN "running"
                       ELSE IF pc'[w] = "rescheduling" THEN "ending" ELSE "taken"
    BY <1>2, <1>5, HandPhaseNext, Zenon
  <2>4. JobPhase(h)' = "taken"
    BY <1>2, <2>3
  <2> QED
    BY <1>4, <1>5, <2>2, <2>4, OneMove, Zenon
<1>6. CASE h \notin Pollable
  BY <1>4, <1>6, NoMove, Zenon
<1> QED
  BY <1>5, <1>6, Zenon

\* A worker whose TryLock succeeds runs the job it has taken; one whose TryLock fails skips it.
LEMMA TryLockMoves ==
  ASSUME TypeInv, TokenInv, TokenInv', NEW w \in Workers, TryLock(w)
  PROVE  Cycle!Next \/ Phases' = Phases
<1>a. PICK a : a = job[w]
  BY Zenon
<1>1. UNCHANGED <<due, workQueue, queued>> /\ pc[w] = "locking"
  BY Zenon DEF TryLock, schedVars, loopVars
<1>2. /\ (job'[w] = a /\ pc'[w] = "reconciling") \/ job'[w] = NoApp
      /\ \A v \in Workers \ {w} : job'[v] = job[v] /\ pc'[v] = pc[v]
  BY <1>a, Zenon DEF TryLock, TypeInv, TypeOK, Procs
<1>3. ASSUME NEW b \in Pollable, b # a PROVE JobPhase(b)' = JobPhase(b)
  <2>1. job'[w] \in {job[w], NoApp}
    BY <1>a, <1>2, Zenon
  <2> QED
    BY <1>a, <1>1, <1>2, <1>3, <2>1, OthersStay, Zenon
<1>4. CASE a \in Pollable
  <2>1. JobPhase(a) = "taken"
    <3>1. JobPhase(a) = IF pc[w] = "reconciling" THEN "running"
                        ELSE IF pc[w] = "rescheduling" THEN "ending" ELSE "taken"
      BY <1>a, <1>4, HandPhase, Zenon
    <3> QED
      BY <1>1, <3>1
  <2>2. CASE job'[w] = a /\ pc'[w] = "reconciling"
    <3>1. JobPhase(a)' = "running"
      BY <1>4, <2>2, HandPhaseNext, Zenon
    <3> QED
      BY <1>3, <1>4, <2>1, <3>1, OneMove, Zenon
  <2>3. CASE job'[w] = NoApp
    <3>1. a \in Apps /\ a # NoApp /\ InHand(a)
      BY <1>a, <1>4, SchedulerAssumption, Zenon DEF Pollable, InHand
    <3>2. a \notin due /\ ~InQueue(a) /\ a \in queued /\ \A v \in Workers : job[v] = a => v = w
      BY <1>a, <1>4, <3>1, Zenon DEF TokenInv, AtMostOnceQueued, Pollable
    <3>3. ~InHand(a)' /\ ~InQueue(a)'
      BY <1>1, <1>2, <2>3, <3>1, <3>2, Zenon DEF InHand, InQueue
    <3>4. JobPhase(a)' = "skipped"
      BY <1>1, <3>2, <3>3, FreePhaseNext, Zenon
    <3> QED
      BY <1>3, <1>4, <2>1, <3>4, OneMove, Zenon
  <2> QED
    BY <1>2, <2>2, <2>3, Zenon
<1>5. CASE a \notin Pollable
  BY <1>3, <1>5, NoMove, Zenon
<1> QED
  BY <1>4, <1>5, Zenon

\* The end of a reconciliation, and the reschedule that puts the job to rest.
LEMMA UnlockMoves ==
  ASSUME TypeInv, TokenInv, TokenInv', NEW w \in Workers, WorkerUnlocks(w)
  PROVE  Cycle!Next \/ Phases' = Phases
<1>a. PICK a : a = job[w]
  BY Zenon
<1>1. /\ UNCHANGED <<due, workQueue, queued>> /\ pc[w] = "reconciling"
      /\ job'[w] = a /\ pc'[w] = "rescheduling"
      /\ \A v \in Workers \ {w} : job'[v] = job[v] /\ pc'[v] = pc[v]
  BY <1>a, Zenon DEF WorkerUnlocks, schedVars, loopVars, TypeInv, TypeOK, Procs
<1>2. ASSUME NEW b \in Pollable, b # a PROVE JobPhase(b)' = JobPhase(b)
  <2>1. job'[w] \in {job[w], NoApp}
    BY <1>a, <1>1, Zenon
  <2> QED
    BY <1>a, <1>1, <1>2, <2>1, OthersStay, Zenon
<1>3. CASE a \in Pollable
  <2>1. JobPhase(a) = "running"
    BY <1>a, <1>1, <1>3, HandPhase, Zenon
  <2>2. JobPhase(a)' = IF pc'[w] = "reconciling" THEN "running"
                       ELSE IF pc'[w] = "rescheduling" THEN "ending" ELSE "taken"
    BY <1>1, <1>3, HandPhaseNext, Zenon
  <2>3. JobPhase(a)' = "ending"
    BY <1>1, <2>2
  <2> QED
    BY <1>2, <1>3, <2>1, <2>3, OneMove, Zenon
<1>4. CASE a \notin Pollable
  BY <1>2, <1>4, NoMove, Zenon
<1> QED
  BY <1>3, <1>4, Zenon

\* reschedule clears the mark and lets go of the name in one step: the job is idle again.
LEMMA RescheduleMoves ==
  ASSUME TypeInv, TokenInv, NEW w \in Workers, reschedule(w)
  PROVE  Cycle!Next \/ Phases' = Phases
<1>a. PICK a : a = job[w]
  BY Zenon
<1>1. /\ UNCHANGED <<due, workQueue>> /\ queued' = queued \ {a} /\ pc[w] = "rescheduling"
      /\ job'[w] = NoApp
      /\ \A v \in Workers \ {w} : job'[v] = job[v] /\ pc'[v] = pc[v]
  BY <1>a, Zenon DEF reschedule, loopVars, TypeInv, TypeOK, Procs
<1>2. ASSUME NEW b \in Pollable, b # a PROVE JobPhase(b)' = JobPhase(b)
  <2>1. job'[w] \in {job[w], NoApp} /\ (b \in queued' <=> b \in queued)
    BY <1>1, <1>2, Zenon
  <2> QED
    BY <1>a, <1>1, <1>2, <2>1, OthersStay, Zenon
<1>3. CASE a \in Pollable
  <2>1. JobPhase(a) = IF pc[w] = "reconciling" THEN "running"
                      ELSE IF pc[w] = "rescheduling" THEN "ending" ELSE "taken"
    BY <1>a, <1>3, HandPhase, Zenon
  <2>2. JobPhase(a) = "ending"
    BY <1>1, <2>1
  <2>3. a \in Apps /\ a # NoApp /\ InHand(a)
    BY <1>a, <1>3, SchedulerAssumption, Zenon DEF Pollable, InHand
  <2>4. a \notin due /\ ~InQueue(a) /\ \A v \in Workers : job[v] = a => v = w
    BY <1>a, <1>3, <2>3, Zenon DEF TokenInv, AtMostOnceQueued, Pollable
  <2>5. ~InHand(a)' /\ ~InQueue(a)'
    BY <1>1, <2>3, <2>4, Zenon DEF InHand, InQueue
  <2>6. JobPhase(a)' = "idle"
    BY <1>1, <2>4, <2>5, FreePhaseNext, Zenon
  <2> QED
    BY <1>2, <1>3, <2>2, <2>6, OneMove, Zenon
<1>4. CASE a \notin Pollable
  BY <1>2, <1>4, NoMove, Zenon
<1> QED
  BY <1>3, <1>4, Zenon

\* The steps a worker takes with its job in hand, or with none, that do not move it.
LEMMA WorkerStays ==
  ASSUME TypeInv, TokenInv, TokenInv', NEW w \in Workers, WorkerGetsLock(w) \/ WorkerExits(w)
  PROVE  Phases' = Phases
<1>a. PICK a : a = job[w]
  BY Zenon
<1>1. /\ UNCHANGED <<due, workQueue, queued>> /\ job'[w] = a
      /\ \A v \in Workers \ {w} : job'[v] = job[v] /\ pc'[v] = pc[v]
      /\ {pc[w], pc'[w]} \cap {"reconciling", "rescheduling"} = {}
  <2>1. UNCHANGED <<due, workQueue, queued, job>>
    BY Zenon DEF WorkerGetsLock, WorkerExits, schedVars, loopVars
  <2>2. /\ pc[w] \in {"dequeued", "idle"} /\ pc'[w] \in {"locking", "exited"}
        /\ \A v \in Workers \ {w} : pc'[v] = pc[v]
    BY Zenon DEF WorkerGetsLock, WorkerExits, TypeInv, TypeOK, Procs
  <2> QED
    BY <1>a, <2>1, <2>2
<1>2. ASSUME NEW b \in Pollable PROVE JobPhase(b)' = JobPhase(b)
  <2>1. CASE b # a
    <3>1. job'[w] \in {job[w], NoApp}
      BY <1>a, <1>1, Zenon
    <3> QED
      BY <1>a, <1>1, <2>1, <3>1, OthersStay, Zenon
  <2>2. CASE b = a
    <3>1. JobPhase(b) = "taken"
      BY <1>a, <1>1, <2>2, HandPhase, Zenon
    <3>2. JobPhase(b)' = "taken"
      BY <1>1, <2>2, HandPhaseNext, Zenon
    <3> QED
      BY <3>1, <3>2, Zenon
  <2> QED
    BY <2>1, <2>2, Zenon
<1> QED
  BY <1>2, NoMove, Zenon

\* Every step of the scheduler moves the jobs along the cycle or leaves them where they are.
LEMMA CycleStep ==
  ASSUME TypeInv, MutexInv, TokenInv, TokenInv', [Next]_vars
  PROVE  Cycle!Next \/ Phases' = Phases
<1>1. CASE \/ ResetTimer \/ ReceiveTrigger \/ TimerFires \/ DropLock \/ ConfigDone \/ LoopAgain
           \/ SchedulerExits \/ Cancel
  <2>1. UNCHANGED <<due, workQueue, queued, job, pc>>
    BY <1>1, Zenon DEF ResetTimer, ReceiveTrigger, TimerFires, DropLock, ConfigDone, LoopAgain,
       SchedulerExits, Cancel, schedVars, loopVars, procVars
  <2> QED
    BY <2>1, NobodyMoves, Zenon
<1>2. ASSUME NEW a \in Apps, \/ ConfigRegister(a) \/ ConfigUpdate(a) \/ ConfigRemove(a)
                             \/ TimePasses(a) \/ TriggerReconcile(a) \/ ApiCreate(a) \/ ApiDelete(a)
      PROVE  Phases' = Phases
  <2>1. UNCHANGED <<due, workQueue, queued, job, pc>>
    BY <1>2, Zenon DEF ConfigRegister, ConfigUpdate, ConfigRemove, TimePasses, TriggerReconcile, ApiCreate,
       ApiDelete, schedVars, loopVars, procVars
  <2> QED
    BY <2>1, NobodyMoves, Zenon
<1>3. CASE Unschedule
  <2>1. UNCHANGED <<due, workQueue, job, pc>> /\ queued' = queued \ {leaving}
    BY <1>3, Zenon DEF Unschedule, procVars
  <2>2. leaving \notin Pollable
    BY <1>3, Zenon DEF Unschedule, MutexInv, Pollable
  <2>3. ASSUME NEW b \in Pollable PROVE JobPhase(b)' = JobPhase(b)
    <3>1. InQueue(b)' <=> InQueue(b)
      BY <2>1, Zenon DEF InQueue
    <3>2. b \in queued' <=> b \in queued
      BY <2>1, <2>2, <2>3, Zenon
    <3> QED
      BY <2>1, <3>1, <3>2, SamePhase, Zenon
  <2> QED
    BY <2>3, NoMove, Zenon
<1>4. ASSUME NEW c \in Callers, \/ \E a \in Apps : CallerGetsLock(c, a)
                                \/ CallerLocks(c) \/ CallerUnlocks(c)
      PROVE  Phases' = Phases
  <2>1. UNCHANGED <<due, workQueue, queued>>
    BY <1>4, Zenon DEF CallerGetsLock, CallerLocks, CallerUnlocks, schedVars, loopVars
  <2>2. \A w \in Workers : w \in Procs /\ w # c
    BY SchedulerAssumption, Zenon DEF Procs
  <2>3. \A w \in Workers : job'[w] = job[w] /\ pc'[w] = pc[w]
    BY <1>4, <2>2, Zenon DEF CallerGetsLock, CallerLocks, CallerUnlocks, TypeInv, TypeOK
  <2> QED
    BY <2>1, <2>3, NobodyMoves, Zenon
<1>5. CASE UNCHANGED vars
  <2>1. UNCHANGED <<due, workQueue, queued, job, pc>>
    BY <1>5 DEF vars, schedVars, loopVars, procVars
  <2> QED
    BY <2>1, NobodyMoves, Zenon
<1>6. CASE CollectDue
  BY <1>6, CollectOffers, Zenon
<1>7. CASE \E a \in Apps : EnqueueDue(a)
  BY <1>7, EnqueueMoves, Zenon
<1>8. ASSUME NEW w \in Workers, \/ Dequeue(w) \/ WorkerGetsLock(w) \/ TryLock(w)
                                \/ WorkerUnlocks(w) \/ reschedule(w) \/ WorkerExits(w)
      PROVE  Cycle!Next \/ Phases' = Phases
  BY <1>8, DequeueMoves, WorkerStays, TryLockMoves, UnlockMoves, RescheduleMoves, Zenon
<1> QED
  BY NextCases, <1>1, <1>2, <1>3, <1>4, <1>5, <1>6, <1>7, <1>8, Zenon

\* The scheduler, its queue and its workers implement JobCycle: for any number of
\* applications, workers and API callers, the job of an application that is never removed
\* is in one place at a time and goes round the cycle.
THEOREM ImplementsJobCycle == Spec => OneJobPerApp
<1>1. Init => Cycle!Init
  <2> SUFFICES ASSUME Init PROVE Cycle!Init
    OBVIOUS
  <2>1. ASSUME NEW b \in Pollable PROVE JobPhase(b) = "idle"
    <3>1. ~InHand(b)
      BY SchedulerAssumption, Zenon DEF Init, InHand, Pollable, Procs
    <3>2. ~InQueue(b)
      BY DEF Init, InQueue
    <3> QED
      BY <3>1, <3>2, FreePhase, Zenon DEF Init
  <2> QED
    BY <2>1, Zenon DEF Cycle!Init, Pollable
<1>2. TypeInv /\ MutexInv /\ TokenInv /\ TokenInv' /\ [Next]_vars
        => [Cycle!Next]_([a \in Apps \ Removable |-> JobPhase(a)])
  BY CycleStep, Zenon DEF Phases, Pollable
<1> QED
  BY <1>1, <1>2, TypeInvariant, MutexInvariant, TokenInvariant, PTL DEF Spec, OneJobPerApp, Cycle!Spec

-----------------------------------------------------------------------------
(* Nobody is forgotten *)

\* An application that has a manifest is on the schedule, as long as its manifest stays.
Scheduled == \A a \in Pollable : stored[a] = "manifest" => schedule[a] # "none"

\* What polling again and again rests on: an application whose manifest stays is on the
\* schedule, and either the timer looks at it, or it is on its way to a worker or in its hands,
\* or a worker has skipped it for a busy mutex.
NobodyIsForgotten ==
  \A a \in Pollable :
    stored[a] = "manifest" => \/ a \in Unqueued
                              \/ a \in due \/ InQueue(a) \/ InHand(a)
                              \/ a \in missed

\* Only Unschedule takes a name off the schedule, and only a removable one; a manifest is
\* stored together with its entry on the schedule.
LEMMA ScheduledStep ==
  ASSUME TypeInv, MutexInv, Scheduled, [Next]_vars
  PROVE  Scheduled'
<1>t. /\ stored \in [Apps -> {"absent", "api", "manifest"}]
      /\ schedule \in [Apps -> {"none", "due", "later"}]
      /\ trigger \in Seq(Apps) /\ job \in [Procs -> Apps \cup {NoApp}]
  BY Zenon DEF TypeInv, TypeOK
<1> SUFFICES ASSUME NEW b \in Pollable, stored'[b] = "manifest" PROVE schedule'[b] # "none"
  BY Zenon DEF Scheduled
<1>b. b \in Apps /\ b \notin Removable /\ (stored[b] = "manifest" => schedule[b] # "none")
  BY Zenon DEF Scheduled, Pollable
<1>1. CASE stored' = stored /\ schedule' = schedule
  BY <1>1, <1>b, Zenon
<1>2. ASSUME NEW a \in Apps, NEW v \in {"due", "later"}, stored' = stored,
             schedule' = [schedule EXCEPT ![a] = v]
      PROVE  schedule'[b] # "none"
  BY <1>2, <1>b, <1>t
<1>3. CASE ReceiveTrigger
  <2>1. Head(trigger) \in Apps
    BY <1>3, <1>t DEF ReceiveTrigger
  <2> QED
    BY <1>2, <1>3, <2>1, Zenon DEF ReceiveTrigger
<1>4. ASSUME NEW a \in Apps, ConfigRegister(a) PROVE schedule'[b] # "none"
  <2>1. CASE stored[a] = "absent"
    BY <1>4, <1>b, <1>t, <2>1 DEF ConfigRegister
  <2>2. CASE stored[a] # "absent"
    BY <1>4, <1>1, <2>2, Zenon DEF ConfigRegister
  <2> QED
    BY <2>1, <2>2, Zenon
<1>r. CASE Unschedule
  <2>1. leaving # b
    BY <1>r, <1>b, Zenon DEF Unschedule, MutexInv
  <2>2. stored'[b] = stored[b] /\ schedule'[b] = schedule[b]
    BY <1>r, <1>b, <1>t, <2>1, Zenon DEF Unschedule
  <2> QED
    BY <1>b, <2>2, Zenon
<1>5. ASSUME NEW a \in Apps, ConfigRemove(a) PROVE schedule'[b] # "none"
  <2>1. a # b
    BY <1>5, <1>b, Zenon DEF ConfigRemove, MutexInv
  <2>2. stored'[b] = stored[b] /\ schedule'[b] = schedule[b]
    BY <1>5, <1>b, <1>t, <2>1, Zenon DEF ConfigRemove, schedVars
  <2> QED
    BY <1>b, <2>2, Zenon
<1>6. ASSUME NEW a \in Apps, ApiCreate(a) \/ ApiDelete(a) PROVE schedule'[b] # "none"
  <2>1. schedule' = schedule /\ (stored'[b] = "manifest" => stored[b] = "manifest")
    BY <1>6, <1>b, <1>t DEF ApiCreate, ApiDelete, schedVars
  <2> QED
    BY <1>b, <2>1, Zenon
<1>7. ASSUME NEW a \in Apps, ConfigUpdate(a) \/ TimePasses(a) PROVE schedule'[b] # "none"
  BY <1>2, <1>7, Zenon DEF ConfigUpdate, TimePasses
<1>8. ASSUME NEW a \in Apps, EnqueueDue(a) PROVE schedule'[b] # "none"
  BY <1>1, <1>2, <1>8, Zenon DEF EnqueueDue, schedVars
<1>9. ASSUME NEW w \in Workers, reschedule(w) PROVE schedule'[b] # "none"
  <2>1. job[w] \in Apps
    BY <1>9, <1>t, Zenon DEF reschedule, TypeInv, BusyHasJob, Procs
  <2> QED
    BY <1>2, <1>9, <2>1, Zenon DEF reschedule
<1>10. CASE \/ ResetTimer \/ TimerFires \/ DropLock \/ ConfigDone \/ CollectDue \/ LoopAgain
            \/ SchedulerExits \/ Cancel \/ \E a \in Apps : TriggerReconcile(a)
            \/ \E w \in Workers : \/ Dequeue(w) \/ WorkerGetsLock(w) \/ TryLock(w)
                                  \/ WorkerUnlocks(w) \/ WorkerExits(w)
            \/ \E c \in Callers : \/ \E a \in Apps : CallerGetsLock(c, a)
                                  \/ CallerLocks(c) \/ CallerUnlocks(c)
  <2>1. stored' = stored /\ schedule' = schedule
    BY <1>10, Zenon DEF ResetTimer, TimerFires, DropLock, ConfigDone, CollectDue, LoopAgain,
       SchedulerExits, Cancel, TriggerReconcile, Dequeue, WorkerGetsLock, TryLock, WorkerUnlocks,
       WorkerExits, CallerGetsLock, CallerLocks, CallerUnlocks, schedVars
  <2> QED
    BY <1>1, <2>1, Zenon
<1>11. CASE UNCHANGED vars
  <2>1. stored' = stored /\ schedule' = schedule
    BY <1>11 DEF vars, schedVars
  <2> QED
    BY <1>1, <2>1, Zenon
<1> QED
  BY NextCases, <1>3, <1>4, <1>r, <1>5, <1>6, <1>7, <1>8, <1>9, <1>10, <1>11, Zenon

\* The safety half of PolledAgain: no interleaving of triggers, refused names, manifest
\* changes, API calls and shutdown leaves an application with a manifest that nobody carries
\* and no timer looks at, but the failed TryLock.
THEOREM NoAppIsForgotten == Spec => []NobodyIsForgotten
<1>1. Init => Scheduled
  BY Zenon DEF Init, Scheduled, Pollable
<1>2. TypeInv /\ MutexInv /\ Scheduled /\ [Next]_vars => Scheduled'
  BY ScheduledStep, Zenon
<1>3. Scheduled /\ TokenInv => NobodyIsForgotten
  BY Zenon DEF Scheduled, TokenInv, QueuedIsCarried, NobodyIsForgotten, Unqueued, Pollable
<1> QED
  BY <1>1, <1>2, <1>3, TypeInvariant, MutexInvariant, TokenInvariant, PTL DEF Spec

=============================================================================
