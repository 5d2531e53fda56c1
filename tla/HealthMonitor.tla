---------------------------- MODULE HealthMonitor ----------------------------
(***************************************************************************)
(* The health monitor (internal/health) and one application it watches:    *)
(* the poll loop over watched applications, the sweep over all of them and *)
(* the health gate a reconciliation waits at, which all run CheckApp on    *)
(* the same row of the store at the same time.                             *)
(*                                                                         *)
(* Time is abstracted: a watch entry is "new" until its timeout has passed *)
(* and "due" afterwards, and updated_at is abstracted to whether the row   *)
(* has been written since a check read it.  What the surroundings do       *)
(* (containers change, the reconciler deploys, the row is removed) is      *)
(* drawn from a budget of MaxChanges; a check may fail at any time, and    *)
(* any number of times.                                                    *)
(***************************************************************************)
EXTENDS Naturals

CONSTANTS
  Services,     \* the services of the compose project
  Containers,   \* the docker states a container is seen in, with "absent"
  MaxChanges    \* bound: changes the surroundings make

ASSUME HealthAssumption ==
  /\ "created" \in Containers
  /\ Containers \subseteq {"absent", "created", "starting", "running", "healthy",
                           "unhealthy", "restarting", "exited"}
  /\ MaxChanges \in Nat

VARIABLES
  containers,  \* the docker state of each service's container
  row,         \* the application's row: present, health_status, last_error
  watched,     \* the application's entry in watched: "none", "new" or "due"
  check,       \* the CheckApp each checker is in
  round,       \* the poll round: where it is, and the entry it snapshotted
  gate,        \* the reconciliation: at the health gate, past it, and its last two steps
  gateUp,      \* history: services that have been healthy since the gate was reached
  stopped,     \* the monitor's context is cancelled
  changes      \* changes made by the surroundings so far

healthVars == <<containers, row, watched, check, round, gate, gateUp, stopped, changes>>

Checkers == {"poll", "sweep", "gate"}
Statuses == {"Healthy", "Progressing", "Degraded", "Unknown"}

\* mapHealth and mapRunningHealth: "running" has no healthcheck, "starting",
\* "healthy" and "unhealthy" are running containers that have one.
mapHealth(c) ==
  CASE c \in {"running", "healthy"} -> "Healthy"
    [] c \in {"starting", "created"} -> "Progressing"
    [] c \in {"unhealthy", "restarting"} -> "Degraded"
    [] OTHER -> "Unknown"

\* Aggregate: the worst status of the services found, Unknown when there are none.
Aggregate(seen) ==
  LET states == {seen[s] : s \in Services} \ {"absent"} IN
  CASE states = {} \/ "Unknown" \in states -> "Unknown"
    [] "Degraded" \in states -> "Degraded"
    [] "Progressing" \in states -> "Progressing"
    [] OTHER -> "Healthy"

Observed == [s \in Services |->
               IF containers[s] = "absent" THEN "absent" ELSE mapHealth(containers[s])]
Nothing == [s \in Services |-> "absent"]
Up == {s \in Services : mapHealth(containers[s]) = "Healthy"}

Idle == [step |-> "idle", fresh |-> FALSE, behind |-> FALSE, seen |-> Nothing]

HealthTypeOK ==
  /\ containers \in [Services -> Containers]
  /\ row \in [present : BOOLEAN, health : Statuses, error : {"", "timeout", "gate"}]
  /\ watched \in {"none", "new", "due"}
  /\ check \in [Checkers -> [step : {"idle", "read", "list", "inspect", "decide"},
                             fresh : BOOLEAN, behind : BOOLEAN,
                             seen : [Services -> Statuses \cup {"absent", "todo"}]]]
  /\ round \in [pc : {"idle", "check", "remove"}, due : BOOLEAN, same : BOOLEAN]
  /\ gate \in {"none", "wait", "passed", "deployed", "watch"}
  /\ gateUp \subseteq Services
  /\ stopped \in BOOLEAN
  /\ changes \in 0 .. MaxChanges

\* An application whose containers have just been created, its monitor started.
HealthInit ==
  /\ containers = [s \in Services |-> "created"]
  /\ row = [present |-> TRUE, health |-> "Progressing", error |-> ""]
  /\ watched = "none"
  /\ check = [c \in Checkers |-> Idle]
  /\ round = [pc |-> "idle", due |-> FALSE, same |-> FALSE]
  /\ gate = "none" /\ gateUp = {} /\ stopped = FALSE /\ changes = 0

Change == changes < MaxChanges /\ changes' = changes + 1

\* The row is written: no check that read it before holds its updated_at now, and
\* whatever a check has inspected already is older than the row.
Overtaken(k) == [k EXCEPT !.fresh = FALSE, !.behind = @ \/ k.step = "inspect"]
WrittenBy(c, done) == check' = [d \in Checkers |-> IF d = c THEN done ELSE Overtaken(check[d])]
Written == check' = [d \in Checkers |-> Overtaken(check[d])]

-----------------------------------------------------------------------------
(* The surroundings. *)

ContainerChanges(s, c) ==
  /\ Change
  /\ containers' = [containers EXCEPT ![s] = c]
  /\ gateUp' = IF gate = "wait" /\ mapHealth(c) = "Healthy" THEN gateUp \cup {s} ELSE gateUp
  /\ UNCHANGED <<row, watched, check, round, gate, stopped>>

\* The timeout of the entry in watched passes; a poll round that snapshotted the
\* same entry sees the same clock.
TimeoutPasses ==
  /\ watched = "new"
  /\ watched' = "due"
  /\ round' = [round EXCEPT !.due = @ \/ round.same]
  /\ UNCHANGED <<containers, row, check, gate, gateUp, stopped, changes>>

\* The timeout of an entry that WatchApp has replaced passes.
OldTimeoutPasses ==
  /\ round.pc = "check" /\ ~round.same /\ ~round.due
  /\ round' = [round EXCEPT !.due = TRUE]
  /\ UNCHANGED <<containers, row, watched, check, gate, gateUp, stopped, changes>>

\* DeleteApplication by the API or by configsync; the watch entry stays.
RowDeleted ==
  /\ Change
  /\ row.present
  /\ row' = [present |-> FALSE, health |-> "Unknown", error |-> ""]
  /\ Written
  /\ UNCHANGED <<containers, watched, round, gate, gateUp, stopped>>

RowCreated ==
  /\ ~row.present
  /\ row' = [row EXCEPT !.present = TRUE]
  /\ Written
  /\ UNCHANGED <<containers, watched, round, gate, gateUp, stopped, changes>>

\* UpdateManifest and SetApplicationSource: only updated_at matters here.
RowTouched ==
  /\ Change
  /\ row.present
  /\ Written
  /\ UNCHANGED <<containers, row, watched, round, gate, gateUp, stopped>>

\* A deployment without sync waves, or a rollback, has brought the containers up.
DeployUngated ==
  /\ Change
  /\ gate = "none" /\ row.present
  /\ gate' = "deployed"
  /\ UNCHANGED <<containers, row, watched, check, round, gateUp, stopped>>

\* A deployment has brought the containers of a wave up and waits for them.
ReachGate ==
  /\ Change
  /\ gate = "none" /\ row.present
  /\ gate' = "wait" /\ gateUp' = Up
  /\ UNCHANGED <<containers, row, watched, check, round, stopped>>

\* Mutant: the wait is over when no service seen is unhealthy, found or not.
GatePassesMissing(seen) == \A s \in Services : seen[s] \in {"Healthy", "absent"}

\* allSeenHealthy, and as many names seen as the wave has.
GatePasses(seen) == \A s \in Services : seen[s] = "Healthy"

\* The wait ends by its timer or by the operation's context.
GateExpires ==
  /\ gate = "wait" /\ check["gate"].step = "idle"
  /\ gate' = "none"
  /\ row' = IF row.present THEN [row EXCEPT !.health = "Degraded", !.error = "gate"] ELSE row
  /\ Written
  /\ UNCHANGED <<containers, watched, round, gateUp, stopped, changes>>

\* The success write of reconcileApp, and the WatchApp that follows it.
RecordDeployed ==
  /\ gate \in {"passed", "deployed"}
  /\ gate' = "watch"
  /\ row' = IF row.present THEN [row EXCEPT !.health = "Progressing", !.error = ""] ELSE row
  /\ Written
  /\ UNCHANGED <<containers, watched, round, gateUp, stopped, changes>>

WatchApp ==
  /\ gate = "watch"
  /\ gate' = "none"
  /\ watched' = "new"
  /\ round' = [round EXCEPT !.same = FALSE]
  /\ UNCHANGED <<containers, row, check, gateUp, stopped, changes>>

\* Stop cancels the context both loops and their checks run under.
StopMonitor ==
  /\ Change
  /\ ~stopped
  /\ stopped' = TRUE
  /\ UNCHANGED <<containers, row, watched, check, round, gate, gateUp>>

-----------------------------------------------------------------------------
(* CheckApp, in the steps other goroutines can come between. *)

Begin(c) == check' = [check EXCEPT ![c] = [Idle EXCEPT !.step = "read"]]
To(c, k) == check' = [check EXCEPT ![c] = k]

\* pollLoop's tick: checkWatchedApps snapshots the entries.
PollTick ==
  /\ ~stopped /\ round.pc = "idle" /\ watched # "none"
  /\ round' = [pc |-> "check", due |-> watched = "due", same |-> TRUE]
  /\ Begin("poll")
  /\ UNCHANGED <<containers, row, watched, gate, gateUp, stopped, changes>>

\* sweepLoop's tick: startSweep, unless one is running, and ListApplications.
SweepTick ==
  /\ ~stopped /\ check["sweep"].step = "idle" /\ row.present
  /\ Begin("sweep")
  /\ UNCHANGED <<containers, row, watched, round, gate, gateUp, stopped, changes>>

\* WaitForServicesHealthy's tick.
GateTick ==
  /\ gate = "wait" /\ check["gate"].step = "idle"
  /\ Begin("gate")
  /\ UNCHANGED <<containers, row, watched, round, gate, gateUp, stopped, changes>>

\* What each caller does once CheckApp has returned without an error.
Returned(c, seen) == IF c = "poll" THEN [Idle EXCEPT !.step = "decide", !.seen = seen] ELSE Idle

\* GetApplication; without a row CheckApp returns Unknown and no error.
ReadRow(c) ==
  /\ check[c].step = "read"
  /\ To(c, IF row.present THEN [check[c] EXCEPT !.step = "list", !.fresh = TRUE]
                          ELSE Returned(c, Nothing))
  /\ UNCHANGED <<containers, row, watched, round, gate, gateUp, stopped, changes>>

\* Inspect lists the containers of the project ...
ListContainers(c) ==
  /\ check[c].step = "list"
  /\ To(c, [check[c] EXCEPT !.step = "inspect",
              !.seen = [s \in Services |-> IF containers[s] = "absent" THEN "absent" ELSE "todo"]])
  /\ UNCHANGED <<containers, row, watched, round, gate, gateUp, stopped, changes>>

\* ... and inspects them one by one.
InspectContainer(c, s) ==
  /\ check[c].step = "inspect" /\ check[c].seen[s] = "todo" /\ containers[s] # "absent"
  /\ To(c, [check[c] EXCEPT !.seen[s] = mapHealth(containers[s])])
  /\ UNCHANGED <<containers, row, watched, round, gate, gateUp, stopped, changes>>

\* Mutant: the observation is written whether or not the row has changed.
RecordAnyway(c) ==
  /\ check[c].step = "inspect" /\ \A s \in Services : check[c].seen[s] # "todo"
  /\ row' = IF row.present THEN [row EXCEPT !.health = Aggregate(check[c].seen)] ELSE row
  /\ WrittenBy(c, Returned(c, check[c].seen))
  /\ gate' = IF c = "gate" /\ GatePasses(check[c].seen) THEN "passed" ELSE gate
  /\ UNCHANGED <<containers, watched, round, gateUp, stopped, changes>>

\* Mutant: an observation leaves a row alone that holds a recorded failure.
RecordUnlessFailed(c) ==
  /\ check[c].step = "inspect" /\ \A s \in Services : check[c].seen[s] # "todo"
  /\ IF check[c].fresh /\ row.error = ""
       THEN row' = [row EXCEPT !.health = Aggregate(check[c].seen)]
            /\ WrittenBy(c, Returned(c, check[c].seen))
       ELSE row' = row /\ To(c, Returned(c, check[c].seen))
  /\ gate' = IF c = "gate" /\ GatePasses(check[c].seen) THEN "passed" ELSE gate
  /\ UNCHANGED <<containers, watched, round, gateUp, stopped, changes>>

\* RecordHealthObservation: the row is written if its updated_at is the one read,
\* and the check returns what it saw either way.
RecordHealthObservation(c) ==
  /\ check[c].step = "inspect" /\ \A s \in Services : check[c].seen[s] # "todo"
  /\ IF check[c].fresh
       THEN row' = [row EXCEPT !.health = Aggregate(check[c].seen)]
            /\ WrittenBy(c, Returned(c, check[c].seen))
       ELSE row' = row /\ To(c, Returned(c, check[c].seen))
  /\ gate' = IF c = "gate" /\ GatePasses(check[c].seen) THEN "passed" ELSE gate
  /\ UNCHANGED <<containers, watched, round, gateUp, stopped, changes>>

\* A store or docker call fails or outlasts CheckTimeout, a container listed is gone
\* when it is inspected, or the monitor's context has ended.  The poll returns before it
\* looks at the entry's timeout.
CheckFails(c) ==
  /\ check[c].step \in {"read", "list", "inspect"}
  /\ To(c, Idle)
  /\ round' = IF c = "poll" THEN [round EXCEPT !.pc = "idle", !.same = FALSE] ELSE round
  /\ UNCHANGED <<containers, row, watched, gate, gateUp, stopped, changes>>

-----------------------------------------------------------------------------
(* checkWatchedApp after CheckApp, and the end of the round. *)

\* Mutant: a watch whose timeout has passed stays.
PollDecidesLate ==
  /\ check["poll"].step = "decide"
  /\ round' = IF Aggregate(check["poll"].seen) = "Healthy" THEN [round EXCEPT !.pc = "remove"]
              ELSE [round EXCEPT !.pc = "idle", !.same = FALSE]
  /\ To("poll", Idle)
  /\ UNCHANGED <<containers, row, watched, gate, gateUp, stopped, changes>>

\* Healthy: the entry expires.  Otherwise, past its timeout, the status is written over
\* whatever the row holds now, or that write fails and nobody looks, and the entry
\* expires; before it, it stays.
PollDecides ==
  /\ check["poll"].step = "decide"
  /\ LET health == Aggregate(check["poll"].seen) IN
     \/ /\ health = "Healthy"
        /\ round' = [round EXCEPT !.pc = "remove"]
        /\ To("poll", Idle) /\ row' = row
     \/ /\ health # "Healthy" /\ round.due
        /\ round' = [round EXCEPT !.pc = "remove"]
        /\ \/ /\ row.present
              /\ row' = [row EXCEPT !.health = health, !.error = "timeout"]
              /\ WrittenBy("poll", Idle)
           \/ row' = row /\ To("poll", Idle)
     \/ /\ health # "Healthy" /\ ~round.due
        /\ round' = [round EXCEPT !.pc = "idle", !.same = FALSE]
        /\ To("poll", Idle) /\ row' = row
  /\ UNCHANGED <<containers, watched, gate, gateUp, stopped, changes>>

\* The expired name leaves watched, whichever entry is there by now.
RemoveExpired ==
  /\ round.pc = "remove"
  /\ watched' = "none"
  /\ round' = [round EXCEPT !.pc = "idle", !.same = FALSE]
  /\ UNCHANGED <<containers, row, check, gate, gateUp, stopped, changes>>

-----------------------------------------------------------------------------

CheckStep(c) ==
  \/ ReadRow(c)
  \/ ListContainers(c)
  \/ \E s \in Services : InspectContainer(c, s)
  \/ RecordHealthObservation(c)
  \/ CheckFails(c)

MonitorStep == PollTick \/ PollDecides \/ RemoveExpired \/ CheckStep("poll")
SweepStep == SweepTick \/ CheckStep("sweep")
GateStep == GateTick \/ CheckStep("gate") \/ GateExpires \/ RecordDeployed \/ WatchApp
Surroundings ==
  \/ \E s \in Services, c \in Containers : ContainerChanges(s, c)
  \/ RowDeleted \/ RowCreated \/ RowTouched \/ DeployUngated \/ ReachGate \/ StopMonitor
Clock == TimeoutPasses \/ OldTimeoutPasses

HealthNext == MonitorStep \/ SweepStep \/ GateStep \/ Surroundings \/ Clock

\* The tickers fire and the goroutines run; timers and the gate's timeout expire.
HealthFairness ==
  /\ WF_healthVars(MonitorStep) /\ WF_healthVars(SweepStep)
  /\ WF_healthVars(GateStep) /\ WF_healthVars(Clock) /\ SF_healthVars(GateExpires)

HealthSpec == HealthInit /\ [][HealthNext]_healthVars /\ HealthFairness

-----------------------------------------------------------------------------
(* Properties. *)

\* An observation that CheckApp writes to the row is never older than what the row
\* holds: no write of the row by the reconciler, the API or another check came after
\* the inspection began (health.go:287, the guard of RecordHealthObservation).
NewestObservationWins ==
  [][\A c \in Checkers :
       check[c].step = "inspect" /\ check'[c].step # "inspect" /\ check[c].behind
         => row' = row]_healthVars

\* A reconciliation passes the health gate only if every service of the wave has been
\* healthy at some time since the wait began (WaitForServicesHealthy, health.go:228).
GateIsEarned == gate = "passed" => gateUp = Services

\* A watched application does not stay watched for ever while checks of it return again
\* and again: it is seen healthy or its timeout passes, whatever happens to its row and
\* to single checks (checkWatchedApp, health.go:378-425).
WatchEnds ==
  []<>(check["poll"].step = "decide") => (watched # "none" ~> watched = "none" \/ stopped)

\* Does not hold: the condition above is needed.  WatchApp is said to poll "until all
\* services are healthy or the timeout expires" (health.go:33); a check that fails returns
\* before the timeout is looked at (health.go:372-376).
WatchTimesOut == watched # "none" ~> watched = "none" \/ stopped

\* Does not hold: a round removes the entry it has decided on.  It removes the name, and
\* with it the entry of a deployment that has finished since (health.go:360-366).
NewerWatchIsKept == [][round.pc = "remove" /\ round'.pc = "idle" => round.same]_healthVars

\* Once the surroundings are quiet, and as long as sweeps get through, the health shown
\* is the health of the containers: no race between the checks, the gate and the timeout
\* write leaves a wrong status (health.go:283-291, 400).
HealthConverges ==
  []<><<RecordHealthObservation("sweep")>>_healthVars
    => <>[](stopped \/ ~row.present \/ row.health = Aggregate(Observed))
=============================================================================
