------------------------------ MODULE BlueGreen ------------------------------
(***************************************************************************)
(* BlueGreenDeployer.Deploy (internal/deployer/bluegreen.go) over the two  *)
(* compose projects {project}-blue and {project}-green, with the compose   *)
(* deployer it wraps.  Deployments of one application come one at a time:  *)
(* the reconciler holds the application's lock around Deploy.              *)
(*                                                                         *)
(* A colour's containers are abstracted to one value: none exist, all are  *)
(* stopped, some are still starting, some run and some are unhealthy or    *)
(* missing, or all are healthy.  DeployFaults names what may go wrong      *)
(* around the deployer: "inspect", "deploy", "down" (the docker call       *)
(* fails), "expire" (the caller's context ends: the sync timeout, or the   *)
(* HTTP client leaves), "expireWaiting" (it ends while Deploy waits for    *)
(* the new colour) and "crash" (containers die by themselves).             *)
(***************************************************************************)
CONSTANTS Revs, NoRev, Bad, DeployFaults

ASSUME BlueGreenAssumption ==
    /\ NoRev \notin Revs
    /\ Bad \subseteq Revs
    /\ DeployFaults \subseteq {"inspect", "deploy", "down", "expire", "expireWaiting", "crash"}

VARIABLES
    colors,     \* the containers of each colour
    rev,        \* the revision each colour was last brought up with
    stage,      \* where Deploy is
    active,     \* local activeColor ("" when none runs)
    newColor,   \* local newColor
    want,       \* the revision of the running deployment
    ctxDone,    \* the caller's context has ended
    result,     \* what the last Deploy returned
    current,    \* history: revision of the last Deploy that returned nil
    faulty,     \* history: a fault has hit since the last Deploy began
    harmed      \* history: a fault has ever hit

dockerVars == <<colors, rev>>
callVars == <<active, newColor, want>>
faultVars == <<faulty, harmed>>
deployVars ==
    <<colors, rev, stage, active, newColor, want, ctxDone, result, current, faulty, harmed>>

Colors == {"blue", "green"}
RunningStates == {"starting", "unhealthy", "healthy"}
Running(c) == colors[c] \in RunningStates
Healthy(c) == colors[c] = "healthy"

DeployTypeOK ==
    /\ colors \in [Colors -> RunningStates \cup {"none", "stopped"}]
    /\ rev \in [Colors -> Revs \cup {NoRev}]
    /\ stage \in {"idle", "deploy", "wait", "cleanup", "cutover"}
    /\ active \in Colors \cup {""}
    /\ newColor \in Colors
    /\ want \in Revs \cup {NoRev}
    /\ ctxDone \in BOOLEAN
    /\ result \in {"none", "ok", "error"}
    /\ current \in Revs \cup {NoRev}
    /\ faulty \in BOOLEAN /\ harmed \in BOOLEAN

DeployInit ==
    /\ colors = [c \in Colors |-> "none"]
    /\ rev = [c \in Colors |-> NoRev]
    /\ stage = "idle"
    /\ active = ""
    /\ newColor = "blue"
    /\ want = NoRev
    /\ ctxDone = FALSE
    /\ result = "none"
    /\ current = NoRev
    /\ faulty = FALSE /\ harmed = FALSE

-----------------------------------------------------------------------------
(* What docker does to a colour's containers. *)

\* docker compose up -d: containers already up at this revision, unhealthy ones included,
\* are left alone; the others are started or replaced.
ComposeUp(c, r) ==
    /\ rev' = [rev EXCEPT ![c] = r]
    /\ \E s \in RunningStates :
         /\ \/ s = "starting" /\ ~(rev[c] = r /\ Healthy(c))
            \/ s = colors[c] /\ rev[c] = r
         /\ colors' = [colors EXCEPT ![c] = s]

\* A hook or the pull fails before anything is touched, or up stops half way.
ComposeUpFails(c, r) ==
    \/ UNCHANGED dockerVars
    \/ /\ rev' = [rev EXCEPT ![c] = r]
       /\ \E s \in {"unhealthy", "stopped"} : colors' = [colors EXCEPT ![c] = s]

ComposeDown(c) ==
    /\ colors' = [colors EXCEPT ![c] = "none"]
    /\ rev' = [rev EXCEPT ![c] = NoRev]

\* down fails: a command whose context has ended is not even started.
ComposeDownFails(c) ==
    \/ UNCHANGED dockerVars
    \/ /\ ~ctxDone
       /\ colors[c] # "none"
       /\ \E s \in {"unhealthy", "stopped"} : colors' = [colors EXCEPT ![c] = s]
       /\ UNCHANGED rev

\* Starting containers settle: healthy for a good revision, unhealthy for a bad one.
Settle(c) ==
    /\ colors[c] = "starting"
    /\ colors' = [colors EXCEPT ![c] = IF rev[c] \in Bad THEN "unhealthy" ELSE "healthy"]
    /\ UNCHANGED <<rev, stage, callVars, ctxDone, result, current, faultVars>>

ColorCrashes(c) ==
    /\ "crash" \in DeployFaults
    /\ Running(c)
    /\ \E s \in {"unhealthy", "stopped"} : colors' = [colors EXCEPT ![c] = s]
    /\ faulty' = TRUE /\ harmed' = TRUE
    /\ UNCHANGED <<rev, stage, callVars, ctxDone, result, current>>

Expire ==
    /\ \/ "expire" \in DeployFaults /\ stage # "idle"
       \/ "expireWaiting" \in DeployFaults /\ stage = "wait"
    /\ ~ctxDone
    /\ ctxDone' = TRUE
    /\ faulty' = TRUE /\ harmed' = TRUE
    /\ UNCHANGED <<dockerVars, stage, callVars, result, current>>

-----------------------------------------------------------------------------
(* Deploy *)

\* Blue is looked at first; a colour with a running container is active.
ActiveBlueGreenState ==
    IF Running("blue") THEN "blue" ELSE IF Running("green") THEN "green" ELSE ""

oppositeColor(c) == IF c = "blue" THEN "green" ELSE "blue"

Begin(r) ==
    /\ stage = "idle"
    /\ active' = ActiveBlueGreenState
    /\ newColor' = oppositeColor(active')
    /\ want' = r
    /\ stage' = "deploy"
    /\ ctxDone' = FALSE
    /\ faulty' = FALSE
    /\ result' = "none"
    /\ UNCHANGED <<dockerVars, current, harmed>>

DetectFails ==
    /\ "inspect" \in DeployFaults
    /\ stage = "idle"
    /\ faulty' = TRUE /\ harmed' = TRUE
    /\ result' = "error"
    /\ UNCHANGED <<dockerVars, stage, callVars, ctxDone, current>>

Return(res) ==
    /\ stage' = "idle"
    /\ result' = res
    /\ current' = IF res = "ok" THEN want ELSE current
    /\ UNCHANGED <<callVars, ctxDone>>

DeployNewColor ==
    /\ stage = "deploy"
    /\ ~ctxDone
    /\ ComposeUp(newColor, want)
    /\ stage' = "wait"
    /\ UNCHANGED <<callVars, ctxDone, result, current, faultVars>>

\* The error is returned at once: whatever up left behind stays.
DeployNewColorFails ==
    /\ stage = "deploy"
    /\ ctxDone \/ "deploy" \in DeployFaults
    /\ ComposeUpFails(newColor, want)
    /\ faulty' = TRUE /\ harmed' = TRUE
    /\ Return("error")

\* Mutant: the new colour is taken for healthy.
SkipHealthCheck ==
    /\ stage = "wait"
    /\ ~ctxDone
    /\ stage' = "cutover"
    /\ UNCHANGED <<dockerVars, callVars, ctxDone, result, current, faultVars>>

\* A poll finds every container of the new colour healthy.
waitForHealthy ==
    /\ stage = "wait"
    /\ ~ctxDone
    /\ Healthy(newColor)
    /\ stage' = "cutover"
    /\ UNCHANGED <<dockerVars, callVars, ctxDone, result, current, faultVars>>

\* The health timer fires, which it may do between any two polls, or the
\* context ends.
WaitFails ==
    /\ stage = "wait"
    /\ stage' = "cleanup"
    /\ UNCHANGED <<dockerVars, callVars, ctxDone, result, current, faultVars>>

\* Mutant: a colour that failed its health checks is left running.
LeaveNewColor ==
    /\ stage = "cleanup"
    /\ UNCHANGED <<dockerVars, faultVars>>
    /\ Return("error")

TearDownNewColor ==
    /\ stage = "cleanup"
    /\ \/ /\ ~ctxDone
          /\ ComposeDown(newColor)
          /\ UNCHANGED faultVars
       \/ /\ ctxDone \/ "down" \in DeployFaults
          /\ ComposeDownFails(newColor)
          /\ faulty' = TRUE /\ harmed' = TRUE
    /\ Return("error")

\* Mutant: the old colour is left running.
LeaveOldColor ==
    /\ stage = "cutover"
    /\ UNCHANGED <<dockerVars, faultVars>>
    /\ Return("ok")

StopOldColor ==
    /\ stage = "cutover"
    /\ \/ /\ active = ""
          /\ UNCHANGED <<dockerVars, faultVars>>
       \/ /\ active # ""
          /\ ~ctxDone
          /\ ComposeDown(active)
          /\ UNCHANGED faultVars
       \/ /\ active # ""
          /\ ctxDone \/ "down" \in DeployFaults
          /\ ComposeDownFails(active)
          /\ faulty' = TRUE /\ harmed' = TRUE
    /\ Return("ok")

DeployNext ==
    \/ \E r \in Revs : Begin(r)
    \/ DetectFails
    \/ DeployNewColor
    \/ DeployNewColorFails
    \/ waitForHealthy
    \/ WaitFails
    \/ TearDownNewColor
    \/ StopOldColor
    \/ Expire
    \/ \E c \in Colors : Settle(c) \/ ColorCrashes(c)

DeploySpec == DeployInit /\ [][DeployNext]_deployVars

-----------------------------------------------------------------------------
(* Properties *)

\* A deployment that nothing went wrong in ends, when it returns nil, with the
\* new colour serving the requested revision and the other colour not running,
\* whatever earlier deployments left behind (Deploy, bluegreen.go).
CleanSuccess ==
    (stage = "idle" /\ result = "ok" /\ ~faulty) =>
        /\ Healthy(newColor)
        /\ rev[newColor] = want
        /\ \A c \in Colors \ {newColor} : ~Running(c)

\* Health gates the cutover: unless a fault interferes, Deploy takes a healthy
\* colour other than the new one away only when the new one is healthy.
HealthGated ==
    [][\A c \in Colors :
         (Healthy(c) /\ ~Healthy(c)' /\ c # newColor /\ ~faulty')
           => Healthy(newColor) /\ rev[newColor] = want]_deployVars

\* Until a fault occurs Deploy is a zero-downtime, all-or-nothing rollout: one that fails
\* its health checks leaves the previous revision serving, alone.
Serving == {rev[c] : c \in {k \in Colors : Healthy(k)}}
Rollout == INSTANCE AtomicRollout
             WITH target <- IF stage = "idle" THEN NoRev ELSE want,
                  serving <- Serving
ZeroDowntimeRollout == Rollout!Init /\ [][harmed' \/ Rollout!Next]_(Rollout!vars)

\* Until a fault occurs, some colour is healthy at all times once a deployment has
\* succeeded: the old colour goes only after the new one is healthy (Deploy).
ZeroDowntime == ~harmed /\ current # NoRev => \E c \in Colors : Healthy(c)

\* "performs zero-downtime color switching" (the package comment): once a
\* deployment has succeeded, some colour is healthy at all times.
AlwaysServed == current # NoRev => \E c \in Colors : Healthy(c)
=============================================================================
