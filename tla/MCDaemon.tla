------------------------------ MODULE MCDaemon -------------------------------
(***************************************************************************)
(* The background loops of the daemon and the caches of its API, checked   *)
(* in one run.  They share no state, so each behaviour moves one part and  *)
(* leaves the others as they start; `part' says which.                     *)
(***************************************************************************)
EXTENDS CircuitBreaker, HealthMonitor, EventWatcher, MCImagePoller, MCConfigSync, ApiCaches

VARIABLE part

daemonVars == <<vars, healthVars, watcherVars, pollerVars, configVars, cacheVars, part>>

DaemonInit ==
  /\ part \in {"breaker", "health", "events", "images", "config", "caches"}
  /\ Init /\ HealthInit /\ WatcherInit /\ PollerInit /\ ConfigInit /\ CachesInit

DaemonNext ==
  \/ /\ part = "breaker" /\ Next
     /\ UNCHANGED <<healthVars, watcherVars, pollerVars, configVars, cacheVars, part>>
  \/ /\ part = "health" /\ HealthNext
     /\ UNCHANGED <<vars, watcherVars, pollerVars, configVars, cacheVars, part>>
  \/ /\ part = "events" /\ WatcherNext
     /\ UNCHANGED <<vars, healthVars, pollerVars, configVars, cacheVars, part>>
  \/ /\ part = "images" /\ PollerNext
     /\ UNCHANGED <<vars, healthVars, watcherVars, configVars, cacheVars, part>>
  \/ /\ part = "config" /\ ConfigNext
     /\ UNCHANGED <<vars, healthVars, watcherVars, pollerVars, cacheVars, part>>
  \/ /\ part = "caches" /\ CachesNext
     /\ UNCHANGED <<vars, healthVars, watcherVars, pollerVars, configVars, part>>

\* The fairness of each part, where it moves.  Every action changes a variable of its
\* part or nothing at all, so that the subscript may be the part's own.
DaemonFairness ==
  /\ WF_vars(part = "breaker" /\ ResetTimeoutPasses) /\ WF_vars(part = "breaker" /\ AllowAttempt)
  /\ WF_healthVars(part = "health" /\ MonitorStep) /\ WF_healthVars(part = "health" /\ SweepStep)
  /\ WF_healthVars(part = "health" /\ GateStep) /\ WF_healthVars(part = "health" /\ Clock)
  /\ SF_healthVars(part = "health" /\ GateExpires)
  /\ WF_watcherVars(part = "events" /\ StartStep) /\ WF_watcherVars(part = "events" /\ ServeStep)
  /\ \A d \in Daemons : WF_watcherVars(part = "events" /\ LoopStep(d))
  /\ \A n \in Timers : WF_watcherVars(part = "events" /\ TimerStep(n))
  /\ WF_pollerVars(part = "images" /\ \E p \in Polls : PollStep(p))
  /\ WF_pollerVars(part = "images" /\ \E p \in Polls : StartPoll(p))
  /\ WF_pollerVars(part = "images" /\ Sync)
  /\ WF_configVars(part = "config" /\ RoundStep)
  /\ \A s \in Sources : WF_configVars(part = "config" /\ SourceRecovers(s))
  /\ \A r \in Callers : WF_cacheVars(part = "caches" /\ CallStep(r))

DaemonSpec == DaemonInit /\ [][DaemonNext]_daemonVars /\ DaemonFairness
=============================================================================
