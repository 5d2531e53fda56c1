# A TLA+ verification of dockercd

dockercd is a GitOps controller for Docker Compose: it polls git repositories,
compares what a commit asks for with the containers that run, and applies the
difference. This directory holds TLA+ models of the daemon and of its web
console, the TLC configurations that check them and proofs for TLAPS. Paths below
are relative to `src/internal/` of the repository unless they start with `docs/`
or `web/`; every mapped definition is listed with its source lines in
`PROJECT.json`.

## The system

| part | state | modules |
| --- | --- | --- |
| scheduler and workers (`reconciler/scheduler.go`, `worker.go`) | schedule, queued marks, work queue, trigger channel, per-application mutexes | Scheduler, JobCycle |
| circuit breaker (`reconciler/worker.go`) | state, failure count, time of the last failure | CircuitBreaker |
| reconciliation and rollback (`reconciler/reconciler.go`) | the row and sync history, the clone, the containers | Reconcile |
| blue-green deployer (`deployer/bluegreen.go`) | two compose projects | BlueGreen, AtomicRollout |
| config sync (`reconciler/configsync.go`, `cli/serve.go`) | rows of the store, manifest sources | ConfigSync |
| parser, differ, inspector (`parser/`, `differ/`, `inspector/`) | none; pure functions of files and containers | Drift |
| health monitor (`health/`) | watch list, checks in progress, the row's health | HealthMonitor |
| event watcher and debouncer (`events/`) | one loop per docker host, timers | EventWatcher |
| image poller and git commits (`registry/`, `gitsync/`) | the clone, the remote branch | ImagePoller |
| host monitor, event bus, event streams (`hostmon/`, `eventbus/`, `api/handlers.go`) | host row, subscribers, channels | HostStream |
| API caches (`api/server.go`) | entries, wait channels, concurrency slots | ApiCaches |
| presentation API and console pages (`api/presentation_*.go`, `web/internal/`) | registry, rows, the page being built | Presentation |
| console login (`web/internal/localauth`) | rate-limit buckets, password-check slot, sessions | LocalAuth |

How they meet: the scheduler hands names to workers through a bounded queue; a
worker, a manual sync or a rollback holds the application's mutex while it runs.
Dry runs, adoption, config sync, the health monitor, the image poller and other
applications on the same clone hold no such mutex. Events, hosts and the image
poller reach the scheduler only through the trigger channel. The console reads
the daemon through the presentation API. The hard behaviours are therefore
lock-free activity between two steps of an operation, marks and mutexes that
outlive what they stand for, failure or a crash half way, contexts that end while
a clean-up still has to run, and two readers of the same files that disagree.
`PROJECT.json` lists these hazards at their lines.

## Modules

In each module one action is one critical section, or one call that others can
come between; data is abstracted to what the properties tell apart.

**Scheduler.** `CollectDue` is the part of `enqueueDueApps` under `scheduleMu`,
`EnqueueDue` one non-blocking send after it. `ConfigRemove` deletes the row;
`Unschedule`, under `scheduleMu`, and `DropLock`, after it, are `RemoveApp`. Time is
abstracted to whether a scheduled time has arrived. Mutexes carry a generation, because
`RemoveApp` deletes a mutex that may be held and `getAppLock` then makes another.
`JobCycle` is the abstract promise: the job of an application is idle, waiting, taken,
running, ending or skipped, and goes from one to the next. The refinement mapping
(`JobPhase`) reads the phase off the collected names, the queue, the workers and the
marks. There is no way out of "skipped", which is what scheduler_starvation is about.

**CircuitBreaker.** The breaker with the calls `reconcileApp` makes on it.
`streak` and `reset` are history variables.

**BlueGreen.** `Deploy` over two colours whose containers are none, stopped,
starting, unhealthy or healthy. `DeployFaults` chooses what may go wrong around it, and
`harmed` remembers that something has. `AtomicRollout` is the abstract promise:
the current revision keeps serving until the target replaces it, or the target
goes away again. The refinement mapping takes `serving` to the revisions of the
healthy colours and `target` to the revision under way; after a fault nothing is
promised.

**Reconcile.** One application: the branch, the shared clone, the row with its
history, the containers, one locked operation at a time and the lock-free
activities beside it. A commit is the value it asks of every service, the diff
whether every service has it (Drift models the diff itself). Two history variables say
what a claim may rest on: `moved`, that somebody else has moved the clone since the
operation's last Sync or checkout, and `vouched`, that the row's Synced was written by an
operation for which that is not so, and that no rollback has begun to deploy since.

**ConfigSync.** One round of `syncConfigManifests` step by step: the manifest
repository, the config directory, the list of the store, the `applications/`
folder of the clones, then registration, update, teardown and deletion. Sources
change and fail, the API writes rows and the process restarts between any two
steps. `gap` and `outage` are history variables: in which sources a manifest was
missing, and which sources failed, at some time in the round.

**Drift.** What the parser reads in the files, what docker compose makes of the
same files (external, modelled from its documented behaviour where the code
relies on it), what the inspector reads back, and `Diff` over both. Strings that
the code takes apart are records of their parts, so that merging, substitution,
normalisation of images, ports, volumes and labels are modelled by what they do.
The actions are a commit, a deployment and changes of the containers by hand.

**HealthMonitor.** The poll loop, the sweep and the wave gate each run `CheckApp`
in four steps (read the row, list, inspect each container, guarded write) beside
deployments, the API and changing containers. `updated_at` is abstracted to
whether the row was written since it was read (`behind`).

**EventWatcher.** `Start` in its own goroutine, `WatchHost`, the loops with their
reconnection, event handling, and the debouncer, whose timer callback takes the
lock only to delete its entry: firing, deleting and triggering are three steps. Every
event is a container's death; the bound on events is the bound on deaths, so it never
keeps a loop from handling what it has received.

**ImagePoller.** A poll hands the applications of each RepoURL (`Groups`) to a worker,
which takes them in turn: read, list tags, write, commit, push, trigger, with the
reconciler's `Sync` and other people's pushes between any two. All RepoURLs are spellings
of one repository and so have one clone. `FindLatestTag` selects under the policy; a
commit is the tag in the file.

**ApiCaches.** Both single-flight caches behind their concurrency limits; the
differences between them (stored errors, whose context collects) are parameters
of the same actions.

**HostStream.** `Broadcast` offers the event to one subscriber per step under the
read lock; the host check reads, writes the row and announces in three steps.

**LocalAuth.** `Login` split at its unlocked password check; a request acts on
the time it read before it took the mutex.

**Presentation.** A page from its session through the subject check, the feature
query and its calls to what it shows, while sessions end, rows change and the
controller restarts with another registry. `rekeyed` is a history variable: a restart has
given the token of the page's user to another subject.

`MCScheduler`, `MCReconcile`, `MCImagePoller`, `MCConfigSync`, `MCDrift` and
`MCPresentation` hold the constants of the instances. `MCDaemon` and `MCRequests`
check several components in one run: the components share no variables, `part` is
chosen initially, and only the component it names moves. Each component therefore
has exactly the behaviours of its own specification, and a property over one
component's variables holds in the sum if and only if it holds in the component.
This is bookkeeping, not composition. TLC reports the coverage of a sum by part and
not by action, so each component was also run alone with the constants of the sum:
every one of its actions is taken.

The interactions between modules are by assumption: `Reconcile` takes from
`Scheduler` that locked operations do not overlap (`NoOverlap`) and that polls
recur (`PolledAgain`); `HealthMonitor` lets deployments happen at any time;
`EventWatcher` and `ImagePoller` end at `TriggerReconcile`, which is an action of
`Scheduler`; `LocalAuth` provides the sessions that `Presentation` may lose at
any time.

## Runs

| run | checks | result |
| --- | --- | --- |
| scheduler_safety | `AtMostOnceQueued`, `QueuedIsCarried`, `NoOverlap` | hold |
| scheduler_liveness | `NoBusyLoop`, `PolledAgain`, `ShutdownCompletes` | hold |
| scheduler_queue_full | `NoBusyLoop`, `OfferedAgain` | hold |
| scheduler_starvation | `SkippedIsRetried` | violated |
| bluegreen_timeout | `AlwaysServed` | violated |
| reconcile_operations | `SyncedIsLive`, `DeploysTheRevision`, `NoOrphanRecords` | hold |
| reconcile_converges | `Converges`, `ErrorsClear`, `HeadIsReported` | hold |
| reconcile_skips_forever | `Converges` | violated |
| daemon: CircuitBreaker | `NoRunaway`, `OpenIsLeft` | hold |
| daemon: HealthMonitor | `GateIsEarned`, `NewestObservationWins`, `WatchEnds`, `HealthConverges` | hold |
| daemon: EventWatcher | `EventIsFollowed`, `LoopsExit` | hold |
| daemon: ImagePoller | `PublishesWhatItWrote`, `UpdateIsPublished` | hold |
| daemon: ConfigSync | `KeptWhileReadable`, `StoreFollowsSources` | hold |
| daemon: ApiCaches | `SingleFlight`, `NoForeignCancellation`, `SomebodyIsAnswered` | hold |
| requests: BlueGreen | `CleanSuccess`, `HealthGated`, `ZeroDowntimeRollout` | hold |
| requests: Drift | `NoFalseDiff`, `TamperIsSeen` | hold |
| requests: HostStream | `NoSendOnClosed`, `StreamIsFaithful` | hold |
| requests: LocalAuth | `AttemptsAreCounted`, `NoCheckWhileLocked` | hold |
| requests: Presentation | `ScopedToSubject`, `FreshnessIsPrimary` | hold |
| config_outage | `OnlyRemovedIsTornDown` | violated |
| drift_secrets | `NoFalseDiff` | violated |

The five violations are disagreements between the code and what the repository
says of it:

- **A skipped application is not retried.** A worker whose `TryLock` fails
  leaves the queued mark set (`worker.go:25`), and the scheduler passes over
  marked names. `docs/design.md:884` says the scheduler retries on the next
  cycle. The mark goes away with a restart or the removal of the manifest.
- **An expired context costs the blue-green guarantee.** The clean-up of a
  colour that did not become healthy runs under the context that has just ended
  (`bluegreen.go:106`), so the colour stays. The next deployment looks at blue first,
  takes the left-over for the active colour and redeploys the green containers that
  serve, in place.
- **A commit may be skipped for ever.** The clone is shared and not locked
  between `Sync` and `Parse`, so a head may be recorded that was not looked at,
  and change detection passes over it from then on (`reconciler.go:304`).
- **An outage looks like a removal.** When the manifest repository cannot be
  synced (`configsync.go:43`), its applications are torn down and deleted; the
  comment at `configsync.go:61` says this happens to applications whose files
  have been removed from all sources.
- **Encrypted variables never agree.** The parser substitutes what `.env.age`
  defines (`parser.go:47`), docker compose is run without it, and a deployment
  that has just succeeded is reported as drifted (`docs/design.md:53`, `:178`).

### Further counterexamples

These configurations are kept to reproduce other counterexamples; each is
expected to end with its property violated. They are run with
`tlc -config X.cfg M`, where M is the MC module of the part, or the part itself
where it has none (CircuitBreaker, EventWatcher).

| configuration | property | what it shows |
| --- | --- | --- |
| SchedulerOverlap | `PerAppLocking` | removal and return of a manifest lets two reconciliations overlap (`scheduler.go:172`) |
| SchedulerGhost | `RemovedStaysOut` | a worker that ends late schedules a removed name again (`scheduler.go:118`) |
| CircuitBreakerBlueGreenFails | `OpensAfterFailures` | blue-green failures restart the count (`reconciler.go:692`) |
| CircuitBreakerConsecutive | `OpensOnConsecutiveFailures` | skips between failures do not restart it |
| CircuitBreakerHalfOpen | `HalfOpenAllowsOne` | a skip leaves the breaker half-open |
| ReconcileFailedRollback | `SyncedIsAlwaysLive` | a rollback that fails half way leaves the row Synced (`reconciler.go:1077`) |
| ReconcilePartial | `PartialIsRetried` | a failed forced sync of the last synced commit is not retried |
| ReconcileRemoved | `RemovedIsGone` | a deployment under way survives the teardown (`configsync.go:168`) |
| ReconcilePrior | `RollsBackToPrior` | a refused rollback leaves the record that admits the next one |
| ReconcileAdopt | `AdoptionAvoidsDeploy` | a poll deploys the adopted commit |
| ConfigSyncApiRows | `ApiRowsAreKept` | a round acts on a row that the API has replaced since it was listed (`configsync.go:79`) |
| DriftRemoval | `NoSkippedChange` | a commit that takes a variable away is reported as synced and not deployed (`compare.go:123`) |
| EventWatcherTimers | `PendingIsTracked` | a timer is pending that neither `StopAll` nor the next event can stop (`debounce.go:37`) |
| ImagePollerSharedClone | `WorktreeExclusive` | two spellings of one repository URL: two workers of a poll are in the clone at once, which `poller.go:189` says never happens (groups are by the text of the URL, `poller.go:197`; clones by the URL without credentials, `gitsync/cache.go:44`) |
| ImagePollerLostUpdate | `NoLostUpdate` | a tag chosen for an older file is committed over a newer one (`poller.go:337`) |

More stated properties do not hold and have no configuration of their own; each was
seen violated with the constants of its component's passing run:
`AlwaysDeploysTheRevision` of Reconcile (the clone is moved under an operation),
`NothingLeftRunning` of ConfigSync (a failed teardown is not tried again),
`NotFoundIsMissing` of Presentation (a controller without presentation routes
answers 404, as for an unknown application), `AlwaysScopedToSubject` of Presentation (a
restart may give a token to another subject between two calls of a page), and of
HealthMonitor `WatchTimesOut` (a check that fails returns before the timeout is looked
at, `health.go:371`) and `NewerWatchIsKept` (a round removes the watch of a newer
deployment with the old one's name, `health.go:360`).

### Bounds

- Scheduler: two applications, two workers and a caller, or three applications
  and one worker with a queue of two, so that the queue fills. One change per
  config sync and one removal, which is enough for a held mutex to be replaced.
  Workers are interchangeable in the safety run; the liveness runs use no
  symmetry.
- CircuitBreaker: `maxFailures` is the code's 3; twelve failures let the breaker
  open, half-open and reopen several times.
- BlueGreen: three or four revisions, one of them bad, and any number of
  deployments; the state is finite without a bound.
- Reconcile: two services, in one wave or in two; two or three commits;
  one or two failures in a behaviour, a crash being one of them. Two waves are
  the least that a deployment can stop between.
- HealthMonitor: one service, three container states, three changes by the
  surroundings (a deployment, a change under a check, and one more). The same
  properties were checked once with two services (251,905 states); the two
  safety properties are proved for any services.
- EventWatcher: the local daemon and one host, two events, so that one resets the
  other's timer, and one broken stream; also checked with three events
  (51,505 states), which `StreamResumes` held in too.
- ImagePoller: two polls that could overlap, one RepoURL with two applications, two lists
  of tags, one push by hand, one failure, policy "minor". ImagePollerSharedClone has
  two RepoURLs.
- ConfigSync: one application, two versions, two edits among sources and API; also
  checked with three edits (37,190 states) and with two applications (40,940).
- ApiCaches: three requests and a limit of two, so that one collects, one waits and
  one is turned away.
- Drift: four commits (one file, two files, defaults, a service that ignores
  drift), and three further commits or changes by hand of any aspect of a service.
- HostStream: one stream, channels of two, four turns of host and clients; also
  checked with two streams (392,632 states).
- LocalAuth: two requests for one bucket, a lockout after two failures that lasts
  two ticks; `LockoutHolds` was checked with 163,122 states and is proved.
- Presentation: two users, two applications, seven registries, one of which gives both tokens to one
  user, at most two restarts of
  the controller, and rows that are absent, healthy and synced, or neither.

`CHECK_DEADLOCK` is left on except in the two sums and the configurations of their
parts: event loops exit after the signal, and the budgets that bound the
surroundings run out with every request answered.

### Fairness

Goroutines that can go on do go on, and time passes (weak fairness). A
reconciliation ends, because its context has a deadline. `select` chooses
between ready cases at random, so a cancelled context is noticed in the end, and
`sync.Mutex` hands a mutex that is unlocked again and again to a waiter (strong
fairness of the exits and of `CallerLocks`). In `Reconcile` polls recur and a
running operation proceeds; pushes, failures and lock-free activity are not fair.
The tickers of the health monitor and the image poller recur, and the gate's
deadline, one of two ready cases of its `select`, is noticed in the end (strong
fairness of `GateExpires`). Each watch loop, timer and API request is fair by
itself. In `ConfigSync` rounds recur and outages end; in `ImagePoller` the
reconciler's `Sync` recurs. Edits, container changes, pushes, client departures
and failures are never fair.

## Proofs

The eight proof modules are for arbitrary constants that satisfy the named
assumptions of the modules; there is no bound on applications, workers, services,
revisions, requests or streams. Each follows the same argument: an inductive
invariant holds initially, one lemma per action (or group of actions) shows that
it is preserved, and the property follows from it.

- **SchedulerProofs**: `TypeCorrect`; `MutualExclusion`, from `MutexInv`, which
  says that a process past `getAppLock` holds the stored generation of an
  application that is not removed (two reconcilers then share a mutex);
  `QueuedAtMostOnce` and `QueuedMarkIsBacked`, from `TokenInv`, which treats the
  queued mark as a token that goes with a name through `due`, the queue and a
  worker's hands, in one of them at a time;
  `NoSpin`, without removals, which is inductive given `TypeInv`, `MutexInv` and
  `TokenInv` (a worker that reschedules a name finds it marked).
  `ImplementsJobCycle`, that `Spec` implements `JobCycle`: one lemma per action says
  along which edge it moves a job, or that it moves none. `TokenInv` is needed in both
  states of a step, because a phase is that of the one worker, queue slot or pending send
  that has the name. `NoAppIsForgotten`, from `Scheduled` and `TokenInv`: an application
  whose manifest stays is never off the schedule, and never marked with nobody to clear
  the mark, but for a failed `TryLock`.
- **DaemonProofs**, about CircuitBreaker, ConfigSync, ImagePoller and EventWatcher:
  `ClosedExactlyBelowLimit` and `BackOff`, from `BreakerInv`, which ties the streak
  to the failure count while nothing reset it. `ManifestsKeepTheirApps`, an action
  property, from `RoundInv` (`RoundsAreConsistent`): an application that is not on
  the round's list although the round is past a source was missing from that source or
  the source was unreadable, and what is to be removed is on no list.
  `QuietRoundsChangeNothing`, an action property:
  `InAgreement` says what a round that is under way may have read when the store agrees
  with the sources, and a step without an edit or a failure keeps it, every row and every
  container. The action properties `ChecksPublishTheirOwn` and `UpdatesStayInPolicy`,
  from `PollInv` (`PollsAreConsistent`), assume `OneRepoURL`, that the repository is
  spelled one way; ImagePollerSharedClone is the counterexample without it. A poll that runs
  holds `pollRunning`, alone (`SinglePoll`); what a check has written is in the file, or
  the file came from a sync since, until it is pushed (`WrittenInv`); and while nobody
  else has pushed, remote branch, HEAD, file and chosen tag follow each other by the
  policy (`ChainInv`). The chain is needed because a push publishes what
  was chosen several steps, and possibly several failed polls, earlier; it works
  because acceptance is transitive (`AcceptsIsTransitive`). `NoEventIsLost`, from
  `WatcherInv` (`WatcherIsConsistent`): the map of the debouncer holds the newest timer
  or none, so that whatever is stopped is stopped for a newer timer. A callback that
  deletes the entry of a newer timer, which does happen (EventWatcherTimers), leaves that
  timer running.
- **BlueGreenProofs**: `TypeCorrect`; `SuccessLeavesOneColor` and
  `CutoverIsHealthGated` under all faults, from `GateInv`; `NoDowntime` and
  `ImplementsAtomicRollout` until a fault occurs, from `RolloutInv`, which says
  where the current revision serves at each point of `Deploy`. The guard is
  needed: bluegreen_timeout is the counterexample without it.
- **ReconcileProofs**: `TypeCorrect`; `RecordedIsDeployed`, from `RevInv`, which says
  that as long as nobody else has moved it the clone holds the operation's
  commit and that the waves before `wave` run it; `SyncedMeansLive`, for which the row
  must also name a commit that runs while it is vouched for. Neither assumes anything of
  the other users of the clone; what the history variables excuse is needed:
  `AlwaysDeploysTheRevision` and `SyncedIsAlwaysLive` do without them and do not hold.
  `RecordsGoWithTheRow` needs no excuse: every write of the history looks at the
  row in the same step, and the deletion of the row takes the history with it.
  `HeadKeepsRunning`, an action property, lets dry runs and adoptions go on beside polls
  and manual syncs: when the services run the head and the clone holds it, whatever is
  under way can only write the head again. Rollbacks, removals and other users of the
  clone are excluded, as in reconcile_converges.
- **ApiProofs**, about ApiCaches, HostStream and Presentation:
  `OneCollectionAtATime` and `NoForeignCancellations`, from `CachesInv`: the wait
  channel of a cache is set exactly while one request collects, and a cancellation is
  never among the stored outcomes. `ClosedChannelsAreLeftAlone`, from `HubInv`: a
  channel is closed only while nobody is inside `Broadcast`, and a broadcast offers
  only to those that are subscribed. `StreamsAreFaithful`, from `FaithfulInv`: the
  last host event of a stream's channel, or what it was told, is the status of the row,
  or the status before it while the change is still to be announced or to be offered to
  that stream. `PagesAreScoped`, from `ScopeInv`: after the first call, and until a
  restart gives it to another subject, the page's token
  is known to be the user's own, and what that token grants is among the granted.
  `PagesShowTheirFreshness`, from `FreshInv`: which calls a kind of page may still have
  to make, and that activity comes last.
- **DriftProofs**, about Drift: `PlainFilesStayInSync` and `ChangesByHandAreSeen`;
  see below.
- **LocalAuthProofs**: `AttemptsCounted`, `LockedIsNotChecked` and `LockoutLasts`,
  from `AuthInv`. Counting alone is not inductive: a locked bucket must also be
  known to have nothing in flight (`Quiet`), which holds because failures and
  attempts in flight together never exceed the limit, and a request's reading of
  the clock must be in the past (`PastReadings`).
- **HealthMonitorProofs**: `GateEarned` and `NewestWins`, from `HealthInv`: what
  the gate's check has seen as healthy was healthy after the gate was reached
  (`GateSees`), and only a check that is under way can be behind.

**Files and containers.** `PlainFilesStayInSync` is about every set of commits that
satisfy `Plain`, with pruning. Each conjunct of `Plain` excludes one way in which the
parser and docker compose are known to read a file differently (ports without a host
part, relative mounts, mount options beside `ro`, networks of the project, labels of the
image, a restart policy with a number of retries, a command in one string, secrets, a
variable set twice, a required variable that is missing); nothing else is assumed of the
files, and services whose drift is ignored may do any of it. The proof has two halves.
`RoundTrip` compares, field by field, what the parser reads of a service with what the
inspector reads back of the container that docker compose makes of it. `DeployedInv` is
the invariant: after a deploy each container that nobody has touched is the one that
docker compose makes, and a service without a container has lost it to somebody. The
plain statement, that nothing was touched at all, is not inductive, because a container
added by hand may be removed by hand again. `ChangesByHandAreSeen` needs no plain files:
it assumes that the values that stand for changes by hand are in no file
(`Recognisable`). Its invariant, `TraceInv`, says that every change still on record is
there to be seen, however many others were made to the same container since. That the
commits of the instance satisfy both hypotheses, and that the commits with secrets, with
retries and with a relabelled read-only mount are not plain and out of sync right after
a deployment, TLC evaluates as assumptions of MCDrift.

That both merge a commit's files into the same services is proved for any number of
files (`FilesMergeAlike`). It looks like an induction over the list, which the prover
cannot do, but needs none: both merges are recursive functions, that is, a choice among
the solutions of an equation, and as one step of the one equals one step of the other the
two equations have the same solutions, and the same choice is made.
`Drift` writes its own `Over` instead of the `@@` of the TLC module because the prover
does not expand the latter.

Before it was proved, each of `RoundInv`, `PollInv`, `FaithfulInv`, `ScopeInv`,
`FreshInv`, `DeployedInv`, `TraceInv`, `WatcherInv`, `SettledStays` and
`RoundsAreIdempotent` was checked with TLC on an instance of its
component, and `OneJobPerApp` with the constants of SchedulerSafety.

Only model-checked: the liveness properties (`PolledAgain`, `OfferedAgain`,
`ShutdownCompletes`, `OpenIsLeft`, `Converges`, `ErrorsClear`, `HeadIsReported`,
`WatchEnds`, `HealthConverges`, `EventIsFollowed`, `LoopsExit`,
`UpdateIsPublished`, `StoreFollowsSources`, `SomebodyIsAnswered`), which are beyond
the prover. Every safety property and action property of a passing run is proved.
Of four of the liveness properties the part that is a safety property is proved:
`NoAppIsForgotten` for `PolledAgain`, `HeadKeepsRunning` for `Converges`,
`NoEventIsLost` for `EventIsFollowed` and `QuietRoundsChangeNothing` for
`StoreFollowsSources`. That the good state is reached stays with TLC.

## What the results do not say

- `NoOverlap`, `AtMostOnceQueued` and `QueuedIsCarried` are about applications
  config sync does not remove, and the last excepts those whose `TryLock` failed.
  `NoBusyLoop` is about systems in which nothing is removed.
- `PolledAgain` is checked without API callers and with room in the queue. With a
  caller it fails (scheduler_starvation); with a full queue only `OfferedAgain`
  is checked.
- `NoRunaway` excepts streaks in which a blue-green deployment failed after
  `RecordSuccess`.
- `Converges` is checked with self-heal and without other users of the clone,
  `ErrorsClear` with self-heal.
- A context that ends in the middle of `docker compose down` is represented by
  the "down" fault, not by "expire".
- `SyncedIsLive` and `DeploysTheRevision` say nothing of an operation under which
  somebody else moved the clone, nor the former of a row between a rollback's deployment
  or an adoption and the next success.
- `WatchEnds` is about applications whose checks return again and again, and
  `HealthConverges` about sweeps that get through: while every check fails, a watch goes
  on past its timeout.
- `HealthConverges` does not say that the watch list is right: a round may remove
  a newer watch of the same name (`health.go:360`), and the sweep makes up for it.
- `EventIsFollowed` is about events that reach the watcher. Those that occur while
  a stream is down are not replayed (`watcher.go:338`).
- `PublishesWhatItWrote` is about repositories that are spelled one way.
- `UpdateIsPublished` excepts a commit or push that failed, and the instance has
  the compose file at the root of the repository (`AtRoot`); for an application
  in a subdirectory `Commit` is given a path that the worktree does not have
  (`poller.go:342`), and no update is published.
- `NoFalseDiff` is about files in which the parser and docker compose are known to
  agree. Known disagreements outside the passing instance, besides `.env.age`:
  networks that compose prefixes with the project, labels of the image, relative
  bind mounts, options beside `ro` on a read-only mount, retries of a restart policy, a
  command given as a string, ports without a host part,
  substitution in ports, volumes and labels, and a variable set both in the
  process environment and in `.env`.
- `ScopedToSubject` excepts pages during which a restart gave the user's token to
  somebody else.
- `StreamIsFaithful` excepts streams that were too slow for an event, and host
  checks whose row update failed (`monitor.go:157`).

## Not modelled

- Notifier, recovery drill: outgoing calls and an offline tool, with no state that
  anything modelled depends on. Cluster mode is archived and not built.
- Secret retrieval, YAML parsing, HTTP clients, host policy, validation and
  redaction: I/O or checks of a single value without interleavings. Where their
  outcome matters it is a nondeterministic choice in the module that uses it.
- Store retention and migrations, capacity figures, metrics, history pages and
  webhook parsing: they read, or delete by age, rows that no modelled decision
  depends on.
- `Start` and `Stop` of the image poller, and the closing of the API while event
  streams are open (`serve.go:347`), which waits out a time limit.
- `RefreshProjectMap` of the event watcher has no caller, and rows of docker hosts
  have no creator outside the tests: the models start with the hosts registered.
- The console's fixture mode, templates and static files.

The components are not composed with one another beyond the assumptions above. The
two compositions that would say most are the breaker and the wave gate inside
`Reconcile`, and `ConfigSync` with `Scheduler`'s removal; each multiplies two
state spaces that are already at the size TLC finishes in minutes.
