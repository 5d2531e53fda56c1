---------------------------- MODULE EventWatcher ----------------------------
(***************************************************************************)
(* The docker event watcher (internal/events) as serve wires it: Start in  *)
(* a goroutine of its own, WatchHost for every registered host, the event  *)
(* streams with their reconnection, the debouncer in front of              *)
(* TriggerReconcile, and the shutdown.  The events are those of one        *)
(* managed application; a new timer is numbered by the event that armed    *)
(* it.  Durations are abstracted: a window or a backoff ends at any time.  *)
(***************************************************************************)
EXTENDS Naturals

CONSTANTS
  Hosts,       \* registered remote docker hosts
  Local,       \* the local daemon, host "" in the code
  MaxEvents,   \* bound: container events of the application
  MaxDrops     \* bound: connections that fail or break

ASSUME WatcherAssumption ==
  /\ Local \notin Hosts
  /\ MaxEvents \in Nat /\ MaxDrops \in Nat

VARIABLES
  ctxSet,      \* Start has stored w.ctx and w.cancel
  rootDone,    \* the context serve runs under is cancelled
  stopCalled,  \* Stop has run
  starting,    \* Start: "new", "map", "running", "stopping", "returned"
  projects,    \* projectMap holds the application
  loop,        \* the watch loop of each daemon
  parent,      \* what a host loop's context derives from
  queue,       \* events in each connected stream
  holding,     \* a loop is in handleEvent, before the debouncer
  deaths,      \* containers that died while a stream was connected
  events,      \* events that reached the debouncer so far
  timers,      \* every timer ever armed
  entry,       \* Debouncer.timers[app], 0 when there is none
  drops

watcherVars == <<ctxSet, rootDone, stopCalled, starting, projects, loop, parent, queue,
                 holding, deaths, events, timers, entry, drops>>
lifeVars == <<ctxSet, rootDone, stopCalled, starting, parent>>

Daemons == Hosts \cup {Local}
Timers == 1 .. MaxEvents

WatcherTypeOK ==
  /\ ctxSet \in BOOLEAN /\ rootDone \in BOOLEAN /\ stopCalled \in BOOLEAN
  /\ starting \in {"new", "map", "running", "stopping", "returned"}
  /\ projects \in BOOLEAN
  /\ loop \in [Daemons -> {"none", "connect", "stream", "backoff", "exited"}]
  /\ parent \in [Hosts -> {"none", "watcher", "background"}]
  /\ queue \in [Daemons -> 0 .. MaxEvents]
  /\ holding \in [Daemons -> BOOLEAN]
  /\ deaths \in 0 .. MaxEvents /\ events \in 0 .. MaxEvents
  /\ timers \in [Timers -> {"unused", "armed", "fired", "calling", "done", "stopped"}]
  /\ entry \in 0 .. MaxEvents
  /\ drops \in 0 .. MaxDrops

\* NewWatcher.
WatcherInit ==
  /\ ctxSet = FALSE /\ rootDone = FALSE /\ stopCalled = FALSE
  /\ starting = "new" /\ projects = FALSE
  /\ loop = [d \in Daemons |-> "none"]
  /\ parent = [h \in Hosts |-> "none"]
  /\ queue = [d \in Daemons |-> 0]
  /\ holding = [d \in Daemons |-> FALSE]
  /\ deaths = 0 /\ events = 0 /\ timers = [n \in Timers |-> "unused"] /\ entry = 0 /\ drops = 0

\* Mutant: Stop does not cancel the contexts of the host watchers.
CancelledByParent(d) ==
  IF d # Local /\ parent[d] = "background" THEN FALSE ELSE rootDone \/ stopCalled

\* The context a loop runs under has ended: Start's derives from serve's and Stop
\* cancels it; a host's derives from Start's, or from none when WatchHost came first.
Cancelled(d) ==
  IF d # Local /\ parent[d] = "background" THEN stopCalled ELSE rootDone \/ stopCalled

-----------------------------------------------------------------------------
(* Start, WatchHost, Stop and the end of serve. *)

StoreContext ==
  /\ starting = "new"
  /\ starting' = "map" /\ ctxSet' = TRUE
  /\ UNCHANGED <<rootDone, stopCalled, projects, loop, parent, queue, holding, deaths,
                 events, timers, entry, drops>>

\* refreshProjectMap, which may fail, and the goroutine of watchLoop.
StartLoop(listed) ==
  /\ starting = "map"
  /\ starting' = "running" /\ projects' = listed
  /\ loop' = [loop EXCEPT ![Local] = "connect"]
  /\ UNCHANGED <<ctxSet, rootDone, stopCalled, parent, queue, holding, deaths, events,
                 timers, entry, drops>>

WatchHost(h) ==
  /\ loop[h] = "none" /\ ~stopCalled
  /\ parent' = [parent EXCEPT ![h] = IF ctxSet THEN "watcher" ELSE "background"]
  /\ loop' = [loop EXCEPT ![h] = "connect"]
  /\ UNCHANGED <<ctxSet, rootDone, stopCalled, starting, projects, queue, holding, deaths,
                 events, timers, entry, drops>>

\* A signal cancels serve's context.
Signal ==
  /\ ~rootDone
  /\ rootDone' = TRUE
  /\ UNCHANGED <<ctxSet, stopCalled, starting, projects, loop, parent, queue, holding,
                 deaths, events, timers, entry, drops>>

\* Stop, once serve has been signalled; WatchHost was called for every host before.
Stop ==
  /\ rootDone /\ ~stopCalled /\ \A h \in Hosts : loop[h] # "none"
  /\ stopCalled' = TRUE
  /\ UNCHANGED <<ctxSet, rootDone, starting, projects, loop, parent, queue, holding, deaths,
                 events, timers, entry, drops>>

\* Start past <-ctx.Done(): StopAll cancels the timers the map holds ...
StopTimers ==
  /\ starting = "running" /\ (rootDone \/ stopCalled)
  /\ starting' = "stopping"
  /\ timers' = [n \in Timers |-> IF n = entry /\ timers[n] = "armed" THEN "stopped" ELSE timers[n]]
  /\ entry' = 0
  /\ UNCHANGED <<ctxSet, rootDone, stopCalled, projects, loop, parent, queue, holding,
                 deaths, events, drops>>

\* ... and wg.Wait returns when every loop has.
StartReturns ==
  /\ starting = "stopping" /\ \A d \in Daemons : loop[d] \in {"none", "exited"}
  /\ starting' = "returned"
  /\ UNCHANGED <<ctxSet, rootDone, stopCalled, projects, loop, parent, queue, holding,
                 deaths, events, timers, entry, drops>>

-----------------------------------------------------------------------------
(* The event streams. *)

\* A container of the application dies: a connected stream carries the event, and
\* one that is not connected never does (no Since in ListOptions).
ContainerDies(d) ==
  /\ deaths < MaxEvents /\ deaths' = deaths + 1
  /\ loop[d] = "stream"
  /\ queue' = [queue EXCEPT ![d] = @ + 1]
  /\ UNCHANGED <<lifeVars, projects, loop, holding, events, timers, entry, drops>>

\* streamEvents: the client and the event stream.
Connect(d) ==
  /\ loop[d] = "connect" /\ ~Cancelled(d)
  /\ loop' = [loop EXCEPT ![d] = "stream"]
  /\ UNCHANGED <<lifeVars, projects, queue, holding, deaths, events, timers, entry, drops>>

\* No client, an error from the stream, or a closed channel: back off.
Disconnect(d) ==
  /\ loop[d] \in {"connect", "stream"} /\ ~holding[d] /\ ~Cancelled(d)
  /\ drops < MaxDrops /\ drops' = drops + 1
  /\ loop' = [loop EXCEPT ![d] = "backoff"]
  /\ queue' = [queue EXCEPT ![d] = 0]
  /\ UNCHANGED <<lifeVars, projects, holding, deaths, events, timers, entry>>

Reconnect(d) ==
  /\ loop[d] = "backoff" /\ ~Cancelled(d)
  /\ loop' = [loop EXCEPT ![d] = "connect"]
  /\ UNCHANGED <<lifeVars, projects, queue, holding, deaths, events, timers, entry, drops>>

LoopExits(d) ==
  /\ loop[d] \in {"connect", "stream", "backoff"} /\ ~holding[d] /\ Cancelled(d)
  /\ loop' = [loop EXCEPT ![d] = "exited"]
  /\ queue' = [queue EXCEPT ![d] = 0]
  /\ UNCHANGED <<lifeVars, projects, holding, deaths, events, timers, entry, drops>>

\* handleEvent up to recordEvent: an event of a project that is not in the map, or of
\* an ignore-drift service, goes no further.
ReceiveEvent(d, ignored) ==
  /\ loop[d] = "stream" /\ ~holding[d] /\ queue[d] > 0
  /\ queue' = [queue EXCEPT ![d] = @ - 1]
  /\ holding' = [holding EXCEPT ![d] = projects /\ ~ignored]
  /\ UNCHANGED <<lifeVars, projects, loop, deaths, events, timers, entry, drops>>

-----------------------------------------------------------------------------
(* The debouncer. *)

\* Mutant: Debounce stops the timer that is pending and arms none.
DebounceDrops(d) ==
  /\ holding[d]
  /\ holding' = [holding EXCEPT ![d] = FALSE]
  /\ events' = events + 1
  /\ timers' = [n \in Timers |->
                  IF n = events + 1 THEN "stopped"
                  ELSE IF n = entry /\ timers[n] = "armed" THEN "stopped" ELSE timers[n]]
  /\ entry' = events + 1
  /\ UNCHANGED <<lifeVars, projects, loop, queue, deaths, drops>>

\* Debounce: the pending timer is stopped, unless it has fired, and a new one armed.
\* The bound never blocks it: every event here is a death of its own.
Debounce(d) ==
  /\ holding[d] /\ events < MaxEvents
  /\ holding' = [holding EXCEPT ![d] = FALSE]
  /\ events' = events + 1
  /\ timers' = [n \in Timers |->
                  IF n = events + 1 THEN "armed"
                  ELSE IF n = entry /\ timers[n] = "armed" THEN "stopped" ELSE timers[n]]
  /\ entry' = events + 1
  /\ UNCHANGED <<lifeVars, projects, loop, queue, deaths, drops>>

\* The window ends: the callback's goroutine starts and waits for the mutex ...
TimerFires(n) ==
  /\ timers[n] = "armed"
  /\ timers' = [timers EXCEPT ![n] = "fired"]
  /\ UNCHANGED <<lifeVars, projects, loop, queue, holding, deaths, events, entry, drops>>

\* ... deletes the key's timer, whichever it is by now ...
CallbackDeletes(n) ==
  /\ timers[n] = "fired"
  /\ timers' = [timers EXCEPT ![n] = "calling"]
  /\ entry' = 0
  /\ UNCHANGED <<lifeVars, projects, loop, queue, holding, deaths, events, drops>>

\* ... and calls TriggerReconcile.
CallbackTriggers(n) ==
  /\ timers[n] = "calling"
  /\ timers' = [timers EXCEPT ![n] = "done"]
  /\ UNCHANGED <<lifeVars, projects, loop, queue, holding, deaths, events, entry, drops>>

-----------------------------------------------------------------------------

StartStep == StoreContext \/ (\E b \in BOOLEAN : StartLoop(b)) \/ StopTimers \/ StartReturns
ServeStep == (\E h \in Hosts : WatchHost(h)) \/ Stop
LoopStep(d) ==
  \/ Connect(d) \/ Reconnect(d) \/ LoopExits(d)
  \/ (\E b \in BOOLEAN : ReceiveEvent(d, b)) \/ Debounce(d)
TimerStep(n) == TimerFires(n) \/ CallbackDeletes(n) \/ CallbackTriggers(n)
WatcherNext ==
  \/ StartStep \/ ServeStep \/ Signal
  \/ \E d \in Daemons : LoopStep(d) \/ Disconnect(d) \/ ContainerDies(d)
  \/ \E n \in Timers : TimerStep(n)

\* The goroutines run, the timers fire.  Signals, events and failures need not come.
WatcherFairness ==
  /\ WF_watcherVars(StartStep) /\ WF_watcherVars(ServeStep)
  /\ \A d \in Daemons : WF_watcherVars(LoopStep(d))
  /\ \A n \in Timers : WF_watcherVars(TimerStep(n))

WatcherSpec == WatcherInit /\ [][WatcherNext]_watcherVars /\ WatcherFairness

-----------------------------------------------------------------------------
(* Properties. *)

\* Every event that reaches the debouncer is followed by a TriggerReconcile that was
\* armed by it or by a later one, unless the watcher is being stopped: resetting a timer
\* never loses the last event of a burst, nor does a callback that deletes another
\* timer's entry (debounce.go:35).
EventIsFollowed ==
  \A n \in Timers :
    timers[n] # "unused" ~> rootDone \/ \E m \in n .. MaxEvents : timers[m] = "done"

\* After the signal every watch loop ends and Start returns, also the loop of a host
\* that WatchHost started before Start stored its context (watcher.go:263).
LoopsExit == rootDone ~> starting = "returned" /\ \A d \in Daemons : loop[d] = "exited"

\* While serve runs, a started loop whose stream breaks is connected again.
StreamResumes ==
  \A d \in Daemons : loop[d] # "none" ~> rootDone \/ loop[d] = "stream"

\* Does not hold: every timer still pending is the one the map holds, so that StopAll
\* and the next Debounce can stop it (debounce.go:37).
PendingIsTracked == \A n \in Timers : timers[n] = "armed" => entry = n
=============================================================================
