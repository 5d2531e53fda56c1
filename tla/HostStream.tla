----------------------------- MODULE HostStream -----------------------------
(***************************************************************************)
(* The event hub (internal/eventbus), the browser streams that read from   *)
(* it (StreamEvents, internal/api) and the host monitor                    *)
(* (internal/hostmon), one of its broadcasters, with the row of one docker *)
(* host.  Broadcast holds the hub's read lock while it offers the event to *)
(* each subscriber; subscribing and unsubscribing, which closes the        *)
(* channel, take the write lock.                                           *)
(***************************************************************************)
EXTENDS Naturals, Sequences

CONSTANTS
  Streams,      \* requests for the event stream
  ChanCap,      \* buffer of a subscriber's channel (64 in the code)
  MaxTurns      \* bound: changes of the host, other events and failed updates

ASSUME StreamAssumption == ChanCap \in Nat \ {0} /\ MaxTurns \in Nat

VARIABLES
  answering,    \* the docker host answers
  hostRow,      \* health_status of its row
  hostCheck,    \* the sweep: where it is, the status it listed and the one it found
  stream,       \* each request
  chan,         \* its channel
  closed,       \* channels that are closed
  told,         \* the last host_health event the browser got
  lossy,        \* history: streams an event was dropped for
  todo,         \* broadcaster -> subscribers still to be offered its event
  inside,       \* broadcasters that hold the read lock
  cancelled,    \* the monitor's context has ended
  missed,       \* history: an update of the row failed
  turns

streamVars == <<answering, hostRow, hostCheck, stream, chan, closed, told, lossy, todo,
                inside, cancelled, missed, turns>>
hostVars == <<answering, hostRow, cancelled, missed>>
clientVars == <<stream, closed, told>>

Broadcasters == {"host", "app"}
HostStatuses == {"Unknown", "Healthy", "Unreachable"}

StreamTypeOK ==
  /\ answering \in BOOLEAN /\ hostRow \in HostStatuses
  /\ hostCheck \in [pc : {"idle", "inspect", "save", "announce", "sending", "exited"},
                    old : HostStatuses, found : HostStatuses]
  /\ stream \in [Streams -> {"new", "open", "leaving", "left"}]
  /\ chan \in [Streams -> Seq(HostStatuses \cup {"app"})]
  /\ \A s \in Streams : Len(chan[s]) <= ChanCap
  /\ closed \subseteq Streams /\ lossy \subseteq Streams
  /\ told \in [Streams -> HostStatuses \cup {"none"}]
  /\ todo \in [Broadcasters -> SUBSET Streams] /\ inside \subseteq Broadcasters
  /\ cancelled \in BOOLEAN /\ missed \in BOOLEAN /\ turns \in 0 .. MaxTurns

StreamInit ==
  /\ answering = TRUE /\ hostRow = "Unknown"
  /\ hostCheck = [pc |-> "idle", old |-> "Unknown", found |-> "Unknown"]
  /\ stream = [s \in Streams |-> "new"]
  /\ chan = [s \in Streams |-> << >>]
  /\ closed = {} /\ lossy = {} /\ told = [s \in Streams |-> "none"]
  /\ todo = [b \in Broadcasters |-> {}] /\ inside = {}
  /\ cancelled = FALSE /\ missed = FALSE /\ turns = 0

Turn == turns < MaxTurns /\ turns' = turns + 1

-----------------------------------------------------------------------------
(* The hub. *)

Subscribers == {s \in Streams : stream[s] \in {"open", "leaving"}}

\* Broadcast takes the read lock ...
EnterBroadcast(b) ==
  /\ b \notin inside
  /\ inside' = inside \cup {b}
  /\ todo' = [todo EXCEPT ![b] = Subscribers]

\* ... and offers the event to each subscriber; a full channel drops it.
Offer(b, s, event) ==
  /\ b \in inside /\ s \in todo[b]
  /\ todo' = [todo EXCEPT ![b] = @ \ {s}]
  /\ IF Len(chan[s]) < ChanCap
       THEN chan' = [chan EXCEPT ![s] = Append(@, event)] /\ lossy' = lossy
       ELSE chan' = chan /\ lossy' = lossy \cup {s}
  /\ UNCHANGED <<hostVars, clientVars, hostCheck, inside, turns>>

LeaveBroadcast(b) ==
  /\ b \in inside /\ todo[b] = {}
  /\ inside' = inside \ {b}

\* Subscribe, under the write lock.
Subscribe(s) ==
  /\ stream[s] = "new" /\ inside = {}
  /\ stream' = [stream EXCEPT ![s] = "open"]
  /\ UNCHANGED <<hostVars, hostCheck, chan, closed, told, lossy, todo, inside, turns>>

\* Nobody reads the stream any more.
Forgotten(s) ==
  /\ chan' = [chan EXCEPT ![s] = << >>] /\ told' = [told EXCEPT ![s] = "none"]
  /\ lossy' = lossy \ {s}

\* Mutant: the channel is closed without the lock.
UnsubscribeUnlocked(s) ==
  /\ stream[s] = "leaving"
  /\ stream' = [stream EXCEPT ![s] = "left"]
  /\ closed' = closed \cup {s} /\ Forgotten(s)
  /\ UNCHANGED <<hostVars, hostCheck, todo, inside, turns>>

\* unsubscribe: removed and closed under the write lock.
Unsubscribe(s) ==
  /\ stream[s] = "leaving" /\ inside = {}
  /\ stream' = [stream EXCEPT ![s] = "left"]
  /\ closed' = closed \cup {s} /\ Forgotten(s)
  /\ UNCHANGED <<hostVars, hostCheck, todo, inside, turns>>

-----------------------------------------------------------------------------
(* StreamEvents. *)

ClientGoes(s) ==
  /\ stream[s] = "open"
  /\ stream' = [stream EXCEPT ![s] = "leaving"]
  /\ UNCHANGED <<hostVars, hostCheck, chan, closed, told, lossy, todo, inside, turns>>

SendToClient(s) ==
  /\ stream[s] = "open" /\ chan[s] # << >>
  /\ chan' = [chan EXCEPT ![s] = Tail(@)]
  /\ told' = [told EXCEPT ![s] = IF Head(chan[s]) = "app" THEN @ ELSE Head(chan[s])]
  /\ UNCHANGED <<hostVars, hostCheck, stream, closed, lossy, todo, inside, turns>>

-----------------------------------------------------------------------------
(* The host monitor; the other broadcasters are one that sends at any time. *)

HostFlips ==
  /\ Turn
  /\ answering' = ~answering
  /\ UNCHANGED <<hostRow, cancelled, missed, hostCheck, clientVars, chan, lossy, todo, inside>>

StopHostMonitor ==
  /\ ~cancelled
  /\ cancelled' = TRUE
  /\ UNCHANGED <<answering, hostRow, missed, hostCheck, clientVars, chan, lossy, todo, inside,
                 turns>>

\* sweep at the start and at each tick: the rows are listed, and each host is checked
\* by one goroutine; sweeps do not overlap.  With an ended context the list fails.
Sweep ==
  /\ hostCheck.pc = "idle"
  /\ hostCheck' = IF cancelled THEN [hostCheck EXCEPT !.pc = "exited"]
                  ELSE [pc |-> "inspect", old |-> hostRow, found |-> hostRow]
  /\ UNCHANGED <<hostVars, clientVars, chan, lossy, todo, inside, turns>>

\* SystemInfo, which fails when the host does not answer or the context has ended.
SystemInfo ==
  /\ hostCheck.pc = "inspect"
  /\ hostCheck' = [hostCheck EXCEPT !.pc = "save",
                     !.found = IF answering /\ ~cancelled THEN "Healthy" ELSE "Unreachable"]
  /\ UNCHANGED <<hostVars, clientVars, chan, lossy, todo, inside, turns>>

\* Mutant: only a host that goes down is announced.
ChangedDown(k) == k.found = "Unreachable" /\ k.old # "Unreachable"

Changed(k) == k.old # k.found

\* UpdateDockerHostStatus under the monitor's context; its failure is logged, and the
\* change is announced all the same.
UpdateDockerHostStatus ==
  /\ hostCheck.pc = "save"
  /\ \/ ~cancelled /\ hostRow' = hostCheck.found /\ UNCHANGED <<missed, turns>>
     \/ cancelled /\ missed' = TRUE /\ UNCHANGED <<hostRow, turns>>
     \/ ~cancelled /\ Turn /\ missed' = TRUE /\ UNCHANGED hostRow
  /\ hostCheck' = [hostCheck EXCEPT !.pc = IF Changed(hostCheck) THEN "announce" ELSE "idle"]
  /\ UNCHANGED <<answering, cancelled, clientVars, chan, lossy, todo, inside>>

\* broadcastHostHealth.
AnnounceHost ==
  \/ /\ hostCheck.pc = "announce" /\ EnterBroadcast("host")
     /\ hostCheck' = [hostCheck EXCEPT !.pc = "sending"]
     /\ UNCHANGED <<hostVars, clientVars, chan, lossy, turns>>
  \/ \E s \in Streams : Offer("host", s, hostCheck.found)
  \/ /\ hostCheck.pc = "sending" /\ LeaveBroadcast("host")
     /\ hostCheck' = [hostCheck EXCEPT !.pc = "idle"]
     /\ UNCHANGED <<hostVars, clientVars, chan, lossy, todo, turns>>

\* A sync, health or docker event of the reconciler, the health monitor or the watcher.
AnnounceApp ==
  \/ /\ Turn /\ EnterBroadcast("app")
     /\ UNCHANGED <<hostVars, clientVars, hostCheck, chan, lossy>>
  \/ \E s \in Streams : Offer("app", s, "app")
  \/ /\ LeaveBroadcast("app")
     /\ UNCHANGED <<hostVars, clientVars, hostCheck, chan, lossy, todo, turns>>

-----------------------------------------------------------------------------

StreamNext ==
  \/ \E s \in Streams : Subscribe(s) \/ Unsubscribe(s) \/ ClientGoes(s) \/ SendToClient(s)
  \/ HostFlips \/ StopHostMonitor \/ Sweep \/ SystemInfo \/ UpdateDockerHostStatus
  \/ AnnounceHost \/ AnnounceApp

StreamSpec == StreamInit /\ [][StreamNext]_streamVars

-----------------------------------------------------------------------------
(* Properties. *)

\* No event is offered to a channel that has been closed, which would end the process,
\* although clients leave while several broadcasts are under way (eventbus.go:48).
NoSendOnClosed == \A b \in Broadcasters : todo[b] \cap closed = {}

\* What a stream has heard of the host last, or will hear from its channel.
HostEvents(s) == {i \in DOMAIN chan[s] : chan[s][i] # "app"}
Known(s) ==
  IF HostEvents(s) = {} THEN told[s]
  ELSE chan[s][CHOOSE i \in HostEvents(s) : \A j \in HostEvents(s) : j <= i]

\* Between two sweeps a stream that has heard of the host, and was slow for no event, has
\* heard the status of the row: changes are announced once, in order, none is left out.
\* It needs the updates of the row to succeed: the status a failed update should have
\* written is announced, and its reversal is not (monitor.go:157).
StreamIsFaithful ==
  \A s \in Streams :
    hostCheck.pc = "idle" /\ ~missed /\ stream[s] = "open" /\ s \notin lossy
      => Known(s) \in {"none", hostRow}
=============================================================================
