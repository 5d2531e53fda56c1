------------------------------ MODULE ApiProofs ------------------------------
(***************************************************************************)
(* Proofs about three parts behind the HTTP interfaces: the caches of the  *)
(* API, the event streams with the host monitor that feeds them, and the   *)
(* pages of the web console.                                               *)
(***************************************************************************)
EXTENDS ApiCaches, HostStream, Presentation, FiniteSetTheorems, TLAPS

-----------------------------------------------------------------------------
(* ApiCaches, for every set of callers. *)

\* The requests that collect for a cache.
Collecting(c) == {r \in Callers : call[r].pc = "collect" /\ call[r].cache = c}

\* The wait channel of a cache is set exactly while a request collects for it, which
\* keeps a second one from collecting; a cancellation is never stored.
CachesInv ==
  /\ CachesTypeOK
  /\ \A c \in Caches : leader[c] = Collecting(c)
  /\ \A c \in Caches : \A q, r \in leader[c] : q = r
  /\ \A r \in Callers : call[r].pc = "wait" => leader[call[r].cache] # {}
  /\ \A c \in Caches : stored[c] # "cancelled"
  /\ NoForeignCancellation

\* Nothing is stored and nobody collects at the start.
LEMMA CachesInvInit == CachesInit => CachesInv
  BY SMTT(60) DEF CachesInit, CachesInv, CachesTypeOK, Collecting, NoCall, NoForeignCancellation, Caches

\* A step changes the variables within their types.
LEMMA CachesTyped == CachesTypeOK /\ [CachesNext]_cacheVars => CachesTypeOK'
<1> SUFFICES ASSUME CachesTypeOK, [CachesNext]_cacheVars PROVE CachesTypeOK'
  OBVIOUS
<1> USE DEF CachesTypeOK
<1> DEFINE Calls == [pc : {"idle", "look", "collect", "wait", "done"}, cache : Caches,
                     got : {"none", "sample", "error", "cancelled"}]
<1>1. ASSUME NEW r \in Callers, NEW c \in Caches, Arrive(r, c) PROVE CachesTypeOK'
  BY <1>1 DEF Arrive
<1>2. ASSUME NEW r \in Callers, ClientLeaves(r) PROVE CachesTypeOK'
  BY <1>2 DEF ClientLeaves
<1>3. ASSUME NEW c \in Caches, EntryExpires(c) PROVE CachesTypeOK'
  BY <1>3 DEF EntryExpires
<1>4. ASSUME NEW r \in Callers, Look(r) PROVE CachesTypeOK'
  BY <1>4, SMTT(60) DEF Look, Gets
<1>5. ASSUME NEW r \in Callers, NEW o \in {"sample", "error", "cancelled"}, Collected(r, o)
      PROVE CachesTypeOK'
  <2>1. ASSUME NEW k \in Calls
        PROVE  [k EXCEPT !.pc = "done", !.got = o] \in Calls /\ [k EXCEPT !.pc = "look"] \in Calls
    BY Zenon
  <2>2. call \in [Callers -> Calls]
    OBVIOUS
  <2> HIDE DEF Calls
  <2>3. call' \in [Callers -> Calls]
    BY <1>5, <2>1, <2>2, Zenon DEF Collected
  <2> QED
    BY <1>5, <2>3 DEF Collected, Calls
<1>6. ASSUME NEW r \in Callers, GiveUp(r) PROVE CachesTypeOK'
  <2>1. ASSUME NEW k \in Calls PROVE [k EXCEPT !.pc = "done", !.got = "cancelled"] \in Calls
    BY Zenon
  <2>2. call \in [Callers -> Calls]
    OBVIOUS
  <2>3. call' = [call EXCEPT ![r] = [call[r] EXCEPT !.pc = "done", !.got = "cancelled"]]
    BY <1>6, Zenon DEF GiveUp, Gets
  <2> HIDE DEF Calls
  <2>4. call' \in [Callers -> Calls]
    BY <2>1, <2>2, <2>3, Zenon
  <2> QED
    BY <1>6, <2>4 DEF GiveUp, Calls
<1>7. ASSUME NEW r \in Callers, Return(r) PROVE CachesTypeOK'
  BY <1>7 DEF Return, NoCall, Caches
<1> QED
  BY <1>1, <1>2, <1>3, <1>4, <1>5, <1>6, <1>7 DEF CachesNext, CallStep, cacheVars

\* A request that neither starts nor ends a collection, and that waits only for one, keeps
\* the invariant: who collects stays the same.
LEMMA CallerMoves ==
  ASSUME CachesInv, CachesTypeOK', NEW r \in Callers, leader' = leader,
         call[r].pc # "collect", call'[r].pc # "collect",
         call'[r].pc = "wait" => leader[call'[r].cache] # {},
         \A q \in Callers \ {r} : call'[q] = call[q],
         \A c \in Caches : stored'[c] # "cancelled",
         call'[r].got = "cancelled" => r \in gone', gone \ {r} \subseteq gone'
  PROVE  CachesInv'
<1>1. ASSUME NEW c \in Caches PROVE Collecting(c)' = Collecting(c)
  BY ZenonT(60) DEF Collecting
<1>2. NoForeignCancellation'
  BY Zenon DEF CachesInv, NoForeignCancellation
<1>3. ASSUME NEW q \in Callers, call'[q].pc = "wait" PROVE leader'[call'[q].cache] # {}
  BY <1>3, Zenon DEF CachesInv
<1> QED
  BY <1>1, <1>2, <1>3, ZenonT(60) DEF CachesInv

\* Every step keeps the invariant.
LEMMA CachesInvNext == CachesInv /\ [CachesNext]_cacheVars => CachesInv'
<1> SUFFICES ASSUME CachesInv, [CachesNext]_cacheVars PROVE CachesInv'
  OBVIOUS
<1>t. CachesTypeOK /\ CachesTypeOK'
  BY CachesTyped DEF CachesInv
<1> DEFINE Only(r) == \A q \in Callers \ {r} : call'[q] = call[q]
<1>1. ASSUME NEW r \in Callers, NEW c \in Caches, Arrive(r, c) PROVE CachesInv'
  <2>1. Only(r) /\ call'[r].pc = "look" /\ call'[r].got = "none"
    BY <1>1, <1>t DEF Arrive, CachesTypeOK
  <2> QED
    BY <1>1, <1>t, <2>1, CallerMoves, Zenon DEF Arrive, CachesInv
<1>2. ASSUME NEW r \in Callers, ClientLeaves(r) PROVE CachesInv'
  BY <1>2, <1>t DEF ClientLeaves, CachesInv, Collecting, NoForeignCancellation
<1>3. ASSUME NEW c \in Caches, EntryExpires(c) PROVE CachesInv'
  <2>1. \A d \in Caches : stored'[d] \in {"none", stored[d]}
    BY <1>3, <1>t DEF EntryExpires, CachesTypeOK
  <2> QED
    BY <1>3, <1>t, <2>1 DEF EntryExpires, CachesInv, Collecting, NoForeignCancellation
<1>4. ASSUME NEW r \in Callers, Look(r) PROVE CachesInv'
  <2> DEFINE c == call[r].cache
  <2>1. c \in Caches /\ call'[r].cache = c /\ Only(r)
    BY <1>4, <1>t DEF Look, Gets, CachesTypeOK
  <2>2. CASE stored[c] # "none"
    <3>1. call'[r].pc = "done" /\ call'[r].got = stored[c] /\ leader' = leader
      BY <1>4, <1>t, <2>2 DEF Look, Gets, CachesTypeOK
    <3> QED
      BY <1>4, <1>t, <2>1, <3>1, CallerMoves, Zenon DEF Look, CachesInv
  <2>3. CASE stored[c] = "none" /\ leader[c] = {}
    <3>1. /\ call'[r].pc = "collect" /\ call'[r].got = call[r].got
          /\ leader'[c] = {r} /\ \A d \in Caches \ {c} : leader'[d] = leader[d]
      BY <1>4, <1>t, <2>3 DEF Look, CachesTypeOK
    <3>2. (\A d \in Caches : leader[d] = Collecting(d))'
      <4> SUFFICES ASSUME NEW d \in Caches PROVE leader'[d] = Collecting(d)'
        OBVIOUS
      <4>1. leader[d] = Collecting(d)
        BY DEF CachesInv
      <4>2. \A q \in Callers \ {r} : q \in Collecting(d)' <=> q \in Collecting(d)
        BY <2>1 DEF Collecting
      <4>3. r \in Collecting(d)' <=> d = c
        BY <2>1, <3>1 DEF Collecting
      <4>4. r \notin Collecting(d) /\ Collecting(d) \subseteq Callers /\ Collecting(d)' \subseteq Callers
        BY <1>4 DEF Look, Collecting
      <4> QED
        BY <2>3, <3>1, <4>1, <4>2, <4>3, <4>4, SMTT(60)
    <3>3. (\A q \in Callers : call[q].pc = "wait" => leader[call[q].cache] # {})'
      <4> SUFFICES ASSUME NEW q \in Callers, call'[q].pc = "wait"
                   PROVE  leader'[call'[q].cache] # {}
        OBVIOUS
      <4>1. q # r /\ call'[q] = call[q]
        BY <2>1, <3>1
      <4>2. call[q].cache \in Caches /\ leader[call[q].cache] # {}
        BY <1>t, <4>1 DEF CachesInv, CachesTypeOK
      <4> QED
        BY <3>1, <4>1, <4>2
    <3>4. NoForeignCancellation' /\ stored' = stored
      BY <1>4, <2>1, <3>1 DEF Look, CachesInv, NoForeignCancellation
    <3> QED
      BY <1>t, <3>1, <3>2, <3>3, <3>4 DEF CachesInv
  <2>4. CASE stored[c] = "none" /\ leader[c] # {}
    <3>1. call'[r].pc = "wait" /\ call'[r].got = call[r].got /\ leader' = leader
      BY <1>4, <1>t, <2>4 DEF Look, CachesTypeOK
    <3> QED
      BY <1>4, <1>t, <2>1, <2>4, <3>1, CallerMoves, Zenon
         DEF Look, CachesInv, NoForeignCancellation
  <2> QED
    BY <2>2, <2>3, <2>4
<1>5. ASSUME NEW r \in Callers, NEW o \in {"sample", "error", "cancelled"}, Collected(r, o)
      PROVE CachesInv'
  <2> DEFINE c == call[r].cache
  <2>0. c \in Caches /\ r \in Collecting(c)
    BY <1>5, <1>t DEF Collected, CachesTypeOK, Collecting
  <2>1. /\ c \in Caches /\ leader[c] = {r}
        /\ leader'[c] = {} /\ \A d \in Caches \ {c} : leader'[d] = leader[d]
    <3>1. leader[c] = {r}
      BY <2>0 DEF CachesInv
    <3> QED
      BY <1>5, <1>t, <2>0, <3>1 DEF Collected, CachesTypeOK
  <2>2. call'[r].pc = "done" /\ call'[r].got = o /\ call'[r].cache = c
    <3>1. call'[r] = [call[r] EXCEPT !.pc = "done", !.got = o]
      BY <1>5 DEF Collected
    <3> QED
      BY <3>1, <1>t DEF CachesTypeOK
  <2>3. ASSUME NEW q \in Callers \ {r}
        PROVE  /\ call'[q].cache = call[q].cache /\ call'[q].got = call[q].got
               /\ \/ call'[q].pc = call[q].pc /\ ~(call[q].pc = "wait" /\ call[q].cache = c)
                  \/ call'[q].pc = "look" /\ call[q].pc = "wait"
    BY <1>5, <1>t DEF Collected, CachesTypeOK
  <2>4. (\A d \in Caches : leader[d] = Collecting(d))'
    <3> SUFFICES ASSUME NEW d \in Caches PROVE leader'[d] = Collecting(d)'
      OBVIOUS
    <3>1. leader[d] = Collecting(d)
      BY DEF CachesInv
    <3>2. \A q \in Callers \ {r} : q \in Collecting(d)' <=> q \in Collecting(d)
      BY <2>3 DEF Collecting
    <3>3. r \notin Collecting(d)' /\ (r \in Collecting(d) => d = c)
      BY <2>2 DEF Collecting
    <3>4. Collecting(d) \subseteq Callers /\ Collecting(d)' \subseteq Callers
      BY DEF Collecting
    <3> QED
      BY <2>1, <3>1, <3>2, <3>3, <3>4
  <2>5. (\A q \in Callers : call[q].pc = "wait" => leader[call[q].cache] # {})'
    <3> SUFFICES ASSUME NEW q \in Callers, call'[q].pc = "wait"
                 PROVE  leader'[call'[q].cache] # {}
      OBVIOUS
    <3>1. q # r
      BY <2>2
    <3>2. call[q].pc = "wait" /\ call'[q].cache = call[q].cache /\ call[q].cache # c
      BY <2>3, <3>1, Zenon
    <3>3. call[q].cache \in Caches /\ leader[call[q].cache] # {}
      BY <1>t, <3>2, Zenon DEF CachesInv, CachesTypeOK
    <3> QED
      BY <2>1, <3>2, <3>3, Zenon
  <2>6. o = "cancelled" => r \in gone /\ c = "hosts"
    BY <1>5 DEF Collected, Outcomes
  <2>7. (\A d \in Caches : stored[d] # "cancelled")'
    <3>1. \A d \in Caches : stored'[d] \in {o, stored[d]} /\ (o = "cancelled" => stored'[d] = stored[d])
      BY <1>5, <1>t, <2>6 DEF Collected, CachesTypeOK
    <3> QED
      BY <3>1, Zenon DEF CachesInv
  <2>8. NoForeignCancellation'
    BY <1>5, <2>2, <2>3, <2>6 DEF Collected, CachesInv, NoForeignCancellation
  <2> QED
    BY <1>t, <2>1, <2>4, <2>5, <2>7, <2>8 DEF CachesInv
<1>6. ASSUME NEW r \in Callers, GiveUp(r) PROVE CachesInv'
  <2>1. Only(r) /\ call'[r].pc = "done" /\ call'[r].cache = call[r].cache
    BY <1>6, <1>t DEF GiveUp, Gets, CachesTypeOK
  <2> QED
    BY <1>6, <1>t, <2>1, CallerMoves, Zenon DEF GiveUp, CachesInv
<1>7. ASSUME NEW r \in Callers, Return(r) PROVE CachesInv'
  <2>1. Only(r) /\ call'[r].pc = "idle" /\ call'[r].got = "none"
    BY <1>7, <1>t DEF Return, NoCall, CachesTypeOK
  <2> QED
    BY <1>7, <1>t, <2>1, CallerMoves, Zenon DEF Return, CachesInv
<1>8. CASE UNCHANGED cacheVars
  BY <1>8 DEF cacheVars, CachesInv, CachesTypeOK, Collecting, NoForeignCancellation
<1> QED
  BY <1>1, <1>2, <1>3, <1>4, <1>5, <1>6, <1>7, <1>8 DEF CachesNext, CallStep

\* The set of leaders has at most one member.
LEMMA OneLeader == CachesInv => SingleFlight
<1> SUFFICES ASSUME CachesInv, NEW c \in Caches PROVE Cardinality(leader[c]) <= 1
  BY DEF CachesInv, SingleFlight, Collecting
<1>1. CASE leader[c] = {}
  BY <1>1, FS_EmptySet
<1>2. CASE leader[c] # {}
  <2>1. PICK r \in leader[c] : TRUE
    BY <1>2
  <2>2. leader[c] = {r}
    BY <2>1 DEF CachesInv
  <2> QED
    BY <2>2, FS_Singleton
<1> QED
  BY <1>1, <1>2

\* At any time at most one request collects for each cache, and a request waits only while
\* another collects for it: get starts a collection only when wait is nil (server.go:74).
THEOREM OneCollectionAtATime == CachesSpec => []SingleFlight
  BY CachesInvInit, CachesInvNext, OneLeader, PTL DEF CachesSpec

\* A request is answered with a cancellation only if its own client has left, whoever led
\* the collection it waited for (server.go:78).
THEOREM NoForeignCancellations == CachesSpec => []NoForeignCancellation
<1>1. CachesInv => NoForeignCancellation
  BY DEF CachesInv
<1> QED
  BY <1>1, CachesInvInit, CachesInvNext, PTL DEF CachesSpec

-----------------------------------------------------------------------------
(* HostStream, for any number of streams and any size of their channels. *)

\* A broadcast under way has the read lock, and what it has left to do are channels of
\* subscribers; the closed channels are those of streams that have left.
HubInv ==
  /\ stream \in [Streams -> {"new", "open", "leaving", "left"}]
  /\ todo \in [Broadcasters -> SUBSET Streams]
  /\ closed \subseteq Streams /\ inside \subseteq Broadcasters
  /\ \A s \in closed : stream[s] = "left"
  /\ \A b \in Broadcasters : todo[b] # {} => b \in inside
  /\ \A b \in Broadcasters : todo[b] \subseteq Subscribers

\* Nobody has subscribed at the start.
LEMMA HubInvInit == StreamInit => HubInv
  BY DEF StreamInit, HubInv, Subscribers

\* A broadcast that begins takes the subscribers of that moment.
LEMMA Entering ==
  ASSUME HubInv, NEW b \in Broadcasters, EnterBroadcast(b), UNCHANGED clientVars
  PROVE  HubInv'
  BY DEF HubInv, EnterBroadcast, clientVars, Subscribers

\* An offer takes a subscriber off the list.
LEMMA Offering ==
  ASSUME HubInv, NEW b \in Broadcasters, NEW s \in Streams, NEW e, Offer(b, s, e)
  PROVE  HubInv'
<1>1. todo' = [todo EXCEPT ![b] = todo[b] \ {s}] /\ b \in inside
  BY DEF Offer
<1>2. UNCHANGED <<stream, closed, inside>>
  BY DEF Offer, clientVars
<1> QED
  BY <1>1, <1>2 DEF HubInv, Subscribers

\* The lock is released when the list is empty.
LEMMA Leaving ==
  ASSUME HubInv, NEW b \in Broadcasters, LeaveBroadcast(b), UNCHANGED <<clientVars, todo>>
  PROVE  HubInv'
  BY DEF HubInv, LeaveBroadcast, clientVars, Subscribers

\* Every step keeps the invariant; unsubscribing waits until no broadcast is under way.
LEMMA HubInvNext == HubInv /\ [StreamNext]_streamVars => HubInv'
<1> SUFFICES ASSUME HubInv, [StreamNext]_streamVars PROVE HubInv'
  OBVIOUS
<1> DEFINE Same == UNCHANGED <<stream, closed, todo, inside>>
<1>0. Same => HubInv'
  BY DEF HubInv, Subscribers
<1>1. ASSUME NEW s \in Streams, Subscribe(s) PROVE HubInv'
  BY <1>1 DEF Subscribe, HubInv, Subscribers
<1>2. ASSUME NEW s \in Streams, Unsubscribe(s) PROVE HubInv'
  <2>1. \A b \in Broadcasters : todo[b] = {}
    BY <1>2 DEF Unsubscribe, HubInv
  <2> QED
    BY <1>2, <2>1 DEF Unsubscribe, HubInv, Subscribers
<1>3. ASSUME NEW s \in Streams, ClientGoes(s) PROVE HubInv'
  BY <1>3 DEF ClientGoes, HubInv, Subscribers
<1>4. ASSUME NEW s \in Streams, SendToClient(s) PROVE HubInv'
  BY <1>0, <1>4 DEF SendToClient
<1>5. CASE HostFlips \/ StopHostMonitor \/ Sweep \/ SystemInfo \/ UpdateDockerHostStatus
  BY <1>0, <1>5 DEF HostFlips, StopHostMonitor, Sweep, SystemInfo, UpdateDockerHostStatus,
                    clientVars
<1>6. CASE AnnounceHost
  BY <1>6, Entering, Offering, Leaving DEF AnnounceHost, Broadcasters
<1>7. CASE AnnounceApp
  BY <1>7, Entering, Offering, Leaving DEF AnnounceApp, Broadcasters
<1>8. CASE UNCHANGED streamVars
  BY <1>0, <1>8 DEF streamVars
<1> QED
  BY <1>1, <1>2, <1>3, <1>4, <1>5, <1>6, <1>7, <1>8 DEF StreamNext

\* Broadcast never offers an event to a channel that unsubscribe has closed, however many
\* clients leave and broadcasts overlap: both sides hold the hub's lock (eventbus.go:48, 63).
THEOREM ClosedChannelsAreLeftAlone == StreamSpec => []NoSendOnClosed
<1>1. HubInv => NoSendOnClosed
  BY DEF HubInv, NoSendOnClosed, Subscribers
<1> QED
  BY <1>1, HubInvInit, HubInvNext, PTL DEF StreamSpec

-----------------------------------------------------------------------------
(* What the streams hear. *)

\* What is known of the host last, from a channel and what was told before, is in V.
Heard(c, t, V) ==
  \/ t \in V /\ \A i \in DOMAIN c : c[i] = "app"
  \/ \E i \in DOMAIN c : /\ c[i] # "app" /\ c[i] \in V
                         /\ \A j \in DOMAIN c : j > i => c[j] = "app"

\* The status a stream should know of: the one before the change until it is offered.
Due(s) ==
  IF hostCheck.pc = "announce" \/ (hostCheck.pc = "sending" /\ s \in todo["host"])
  THEN hostCheck.old ELSE hostRow

\* The sweep knows the row it lists, and the row it announces.
MonitorKnows ==
  /\ hostCheck.pc \in {"inspect", "save"} => hostCheck.old = hostRow
  /\ hostCheck.pc \in {"announce", "sending"} => hostCheck.found = hostRow

\* Each stream that misses no event knows what is due to it, or nothing.
StreamsKnow ==
  \A s \in Streams : stream[s] = "open" /\ s \notin lossy =>
    Heard(chan[s], told[s], {"none", Due(s)})

\* The monitor broadcasts while it holds the read lock, a request that has not subscribed
\* has heard nothing, and both sides know the row while no update of it has failed.
FaithfulInv ==
  /\ StreamTypeOK
  /\ "host" \in inside <=> hostCheck.pc = "sending"
  /\ \A s \in Streams : stream[s] = "new" => chan[s] = << >> /\ told[s] = "none"
  /\ ~missed => MonitorKnows /\ StreamsKnow

HostEventSeqs == Seq(HostStatuses \cup {"app"})

\* The sequence a channel becomes.
LEMMA AppendFacts ==
  ASSUME NEW c \in HostEventSeqs, NEW e \in HostStatuses \cup {"app"}
  PROVE  /\ DOMAIN Append(c, e) = 1 .. Len(c) + 1
         /\ DOMAIN c = 1 .. Len(c) /\ Len(c) \in Nat
         /\ \A i \in 1 .. Len(c) : Append(c, e)[i] = c[i]
         /\ Append(c, e)[Len(c) + 1] = e
  BY DEF HostEventSeqs

\* A host event that is appended is what is known from then on.
LEMMA HeardHost ==
  ASSUME NEW c \in HostEventSeqs, NEW t, NEW V, NEW e \in HostStatuses, e # "app", e \in V
  PROVE  Heard(Append(c, e), t, V)
<1>1. Len(c) + 1 \in DOMAIN Append(c, e) /\ Append(c, e)[Len(c) + 1] = e
  BY AppendFacts
<1>2. \A j \in DOMAIN Append(c, e) : ~(j > Len(c) + 1)
  BY AppendFacts
<1> QED
  BY <1>1, <1>2 DEF Heard

\* Another event changes nothing in what is known of the host.
LEMMA HeardApp ==
  ASSUME NEW c \in HostEventSeqs, NEW t, NEW V, Heard(c, t, V)
  PROVE  Heard(Append(c, "app"), t, V)
<1> DEFINE d == Append(c, "app")
<1>1. /\ DOMAIN d = 1 .. Len(c) + 1 /\ DOMAIN c = 1 .. Len(c) /\ Len(c) \in Nat
      /\ \A i \in 1 .. Len(c) : d[i] = c[i]
      /\ d[Len(c) + 1] = "app"
  BY AppendFacts
<1> HIDE DEF d
<1>2. \A i \in DOMAIN d : i \in DOMAIN c \/ d[i] = "app"
  BY <1>1
<1>3. CASE t \in V /\ \A i \in DOMAIN c : c[i] = "app"
  BY <1>1, <1>2, <1>3 DEF Heard, d
<1>4. ASSUME NEW i \in DOMAIN c, c[i] # "app", c[i] \in V,
             \A j \in DOMAIN c : j > i => c[j] = "app"
      PROVE  Heard(d, t, V)
  <2>1. i \in DOMAIN d /\ d[i] = c[i]
    BY <1>1
  <2>2. \A j \in DOMAIN d : j > i => d[j] = "app"
    BY <1>1, <1>2, <1>4
  <2> QED
    BY <1>4, <2>1, <2>2 DEF Heard
<1> QED
  BY <1>3, <1>4, Zenon DEF Heard, d

\* Taking the first event out of the channel and telling the browser changes nothing in
\* what is known of the host.
LEMMA HeardTail ==
  ASSUME NEW c \in HostEventSeqs, c # << >>, NEW t, NEW V, Heard(c, t, V)
  PROVE  Heard(Tail(c), IF Head(c) = "app" THEN t ELSE Head(c), V)
<1>1. /\ Len(c) \in Nat /\ DOMAIN c = 1 .. Len(c) /\ Head(c) = c[1] /\ Len(c) > 0
      /\ DOMAIN Tail(c) = 1 .. Len(c) - 1
      /\ \A i \in 1 .. Len(c) - 1 : Tail(c)[i] = c[i + 1]
  BY DEF HostEventSeqs
<1>2. CASE t \in V /\ \A i \in DOMAIN c : c[i] = "app"
  <2>1. \A i \in DOMAIN Tail(c) : i + 1 \in DOMAIN c
    BY <1>1
  <2> QED
    BY <1>1, <1>2, <2>1 DEF Heard
<1>3. ASSUME NEW i \in DOMAIN c, c[i] # "app", c[i] \in V,
             \A j \in DOMAIN c : j > i => c[j] = "app"
      PROVE  Heard(Tail(c), IF Head(c) = "app" THEN t ELSE Head(c), V)
  <2>1. \A j \in DOMAIN Tail(c) : j + 1 \in DOMAIN c /\ Tail(c)[j] = c[j + 1]
    BY <1>1
  <2>2. CASE i = 1
    <3>1. \A j \in DOMAIN Tail(c) : j + 1 > 1
      BY <1>1
    <3> QED
      BY <1>1, <1>3, <2>1, <2>2, <3>1 DEF Heard
  <2>3. CASE i # 1
    <3>1. i - 1 \in DOMAIN Tail(c) /\ Tail(c)[i - 1] = c[i]
      BY <1>1, <2>3
    <3>2. \A j \in DOMAIN Tail(c) : j > i - 1 => j + 1 > i
      BY <1>1
    <3>3. \A j \in DOMAIN Tail(c) : j > i - 1 => Tail(c)[j] = "app"
      BY <1>3, <2>1, <3>2
    <3> QED
      BY <1>3, <3>1, <3>3 DEF Heard
  <2> QED
    BY <2>2, <2>3
<1> QED
  BY <1>2, <1>3, Zenon DEF Heard

\* The property reads the same knowledge off the channel.
LEMMA KnownIsHeard ==
  ASSUME NEW s \in Streams, chan[s] \in HostEventSeqs, NEW V, Heard(chan[s], told[s], V)
  PROVE  Known(s) \in V
<1>1. CASE \A i \in DOMAIN chan[s] : chan[s][i] = "app"
  BY <1>1, Zenon DEF Heard, Known, HostEvents
<1>2. ASSUME NEW i \in DOMAIN chan[s], chan[s][i] # "app", chan[s][i] \in V,
             \A j \in DOMAIN chan[s] : j > i => chan[s][j] = "app"
      PROVE  Known(s) \in V
  <2>1. DOMAIN chan[s] \subseteq Nat
    BY DEF HostEventSeqs
  <2>2. i \in HostEvents(s) /\ \A j \in HostEvents(s) : j <= i
    BY <1>2, <2>1 DEF HostEvents
  <2> DEFINE m == CHOOSE k \in HostEvents(s) : \A j \in HostEvents(s) : j <= k
  <2>3. m \in HostEvents(s) /\ \A j \in HostEvents(s) : j <= m
    BY <2>2
  <2>4. HostEvents(s) \subseteq Nat
    BY <2>1 DEF HostEvents
  <2>5. m = i
    BY <2>2, <2>3, <2>4
  <2> QED
    BY <1>2, <2>2, <2>5, Zenon DEF Known
<1> QED
  BY <1>1, <1>2, Zenon DEF Heard

\* Type correctness of the hub, the streams and the monitor.
LEMMA StreamTypeInit == StreamInit => StreamTypeOK
<1>1. << >> \in HostEventSeqs /\ Len(<< >>) = 0
  BY DEF HostEventSeqs
<1> SUFFICES ASSUME StreamInit PROVE StreamTypeOK
  OBVIOUS
<1>2. chan \in [Streams -> HostEventSeqs] /\ \A s \in Streams : Len(chan[s]) <= ChanCap
  BY <1>1, StreamAssumption DEF StreamInit
<1>3. turns \in 0 .. MaxTurns
  BY StreamAssumption DEF StreamInit
<1>4. /\ hostRow \in HostStatuses
      /\ hostCheck \in [pc : {"idle", "inspect", "save", "announce", "sending", "exited"},
                        old : HostStatuses, found : HostStatuses]
  BY DEF StreamInit, HostStatuses
<1>5. /\ stream \in [Streams -> {"new", "open", "leaving", "left"}]
      /\ told \in [Streams -> HostStatuses \cup {"none"}]
      /\ todo \in [Broadcasters -> SUBSET Streams]
  BY DEF StreamInit
<1>6. answering \in BOOLEAN /\ cancelled \in BOOLEAN /\ missed \in BOOLEAN
  BY Zenon DEF StreamInit
<1>7. closed \subseteq Streams /\ lossy \subseteq Streams /\ inside \subseteq Broadcasters
  BY DEF StreamInit
<1> QED
  BY <1>2, <1>3, <1>4, <1>5, <1>6, <1>7 DEF StreamTypeOK, HostEventSeqs

\* An offer keeps the channels within their buffers.
LEMMA OfferType ==
  ASSUME StreamTypeOK, NEW b \in Broadcasters, NEW s \in Streams,
         NEW e \in HostStatuses \cup {"app"}, Offer(b, s, e)
  PROVE  StreamTypeOK'
<1>1. CASE Len(chan[s]) < ChanCap
  <2>1. chan' = [chan EXCEPT ![s] = Append(chan[s], e)] /\ lossy' = lossy
    BY <1>1 DEF Offer
  <2>2. /\ Append(chan[s], e) \in Seq(HostStatuses \cup {"app"})
        /\ Len(Append(chan[s], e)) = Len(chan[s]) + 1 /\ Len(chan[s]) \in Nat
    BY DEF StreamTypeOK
  <2>3. \A r \in Streams : Len(chan'[r]) <= ChanCap
    BY <1>1, <2>1, <2>2, StreamAssumption, SMTT(60) DEF StreamTypeOK
  <2>4. chan' \in [Streams -> Seq(HostStatuses \cup {"app"})]
    BY <2>1, <2>2, SMTT(60) DEF StreamTypeOK
  <2> QED
    BY <2>1, <2>3, <2>4, Zenon DEF StreamTypeOK, Offer, hostVars, clientVars
<1>2. CASE ~(Len(chan[s]) < ChanCap)
  BY <1>2, ZenonT(60) DEF StreamTypeOK, Offer, hostVars, clientVars
<1> QED
  BY <1>1, <1>2

\* Every step keeps the types.
LEMMA StreamTypeStep == StreamTypeOK /\ [StreamNext]_streamVars => StreamTypeOK'
<1> SUFFICES ASSUME StreamTypeOK, [StreamNext]_streamVars PROVE StreamTypeOK'
  OBVIOUS
<1> USE DEF StreamTypeOK, hostVars, clientVars
<1>0. Turn => turns' \in 0 .. MaxTurns
  BY StreamAssumption DEF Turn
<1>1. ASSUME NEW s \in Streams, Subscribe(s) PROVE StreamTypeOK'
  BY <1>1, Zenon DEF Subscribe
<1>2. ASSUME NEW s \in Streams, Unsubscribe(s) PROVE StreamTypeOK'
  <2>1. << >> \in Seq(HostStatuses \cup {"app"}) /\ Len(<< >>) = 0
    OBVIOUS
  <2>2. chan' \in [Streams -> Seq(HostStatuses \cup {"app"})]
    BY <1>2, <2>1 DEF Unsubscribe, Forgotten
  <2>3. \A r \in Streams : Len(chan'[r]) <= ChanCap
    BY <1>2, <2>1, StreamAssumption DEF Unsubscribe, Forgotten
  <2> QED
    BY <1>2, <2>2, <2>3, Zenon DEF Unsubscribe, Forgotten
<1>3. ASSUME NEW s \in Streams, ClientGoes(s) PROVE StreamTypeOK'
  BY <1>3, Zenon DEF ClientGoes
<1>4. ASSUME NEW s \in Streams, SendToClient(s) PROVE StreamTypeOK'
  <2>1. /\ Tail(chan[s]) \in Seq(HostStatuses \cup {"app"})
        /\ Len(Tail(chan[s])) = Len(chan[s]) - 1 /\ Len(chan[s]) \in Nat
        /\ Head(chan[s]) \in HostStatuses \cup {"app"}
    BY <1>4 DEF SendToClient
  <2>2. chan' \in [Streams -> Seq(HostStatuses \cup {"app"})]
    BY <1>4, <2>1, Zenon DEF SendToClient
  <2>3. \A r \in Streams : Len(chan'[r]) <= ChanCap
    BY <1>4, <2>1, StreamAssumption DEF SendToClient
  <2>4. told' \in [Streams -> HostStatuses \cup {"none"}]
    BY <1>4, <2>1, Zenon DEF SendToClient
  <2> QED
    BY <1>4, <2>2, <2>3, <2>4, Zenon DEF SendToClient
<1>5. CASE HostFlips
  BY <1>5, <1>0, Zenon DEF HostFlips
<1>6. CASE StopHostMonitor
  BY <1>6, Zenon DEF StopHostMonitor
<1>7. CASE Sweep
  BY <1>7, Zenon DEF Sweep
<1>8. CASE SystemInfo
  BY <1>8, ZenonT(60) DEF SystemInfo, HostStatuses
<1>9. CASE UpdateDockerHostStatus
  BY <1>9, <1>0, Zenon DEF UpdateDockerHostStatus
<1>10. CASE AnnounceHost
  <2>1. ASSUME NEW s \in Streams, Offer("host", s, hostCheck.found) PROVE StreamTypeOK'
    BY <2>1, OfferType, Zenon DEF Broadcasters
  <2>2. CASE /\ hostCheck.pc = "announce" /\ EnterBroadcast("host")
             /\ hostCheck' = [hostCheck EXCEPT !.pc = "sending"]
             /\ UNCHANGED <<hostVars, clientVars, chan, lossy, turns>>
    <3>1. todo' \in [Broadcasters -> SUBSET Streams] /\ inside' \subseteq Broadcasters
      BY <2>2 DEF EnterBroadcast, Subscribers, Broadcasters
    <3> QED
      BY <2>2, <3>1, Zenon
  <2>3. CASE /\ hostCheck.pc = "sending" /\ LeaveBroadcast("host")
             /\ hostCheck' = [hostCheck EXCEPT !.pc = "idle"]
             /\ UNCHANGED <<hostVars, clientVars, chan, lossy, todo, turns>>
    BY <2>3, Zenon DEF LeaveBroadcast
  <2> QED
    BY <1>10, <2>1, <2>2, <2>3, SMTT(60) DEF AnnounceHost
<1>11. CASE AnnounceApp
  <2>1. ASSUME NEW s \in Streams, Offer("app", s, "app") PROVE StreamTypeOK'
    BY <2>1, OfferType, Zenon DEF Broadcasters
  <2>2. CASE /\ Turn /\ EnterBroadcast("app")
             /\ UNCHANGED <<hostVars, clientVars, hostCheck, chan, lossy>>
    <3>1. todo' \in [Broadcasters -> SUBSET Streams] /\ inside' \subseteq Broadcasters
      BY <2>2 DEF EnterBroadcast, Subscribers, Broadcasters
    <3> QED
      BY <2>2, <1>0, <3>1, SMTT(60)
  <2>3. CASE /\ LeaveBroadcast("app")
             /\ UNCHANGED <<hostVars, clientVars, hostCheck, chan, lossy, todo, turns>>
    BY <2>3, Zenon DEF LeaveBroadcast
  <2> QED
    BY <1>11, <2>1, <2>2, <2>3, Zenon DEF AnnounceApp
<1>12. CASE UNCHANGED streamVars
  BY <1>12, SMTT(60) DEF streamVars
<1> QED
  BY <1>1, <1>2, <1>3, <1>4, <1>5, <1>6, <1>7, <1>8, <1>9, <1>10, <1>11, <1>12, Zenon DEF StreamNext

\* An offer of an event that is "app" or due from now on keeps what the streams know.
LEMMA OfferKeepsStreams ==
  ASSUME StreamTypeOK, StreamsKnow, NEW b \in Broadcasters, NEW s \in Streams,
         NEW e \in HostStatuses \cup {"app"}, Offer(b, s, e),
         b = "host" => hostCheck.pc = "sending" /\ e = hostRow,
         b = "app" => e = "app"
  PROVE  StreamsKnow'
<1> SUFFICES ASSUME NEW r \in Streams, stream'[r] = "open", r \notin lossy'
             PROVE  Heard(chan'[r], told'[r], {"none", Due(r)'})
  BY Zenon DEF StreamsKnow
<1>1. /\ UNCHANGED <<hostRow, hostCheck, stream, told>>
      /\ todo' = [todo EXCEPT ![b] = todo[b] \ {s}]
  BY Zenon DEF Offer, hostVars, clientVars
<1>2. r \notin lossy
  BY Zenon DEF Offer
<1>3. Heard(chan[r], told[r], {"none", Due(r)})
  BY <1>1, <1>2, Zenon DEF StreamsKnow
<1>4. CASE r # s
  <2>1. chan'[r] = chan[r]
    BY <1>4, Zenon DEF Offer, StreamTypeOK
  <2>2. Due(r)' = Due(r)
    BY <1>1, <1>4, Zenon DEF Due, StreamTypeOK, Broadcasters
  <2> QED
    BY <1>1, <1>3, <2>1, <2>2, Zenon
<1>5. CASE r = s
  <2>1. chan'[s] = Append(chan[s], e) /\ chan[s] \in HostEventSeqs
    BY <1>5, Zenon DEF Offer, StreamTypeOK, HostEventSeqs
  <2>2. CASE b = "app"
    <3>1. Due(s)' = Due(s)
      BY <1>1, <2>2, Zenon DEF Due, StreamTypeOK, Broadcasters
    <3>2. Heard(Append(chan[s], e), told[s], {"none", Due(s)})
      BY <1>3, <1>5, <2>1, <2>2, HeardApp, SMTT(60)
    <3> QED
      BY <1>1, <1>5, <2>1, <3>1, <3>2, Zenon
  <2>3. CASE b = "host"
    <3>1. Due(s)' = e
      BY <1>1, <2>3 DEF Due, StreamTypeOK, Broadcasters
    <3>2. e # "app"
      BY <2>3 DEF StreamTypeOK, HostStatuses
    <3>3. Heard(Append(chan[s], e), told[s], {"none", e})
      BY <2>1, <2>3, <3>2, HeardHost, Zenon DEF StreamTypeOK
    <3> QED
      BY <1>1, <1>5, <2>1, <3>1, <3>3, Zenon
  <2> QED
    BY <2>2, <2>3, Zenon DEF Broadcasters
<1> QED
  BY <1>4, <1>5, Zenon

\* Where the streams, their channels and what is due to them stay, so does what they know.
LEMMA SameKeepsStreams ==
  ASSUME StreamsKnow, UNCHANGED <<stream, lossy, chan, told>>,
         \A s \in Streams : stream[s] = "open" => Due(s)' = Due(s)
  PROVE  StreamsKnow'
  BY Zenon DEF StreamsKnow

\* While updates of the row succeed every step keeps what the monitor and the streams know.
LEMMA KnowledgeStep ==
  ASSUME FaithfulInv, [StreamNext]_streamVars, ~missed'
  PROVE  MonitorKnows' /\ StreamsKnow'
<1> USE DEF hostVars, clientVars
<1>0. ~missed /\ StreamTypeOK /\ MonitorKnows /\ StreamsKnow
  BY SMTT(60) DEF FaithfulInv, StreamNext, streamVars, Subscribe, Unsubscribe, ClientGoes, SendToClient,
     HostFlips, StopHostMonitor, Sweep, SystemInfo, UpdateDockerHostStatus, AnnounceHost,
     AnnounceApp, Offer
<1>a. UNCHANGED <<hostRow, hostCheck>> => MonitorKnows'
  BY <1>0 DEF MonitorKnows
<1>b. UNCHANGED <<hostRow, hostCheck, todo>> => \A s \in Streams : Due(s)' = Due(s)
  BY DEF Due
<1>1. ASSUME NEW s \in Streams, Subscribe(s) PROVE MonitorKnows' /\ StreamsKnow'
  <2>1. /\ chan'[s] = << >> /\ told'[s] = "none"
        /\ \A r \in Streams : r # s => stream'[r] = stream[r]
    BY <1>1, <1>0, Zenon DEF Subscribe, FaithfulInv, StreamTypeOK
  <2>2. Heard(chan'[s], told'[s], {"none", Due(s)'})
    BY <2>1, SMTT(60) DEF Heard
  <2> QED
    BY <1>1, <1>0, <1>a, <1>b, <2>1, <2>2, Zenon DEF Subscribe, StreamsKnow
<1>2. ASSUME NEW s \in Streams, Unsubscribe(s) PROVE MonitorKnows' /\ StreamsKnow'
  <2>1. /\ stream'[s] = "left"
        /\ \A r \in Streams : r # s => /\ stream'[r] = stream[r] /\ chan'[r] = chan[r]
                                       /\ told'[r] = told[r]
                                       /\ r \notin lossy' => r \notin lossy
    BY <1>2, <1>0, Zenon DEF Unsubscribe, Forgotten, StreamTypeOK
  <2> QED
    BY <1>2, <1>0, <1>a, <1>b, <2>1, Zenon DEF Unsubscribe, StreamsKnow
<1>3. ASSUME NEW s \in Streams, ClientGoes(s) PROVE MonitorKnows' /\ StreamsKnow'
  <2>1. \A r \in Streams : stream'[r] = "open" => stream[r] = "open"
    BY <1>3, <1>0, Zenon DEF ClientGoes, StreamTypeOK
  <2> QED
    BY <1>3, <1>0, <1>a, <1>b, <2>1, Zenon DEF ClientGoes, StreamsKnow
<1>4. ASSUME NEW s \in Streams, SendToClient(s) PROVE MonitorKnows' /\ StreamsKnow'
  <2>1. /\ chan[s] \in HostEventSeqs /\ chan[s] # << >>
        /\ chan'[s] = Tail(chan[s])
        /\ told'[s] = IF Head(chan[s]) = "app" THEN told[s] ELSE Head(chan[s])
        /\ \A r \in Streams : r # s => chan'[r] = chan[r] /\ told'[r] = told[r]
    BY <1>4, <1>0, Zenon DEF SendToClient, StreamTypeOK, HostEventSeqs
  <2>2. ASSUME NEW V, Heard(chan[s], told[s], V) PROVE Heard(chan'[s], told'[s], V)
    BY <2>1, <2>2, HeardTail, Zenon
  <2> QED
    BY <1>4, <1>0, <1>a, <1>b, <2>1, <2>2, Zenon DEF SendToClient, StreamsKnow
<1>5. CASE HostFlips \/ StopHostMonitor
  BY <1>5, <1>0, <1>a, <1>b, SameKeepsStreams, Zenon DEF HostFlips, StopHostMonitor
<1>6. CASE Sweep
  <2>1. MonitorKnows'
    BY <1>6, <1>0 DEF Sweep, MonitorKnows, StreamTypeOK
  <2>2. \A s \in Streams : Due(s)' = Due(s)
    BY <1>6, <1>0 DEF Sweep, Due, StreamTypeOK
  <2> QED
    BY <1>6, <1>0, <2>1, <2>2, SameKeepsStreams DEF Sweep
<1>7. CASE SystemInfo
  <2>1. MonitorKnows'
    BY <1>7, <1>0 DEF SystemInfo, MonitorKnows, StreamTypeOK
  <2>2. \A s \in Streams : Due(s)' = Due(s)
    BY <1>7, <1>0 DEF SystemInfo, Due, StreamTypeOK
  <2> QED
    BY <1>7, <1>0, <2>1, <2>2, SameKeepsStreams DEF SystemInfo
<1>8. CASE UpdateDockerHostStatus
  <2>1. hostRow' = hostCheck.found /\ hostCheck.old = hostRow /\ hostCheck.pc = "save"
    BY <1>8, <1>0 DEF UpdateDockerHostStatus, MonitorKnows
  <2>2. /\ hostCheck'.old = hostCheck.old /\ hostCheck'.found = hostCheck.found
        /\ hostCheck'.pc = IF hostCheck.old # hostCheck.found THEN "announce" ELSE "idle"
    BY <1>8, <1>0 DEF UpdateDockerHostStatus, Changed, StreamTypeOK
  <2>3. MonitorKnows'
    BY <2>1, <2>2 DEF MonitorKnows
  <2>4. \A s \in Streams : Due(s)' = Due(s)
    BY <2>1, <2>2, Zenon DEF Due
  <2> QED
    BY <1>8, <1>0, <2>3, <2>4, SameKeepsStreams DEF UpdateDockerHostStatus
<1>9. CASE AnnounceHost
  <2>1. CASE hostCheck.pc = "announce" /\ EnterBroadcast("host")
             /\ hostCheck' = [hostCheck EXCEPT !.pc = "sending"]
             /\ UNCHANGED <<hostVars, clientVars, chan, lossy, turns>>
    <3>1. MonitorKnows'
      BY <1>0, <2>1 DEF MonitorKnows, StreamTypeOK
    <3>2. todo'["host"] = Subscribers
      BY <1>0, <2>1 DEF EnterBroadcast, StreamTypeOK, Broadcasters
    <3>3. \A s \in Streams : stream[s] = "open" => Due(s)' = Due(s)
      BY <1>0, <2>1, <3>2 DEF Due, Subscribers, StreamTypeOK
    <3> QED
      BY <1>0, <2>1, <3>1, <3>3, SameKeepsStreams
  <2>2. ASSUME NEW s \in Streams, Offer("host", s, hostCheck.found)
        PROVE  MonitorKnows' /\ StreamsKnow'
    <3>1. hostCheck.pc = "sending" /\ hostCheck.found = hostRow
          /\ hostCheck.found \in HostStatuses
      BY <1>0, <2>2, Zenon DEF Offer, FaithfulInv, MonitorKnows, StreamTypeOK
    <3>2. StreamsKnow'
      BY <1>0, <2>2, <3>1, OfferKeepsStreams DEF Broadcasters
    <3> QED
      BY <1>a, <2>2, <3>2, Zenon DEF Offer
  <2>3. CASE hostCheck.pc = "sending" /\ LeaveBroadcast("host")
             /\ hostCheck' = [hostCheck EXCEPT !.pc = "idle"]
             /\ UNCHANGED <<hostVars, clientVars, chan, lossy, todo, turns>>
    <3>1. MonitorKnows'
      BY <1>0, <2>3 DEF MonitorKnows, StreamTypeOK
    <3>2. \A s \in Streams : Due(s)' = Due(s)
      BY <1>0, <2>3 DEF Due, LeaveBroadcast, StreamTypeOK
    <3> QED
      BY <1>0, <2>3, <3>1, <3>2, SameKeepsStreams
  <2> QED
    BY <1>9, <2>1, <2>2, <2>3 DEF AnnounceHost
<1>10. CASE AnnounceApp
  <2>1. CASE EnterBroadcast("app") /\ UNCHANGED <<hostVars, clientVars, hostCheck, chan, lossy>>
    <3>1. todo'["host"] = todo["host"]
      BY <1>0, <2>1, Zenon DEF EnterBroadcast, StreamTypeOK, Broadcasters
    <3>2. \A s \in Streams : Due(s)' = Due(s)
      BY <2>1, <3>1, Zenon DEF Due
    <3> QED
      BY <1>0, <1>a, <2>1, <3>2, SameKeepsStreams
  <2>2. ASSUME NEW s \in Streams, Offer("app", s, "app") PROVE MonitorKnows' /\ StreamsKnow'
    <3>1. StreamsKnow'
      BY <1>0, <2>2, OfferKeepsStreams DEF Broadcasters
    <3> QED
      BY <1>a, <2>2, <3>1, Zenon DEF Offer
  <2>3. CASE UNCHANGED <<hostVars, clientVars, hostCheck, chan, lossy, todo, turns>>
    BY <1>0, <1>a, <1>b, <2>3, SameKeepsStreams, Zenon
  <2> QED
    BY <1>10, <2>1, <2>2, <2>3, Zenon DEF AnnounceApp
<1>11. CASE UNCHANGED streamVars
  BY <1>11, <1>0, <1>a, <1>b, SameKeepsStreams, Zenon DEF streamVars
<1> QED
  BY <1>1, <1>2, <1>3, <1>4, <1>5, <1>6, <1>7, <1>8, <1>9, <1>10, <1>11 DEF StreamNext

\* FaithfulInv is inductive, given that broadcasts offer to subscribers only.
LEMMA FaithfulStep == HubInv /\ FaithfulInv /\ [StreamNext]_streamVars => FaithfulInv'
<1> SUFFICES ASSUME HubInv, FaithfulInv, [StreamNext]_streamVars PROVE FaithfulInv'
  OBVIOUS
<1> USE DEF hostVars, clientVars
<1>0. StreamTypeOK
  BY DEF FaithfulInv
<1>1. StreamTypeOK'
  BY <1>0, StreamTypeStep
<1>2. ("host" \in inside <=> hostCheck.pc = "sending")'
  <2>1. \A s \in Streams : \A b, e : Offer(b, s, e) => UNCHANGED <<hostCheck, inside>>
    BY Zenon DEF Offer
  <2>2. CASE AnnounceHost
    BY <1>0, <2>1, <2>2 DEF FaithfulInv, AnnounceHost, EnterBroadcast, LeaveBroadcast, StreamTypeOK
  <2>3. CASE AnnounceApp
    BY <1>0, <2>1, <2>3, Zenon DEF FaithfulInv, AnnounceApp, EnterBroadcast, LeaveBroadcast, StreamTypeOK
  <2>4. CASE Sweep \/ SystemInfo \/ UpdateDockerHostStatus
    <3>1. hostCheck.pc # "sending"
      BY <2>4 DEF Sweep, SystemInfo, UpdateDockerHostStatus
    <3>2. hostCheck'.pc # "sending"
      <4>1. CASE Sweep
        BY <1>0, <4>1 DEF Sweep, StreamTypeOK
      <4>2. CASE SystemInfo
        BY <1>0, <4>2 DEF SystemInfo, StreamTypeOK
      <4>3. CASE UpdateDockerHostStatus
        BY <1>0, <4>3 DEF UpdateDockerHostStatus, StreamTypeOK
      <4> QED
        BY <2>4, <4>1, <4>2, <4>3
    <3>3. UNCHANGED inside
      BY <2>4 DEF Sweep, SystemInfo, UpdateDockerHostStatus
    <3> QED
      BY <3>1, <3>2, <3>3 DEF FaithfulInv
  <2> QED
    BY <2>2, <2>3, <2>4, Zenon DEF FaithfulInv, StreamNext, streamVars, Subscribe, Unsubscribe,
       ClientGoes, SendToClient, HostFlips, StopHostMonitor
<1>3. (\A s \in Streams : stream[s] = "new" => chan[s] = << >> /\ told[s] = "none")'
  <2> DEFINE Fresh == \A s \in Streams : stream[s] = "new" => chan[s] = << >> /\ told[s] = "none"
  <2>0. Fresh
    BY DEF FaithfulInv
  <2>1. ASSUME NEW b \in Broadcasters, NEW s \in Streams, NEW e, Offer(b, s, e) PROVE Fresh'
    <3>1. stream[s] # "new"
      BY <2>1, Zenon DEF Offer, HubInv, Subscribers
    <3>2. /\ UNCHANGED <<stream, told>>
          /\ \A r \in Streams : r # s => chan'[r] = chan[r]
      BY <1>0, <2>1, Zenon DEF Offer, StreamTypeOK
    <3> QED
      BY <2>0, <3>1, <3>2, Zenon
  <2>2. ASSUME NEW s \in Streams, Subscribe(s) \/ ClientGoes(s) PROVE Fresh'
    <3>1. \A r \in Streams : stream'[r] = "new" => stream[r] = "new"
      BY <1>0, <2>2, Zenon DEF Subscribe, ClientGoes, StreamTypeOK
    <3>2. UNCHANGED <<chan, told>>
      BY <2>2, Zenon DEF Subscribe, ClientGoes
    <3> QED
      BY <2>0, <3>1, <3>2
  <2>3. ASSUME NEW s \in Streams, Unsubscribe(s) PROVE Fresh'
    BY <1>0, <2>0, <2>3, Zenon DEF Unsubscribe, Forgotten, StreamTypeOK
  <2>4. ASSUME NEW s \in Streams, SendToClient(s) PROVE Fresh'
    BY <1>0, <2>0, <2>4, Zenon DEF SendToClient, StreamTypeOK
  <2>5. UNCHANGED <<stream, chan, told>> => Fresh'
    BY <2>0, Zenon
  <2>6. CASE AnnounceHost \/ AnnounceApp
    BY <2>1, <2>5, <2>6 DEF AnnounceHost, AnnounceApp, Broadcasters
  <2>7. CASE \/ UNCHANGED streamVars \/ HostFlips \/ StopHostMonitor \/ Sweep
             \/ SystemInfo \/ UpdateDockerHostStatus
    BY <2>5, <2>7, Zenon DEF streamVars, HostFlips, StopHostMonitor, Sweep, SystemInfo,
       UpdateDockerHostStatus
  <2> QED
    BY <2>2, <2>3, <2>4, <2>6, <2>7, Zenon DEF StreamNext
<1> QED
  BY <1>1, <1>2, <1>3, KnowledgeStep, Zenon DEF FaithfulInv

\* A stream that was slow for no event knows the status of the row between two sweeps, or
\* has heard nothing of the host yet: for any number of streams, any buffer, whatever
\* subscribes, leaves and is broadcast in between (monitor.go:157, eventbus.go:48).
THEOREM StreamsAreFaithful == StreamSpec => []StreamIsFaithful
<1>1. StreamInit => FaithfulInv
  <2> SUFFICES ASSUME StreamInit PROVE FaithfulInv
    OBVIOUS
  <2>1. StreamTypeOK
    BY StreamTypeInit
  <2>2. MonitorKnows /\ StreamsKnow
    BY Zenon DEF StreamInit, MonitorKnows, StreamsKnow
  <2> QED
    BY <2>1, <2>2, Zenon DEF StreamInit, FaithfulInv
<1>2. FaithfulInv => StreamIsFaithful
  <2> SUFFICES ASSUME FaithfulInv, NEW s \in Streams, hostCheck.pc = "idle", ~missed,
                      stream[s] = "open", s \notin lossy
               PROVE  Known(s) \in {"none", hostRow}
    BY DEF StreamIsFaithful
  <2>1. Heard(chan[s], told[s], {"none", hostRow})
    BY Zenon DEF FaithfulInv, StreamsKnow, Due
  <2>2. chan[s] \in HostEventSeqs
    BY Zenon DEF FaithfulInv, StreamTypeOK, HostEventSeqs
  <2> QED
    BY <2>1, <2>2, KnownIsHeard, Zenon
<1> QED
  BY <1>1, <1>2, FaithfulStep, HubInvInit, HubInvNext, PTL DEF StreamSpec

-----------------------------------------------------------------------------
(* Presentation, for any users, applications and registries. *)

\* The calls, the pages and the records of a page.
PageCalls == {"permissions", "capabilities", "fleet", "controller", "capacity", "activity",
              "application"}
Kinds == {"fleet", "controller", "activity", "settings", "missing", "applications",
          "application"}
PCs == {"none", "source", "calls", "render", "notfound", "login", "503", "404", "405", "200"}
Evidence == {"none", "fleet", "activity", "application"}
PageRecords ==
  [pc : PCs, user : Users \cup {NoPage.user}, kind : Kinds,
   name : Names \cup {NoPage.name},
   query : {"GET", "all", "attention", "healthy", "overview", "limited", "manage", "POST"},
   todo : Seq(PageCalls), features : SUBSET (Capabilities \cup {"activity"}),
   seen : SUBSET (Names \X (Tones \cup {"event"})), fresh : Evidence, view : Evidence]

\* What the credential of the page's user grants is among the granted, the calls after
\* the first are made for a token of the user's own unless a restart gave it away, and what
\* is shown was granted.
ScopeInv ==
  /\ page \in PageRecords /\ registry \in Registries
  /\ page.pc # "none" =>
       /\ page.user \in Users /\ OwnGrants(registry, page.user) \subseteq granted
       /\ page.todo # CallsOf(page.kind) => rekeyed \/ registry[page.user].subject = page.user
  /\ ScopedToSubject

\* The calls a page may still have to make.
CallRange(kind) ==
  CASE kind = "fleet" -> PageCalls \ {"application"}
    [] kind \in {"controller", "applications"} -> PageCalls \ {"application", "activity"}
    [] kind \in {"activity", "application"} -> {"permissions", "capabilities", kind}
    [] OTHER -> {}

\* A page that is about one call has that one last until it has its answer; on the others
\* activity is the last call, and until then there is no other freshness than the fleet's.
FreshInv ==
  /\ page \in PageRecords
  /\ \A i \in DOMAIN page.todo : /\ page.todo[i] \in CallRange(page.kind)
                                 /\ page.todo[i] = "activity" => i = Len(page.todo)
  /\ page.kind \in {"activity", "application"} =>
       \/ page.view = page.kind
       \/ page.todo # << >> /\ page.todo[Len(page.todo)] = page.kind
  /\ page.kind \notin {"activity", "application"} =>
       /\ page.view \in {"none", "fleet"}
       /\ page.fresh \in {"none", "fleet"} \/ page.todo = << >>
  /\ page.kind = "settings" => page.view = "none"
  /\ page.pc = "200" => page.todo = << >>

-----------------------------------------------------------------------------

\* The fields of the page besides pc, and those besides todo that a call may set.
SamePage == /\ page'.user = page.user /\ page'.kind = page.kind /\ page'.name = page.name
            /\ page'.query = page.query
Ended(pc) ==
  /\ SamePage /\ page'.pc = pc /\ page'.todo = page.todo /\ page'.seen = page.seen
  /\ page'.fresh = page.fresh /\ page'.view = page.view
Moved == SamePage /\ page'.pc = page.pc /\ page'.todo = Tail(page.todo)
Rest == <<session, registry, served, appRows, granted, rekeyed, restarts>>

\* Ending a page changes nothing but its pc.
LEMMA EndsPage ==
  ASSUME page \in PageRecords, NEW pc \in PCs, PageEnds(pc)
  PROVE  page' \in PageRecords /\ Ended(pc) /\ UNCHANGED Rest
  BY DEF PageEnds, Continue, PageRecords, Ended, SamePage, Rest, PCs

\* So does a preflight that fails.
LEMMA PreflightEnds ==
  ASSUME page \in PageRecords, NEW e, PreflightFails(e)
  PROVE  page' \in PageRecords /\ (Ended("notfound") \/ Ended("503")) /\ UNCHANGED Rest
  BY EndsPage DEF PreflightFails, PCs

\* The step of one call: the page ends before it shows anything, or goes on to the next
\* call, with what the answer has changed.
CallEnds == \E pc \in {"notfound", "503"} : Ended(pc)

\* Going on to the next call changes nothing but the calls left.
LEMMA CalledIsAPage ==
  ASSUME page \in PageRecords, page.todo # << >>
  PROVE  /\ Called \in PageRecords
         /\ Called.user = page.user /\ Called.kind = page.kind /\ Called.name = page.name
         /\ Called.query = page.query /\ Called.pc = page.pc
         /\ Called.todo = Tail(page.todo) /\ Called.seen = page.seen
         /\ Called.fresh = page.fresh /\ Called.view = page.view
<1>1. Tail(page.todo) \in Seq(PageCalls)
  BY DEF PageRecords
<1> QED
  BY <1>1, Zenon DEF PageRecords, Called

\* The presentation API answers only valid credentials, and shows an application only
\* where it is granted.
LEMMA OkIsAllowed ==
  ASSUME NEW u, NEW req, NEW n, "ok" \in Replies(u, req, n)
  PROVE  /\ registry[u].valid
         /\ req = "application" => n \in registry[u].apps
<1>1. registry[u].valid
  BY DEF Replies
<1>2. served
  BY DEF Replies
<1>3. req = "application" => n \in registry[u].apps
  BY <1>1, <1>2 DEF Replies, AllowsApp
<1> QED
  BY <1>1, <1>3, Zenon

\* What a registry is made of.
LEMMA RegistryFacts ==
  ASSUME registry \in Registries, NEW u \in Users
  PROVE  /\ registry[u].apps \subseteq Names /\ registry[u].caps \subseteq Capabilities
  BY PresentationAssumption, Zenon DEF Credential

\* healthState gives a tone to every row.
LEMMA TonesOfRows == \A row : HealthTone(row) \in Tones
  BY DEF HealthTone, Tones

\* authorize ends the page, or has compared the subjects.
LEMMA AuthorizeStep ==
  ASSUME page \in PageRecords, Authorize
  PROVE  /\ page' \in PageRecords /\ UNCHANGED Rest
         /\ \/ CallEnds
            \/ /\ Moved /\ page'.seen = page.seen
               /\ page'.fresh = page.fresh /\ page'.view = page.view
               /\ registry[page.user].subject = page.user
<1>1. page.todo # << >>
  BY Zenon DEF Authorize, NextCall
<1>2. CASE \E e : PreflightFails(e)
  BY <1>2, PreflightEnds, Zenon DEF CallEnds
<1>3. CASE Continue(Called) /\ registry[page.user].subject = page.user
  BY <1>1, <1>3, CalledIsAPage, Zenon DEF Continue, Moved, SamePage, Rest
<1> QED
  BY <1>2, <1>3, Zenon DEF Authorize

\* loadCapabilities shows nothing.
LEMMA CapabilitiesStep ==
  ASSUME page \in PageRecords, LoadCapabilities, registry \in Registries, page.user \in Users
  PROVE  /\ page' \in PageRecords /\ UNCHANGED Rest
         /\ \/ CallEnds
            \/ /\ Moved /\ page'.seen = page.seen
               /\ page'.fresh = page.fresh /\ page'.view = page.view
<1>1. page.todo # << >>
  BY DEF LoadCapabilities, NextCall
<1>2. CASE \E e : PreflightFails(e)
  BY <1>2, PreflightEnds, Zenon DEF CallEnds
<1>3. CASE PageEnds("503")
  BY <1>3, EndsPage DEF CallEnds, PCs
<1>4. CASE Continue([Called EXCEPT !.features = Features(registry[page.user])])
  <2>1. Features(registry[page.user]) \subseteq Capabilities \cup {"activity"}
    BY RegistryFacts, Zenon DEF Features
  <2> DEFINE c == Called
  <2>2. c \in PageRecords /\ page' = [c EXCEPT !.features = Features(registry[page.user])]
    BY <1>1, <1>4, CalledIsAPage DEF Continue
  <2> HIDE DEF c
  <2>3. /\ page' \in PageRecords
        /\ page'.user = c.user /\ page'.kind = c.kind /\ page'.name = c.name
        /\ page'.query = c.query /\ page'.pc = c.pc
        /\ page'.todo = c.todo /\ page'.seen = c.seen
        /\ page'.fresh = c.fresh /\ page'.view = c.view
    BY <2>1, <2>2, Zenon DEF PageRecords
  <2> QED
    BY <1>1, <1>4, <2>3, CalledIsAPage DEF Continue, Moved, SamePage, Rest, c
<1> QED
  BY <1>2, <1>3, <1>4 DEF LoadCapabilities

\* The fleet panel shows what a valid credential grants, or nothing.
LEMMA FleetStep ==
  ASSUME page \in PageRecords, LoadFleet, registry \in Registries, page.user \in Users
  PROVE  /\ page' \in PageRecords /\ UNCHANGED Rest
         /\ Moved /\ page'.view = page.view /\ page'.fresh \in {page.fresh, "fleet"}
         /\ \/ page'.seen = page.seen
            \/ /\ registry[page.user].valid
               /\ \A x \in page'.seen : x \in page.seen \/ x[1] \in registry[page.user].apps
<1>1. page.todo # << >>
  BY DEF LoadFleet, NextCall
<1> DEFINE c == Called
           shown == {<<n, HealthTone(appRows[n])>> :
                       n \in {m \in FleetRows(registry[page.user]) : Kept(appRows[m])}}
<1>2. CASE Continue(Called)
  BY <1>1, <1>2, CalledIsAPage, Zenon DEF Continue, Moved, SamePage, Rest
<1>3. CASE /\ "ok" \in Replies(page.user, "fleet", page.name)
           /\ Continue([Called EXCEPT !.fresh = "fleet", !.seen = @ \cup shown])
  <2>1. /\ shown \subseteq Names \X (Tones \cup {"event"})
        /\ \A x \in shown : x[1] \in registry[page.user].apps
    BY RegistryFacts, TonesOfRows DEF FleetRows
  <2>2. registry[page.user].valid
    BY <1>3, OkIsAllowed
  <2> HIDE DEF shown
  <2>3. c \in PageRecords /\ page' = [c EXCEPT !.fresh = "fleet", !.seen = c.seen \cup shown]
    BY <1>1, <1>3, CalledIsAPage DEF Continue
  <2> HIDE DEF c
  <2>4. /\ page' \in PageRecords
        /\ page'.user = c.user /\ page'.kind = c.kind /\ page'.name = c.name
        /\ page'.query = c.query /\ page'.pc = c.pc
        /\ page'.todo = c.todo /\ page'.seen = c.seen \cup shown
        /\ page'.fresh = "fleet" /\ page'.view = c.view
    BY <2>1, <2>3, Zenon DEF PageRecords, Evidence
  <2> QED
    BY <1>1, <1>3, <2>1, <2>2, <2>4, CalledIsAPage DEF Continue, Moved, SamePage, Rest, c
<1> QED
  BY <1>2, <1>3 DEF LoadFleet

\* The controller and the capacity panel show no application.
LEMMA PanelStep ==
  ASSUME page \in PageRecords, NEW req, LoadPanel(req)
  PROVE  /\ page' \in PageRecords /\ UNCHANGED Rest
         /\ Moved /\ page'.seen = page.seen /\ page'.fresh = page.fresh
         /\ page'.view \in {page.view, page.fresh}
<1>1. page.todo # << >>
  BY DEF LoadPanel, NextCall
<1> DEFINE c == Called
           v == IF req = "capacity" THEN page.fresh ELSE page.view
<1>2. c \in PageRecords /\ c.view = page.view
  BY <1>1, CalledIsAPage, Zenon
<1>3. page' = [c EXCEPT !.view = v] /\ v \in Evidence /\ v \in {page.view, page.fresh}
  BY <1>2 DEF LoadPanel, Continue, PageRecords
<1> HIDE DEF c, v
<1>4. /\ page' \in PageRecords
      /\ page'.user = c.user /\ page'.kind = c.kind /\ page'.name = c.name
      /\ page'.query = c.query /\ page'.pc = c.pc
      /\ page'.todo = c.todo /\ page'.seen = c.seen
      /\ page'.fresh = c.fresh /\ page'.view = v
  BY <1>2, <1>3, Zenon DEF PageRecords
<1> QED
  BY <1>1, <1>3, <1>4, CalledIsAPage DEF LoadPanel, Continue, Moved, SamePage, Rest, c

\* Recent events are those of the granted applications.
LEMMA ActivityStep ==
  ASSUME page \in PageRecords, LoadActivity, registry \in Registries, page.user \in Users
  PROVE  /\ page' \in PageRecords /\ UNCHANGED Rest
         /\ \/ CallEnds
            \/ /\ Moved /\ page.kind # "activity" /\ page'.seen = page.seen
               /\ page'.view = page.view /\ page'.fresh = page.fresh
            \/ /\ Moved /\ page'.fresh = "activity"
               /\ page'.view = IF page.kind = "activity" THEN "activity" ELSE page.view
               /\ registry[page.user].valid
               /\ \A x \in page'.seen : x \in page.seen \/ x[1] \in registry[page.user].apps
<1>1. page.todo # << >>
  BY DEF LoadActivity, NextCall
<1> DEFINE c == Called
           v == IF page.kind = "activity" THEN "activity" ELSE page.view
           shown == {<<n, "event">> : n \in registry[page.user].apps}
<1>2. CASE PageEnds("503")
  BY <1>2, EndsPage, Zenon DEF CallEnds, PCs
<1>3. CASE page.kind # "activity" /\ Continue(Called)
  BY <1>1, <1>3, CalledIsAPage, Zenon DEF Continue, Moved, SamePage, Rest
<1>4. CASE /\ "ok" \in Replies(page.user, "activity", page.name)
           /\ Continue([Called EXCEPT !.fresh = "activity",
                   !.view = IF page.kind = "activity" THEN "activity" ELSE @,
                   !.seen = @ \cup {<<n, "event">> : n \in registry[page.user].apps}])
  <2>1. /\ shown \subseteq Names \X (Tones \cup {"event"})
        /\ \A x \in shown : x[1] \in registry[page.user].apps
    BY RegistryFacts
  <2>2. registry[page.user].valid
    BY <1>4, OkIsAllowed
  <2>3. c \in PageRecords /\ c.view = page.view
    BY <1>1, CalledIsAPage, Zenon
  <2>4. page' = [c EXCEPT !.fresh = "activity", !.view = v, !.seen = c.seen \cup shown]
    BY <1>4, <2>3 DEF Continue
  <2>5. v \in Evidence
    BY Zenon DEF PageRecords, Evidence
  <2> HIDE DEF c, v, shown
  <2>6. /\ page' \in PageRecords
        /\ page'.user = c.user /\ page'.kind = c.kind /\ page'.name = c.name
        /\ page'.query = c.query /\ page'.pc = c.pc
        /\ page'.todo = c.todo /\ page'.seen = c.seen \cup shown
        /\ page'.fresh = "activity" /\ page'.view = v
    BY <2>1, <2>3, <2>4, <2>5, ZenonT(60) DEF PageRecords, Evidence
  <2> QED
    BY <1>1, <1>4, <2>1, <2>2, <2>6, CalledIsAPage DEF Continue, Moved, SamePage, Rest, c, v
<1>5. \A e : e \in {"unavailable"} => e # "ok"
  OBVIOUS
<1> QED
  BY <1>2, <1>3, <1>4, <1>5, Zenon DEF LoadActivity

\* An application page shows its application, which is granted.
LEMMA ApplicationStep ==
  ASSUME page \in PageRecords, LoadApplication, registry \in Registries, page.user \in Users
  PROVE  /\ page' \in PageRecords /\ UNCHANGED Rest
         /\ \/ CallEnds
            \/ /\ Moved /\ page'.view = "application"
               /\ registry[page.user].valid
               /\ \A x \in page'.seen : x[1] \in registry[page.user].apps
<1>1. page.todo # << >>
  BY DEF LoadApplication, NextCall
<1> DEFINE c == Called
           shown == {<<page.name, HealthTone(appRows[page.name])>>}
<1>2. CASE PageEnds("503") \/ PageEnds("notfound")
  BY <1>2, EndsPage, Zenon DEF CallEnds, PCs
<1>3. CASE /\ "ok" \in Replies(page.user, "application", page.name)
           /\ Continue([Called EXCEPT !.fresh = "application", !.view = "application",
                               !.seen = {<<page.name, HealthTone(appRows[page.name])>>}])
  <2>1. registry[page.user].valid /\ page.name \in registry[page.user].apps
    BY <1>3, OkIsAllowed
  <2>2. /\ shown \subseteq Names \X (Tones \cup {"event"})
        /\ \A x \in shown : x[1] \in registry[page.user].apps
    BY <2>1, RegistryFacts, TonesOfRows, SMTT(60)
  <2>3. /\ c \in PageRecords
        /\ page' = [c EXCEPT !.fresh = "application", !.view = "application", !.seen = shown]
    BY <1>1, <1>3, CalledIsAPage DEF Continue
  <2> HIDE DEF c, shown
  <2>4. /\ page' \in PageRecords
        /\ page'.user = c.user /\ page'.kind = c.kind /\ page'.name = c.name
        /\ page'.query = c.query /\ page'.pc = c.pc
        /\ page'.todo = c.todo /\ page'.seen = shown
        /\ page'.fresh = "application" /\ page'.view = "application"
    BY <2>2, <2>3, Zenon DEF PageRecords, Evidence
  <2> QED
    BY <1>1, <1>3, <2>1, <2>2, <2>4, CalledIsAPage DEF Continue, Moved, SamePage, Rest, c
<1> QED
  BY <1>2, <1>3 DEF LoadApplication

\* The first call of every page is the check of the subject.
LEMMA CallsOfPages ==
  ASSUME NEW kind \in Kinds
  PROVE  /\ CallsOf(kind) \in Seq(PageCalls)
         /\ CallsOf(kind) # << >> => CallsOf(kind)[1] = "permissions"
<1> USE DEF PageCalls
<1>1. CASE kind = "fleet"
  <2>1. CallsOf(kind) = <<"permissions", "capabilities", "fleet", "controller", "capacity",
                          "activity">>
    BY <1>1 DEF CallsOf
  <2> QED
    BY <2>1
<1>2. CASE kind \in {"controller", "applications"}
  <2>1. CallsOf(kind) = <<"permissions", "capabilities", "fleet", "controller", "capacity">>
    BY <1>2 DEF CallsOf
  <2> QED
    BY <2>1
<1>3. CASE kind \in {"activity", "application"}
  <2>1. CallsOf(kind) = <<"permissions", "capabilities", kind>>
    BY <1>3 DEF CallsOf
  <2> QED
    BY <1>3, <2>1
<1>4. CASE kind \in {"settings", "missing"}
  <2>1. CallsOf(kind) = << >>
    BY <1>4 DEF CallsOf
  <2> QED
    BY <2>1
<1> QED
  BY <1>1, <1>2, <1>3, <1>4, Zenon DEF Kinds

\* Before the first page there is nothing.
LEMMA NoPageIsAPage ==
  NoPage \in PageRecords /\ NoPage.pc = "none" /\ NoPage.seen = {} /\ NoPage.kind = "settings"
    /\ NoPage.todo = << >> /\ NoPage.view = "none" /\ NoPage.fresh = "none"
<1>1. /\ NoPage.pc = "none" /\ NoPage.seen = {} /\ NoPage.kind = "settings"
      /\ NoPage.todo = << >> /\ NoPage.view = "none" /\ NoPage.fresh = "none"
  BY Zenon DEF NoPage
<1>2. NoPage \in PageRecords
  <2> DEFINE u == NoPage.user
             n == NoPage.name
  <2>1. NoPage = [pc |-> "none", user |-> u, kind |-> "settings", name |-> n, query |-> "GET",
                  todo |-> << >>, features |-> {}, seen |-> {}, fresh |-> "none", view |-> "none"]
    BY SMTT(60) DEF NoPage
  <2>2. u \in Users \cup {NoPage.user} /\ n \in Names \cup {NoPage.name}
    BY Zenon
  <2>3. "none" \in PCs /\ "settings" \in Kinds /\ "none" \in Evidence /\ << >> \in Seq(PageCalls)
    BY DEF PCs, Kinds, Evidence
  <2> HIDE DEF u, n
  <2> QED
    BY <2>1, <2>2, <2>3, SMTT(60) DEF PageRecords
<1> QED
  BY <1>1, <1>2, Zenon

\* A page that is opened starts from nothing.
LEMMA OpenStep ==
  ASSUME NEW u \in Users, NEW p \in Pages,
         NEW n \in IF p[1] = "application" THEN Names ELSE {NoPage.name},
         OpenPage(u, p[1], p[2], n)
  PROVE  /\ page' \in PageRecords /\ UNCHANGED <<session, registry, served, appRows, restarts>>
         /\ page'.user = u /\ page'.kind = p[1] /\ page'.seen = {} /\ page'.todo = CallsOf(p[1])
         /\ page'.view = "none" /\ page'.fresh = "none" /\ page'.pc \in {"notfound", "source"}
         /\ granted' = OwnGrants(registry, u)
<1>1. /\ p[1] \in Kinds
      /\ p[2] \in {"GET", "all", "attention", "healthy", "overview", "limited", "manage", "POST"}
  BY DEF Pages, Kinds
<1>2. CallsOf(p[1]) \in Seq(PageCalls)
  BY <1>1, CallsOfPages, Zenon
<1>3. n \in Names \cup {NoPage.name}
  OBVIOUS
<1> DEFINE b == NoPage
           k == p[1]
           q == p[2]
           t == CallsOf(p[1])
           pc == IF p[1] = "missing" THEN "notfound" ELSE "source"
           r == [b EXCEPT !.pc = pc, !.user = u, !.kind = k, !.query = q, !.name = n, !.todo = t]
<1>4. /\ page' = r
      /\ b \in PageRecords /\ b.seen = {} /\ b.view = "none" /\ b.fresh = "none"
      /\ pc \in {"notfound", "source"}
  BY NoPageIsAPage DEF OpenPage
<1> HIDE DEF b, k, q, t, pc
<1>5. /\ page' \in PageRecords
      /\ page'.user = u /\ page'.kind = k /\ page'.seen = {} /\ page'.todo = t
      /\ page'.view = "none" /\ page'.fresh = "none" /\ page'.pc = pc
  BY <1>1, <1>2, <1>3, <1>4, ZenonT(60) DEF PageRecords, PCs, k, q, t
<1> QED
  BY <1>4, <1>5 DEF OpenPage, k, t

\* A step other than a call, within a page.
LEMMA OtherPageStep ==
  ASSUME page \in PageRecords, SourceForRequest \/ Render \/ NotFound
  PROVE  /\ page' \in PageRecords /\ UNCHANGED Rest /\ page.pc # "none"
         /\ \E pc \in PCs \ {"none"} : Ended(pc) /\ (pc = "200" => page.todo = << >>)
<1>1. \A pc \in PCs : PageEnds(pc) => page' \in PageRecords /\ Ended(pc) /\ UNCHANGED Rest
  BY EndsPage
<1>2. CASE SourceForRequest
  BY <1>1, <1>2, SMTT(60) DEF SourceForRequest, PCs
<1>3. CASE Render
  BY <1>1, <1>3 DEF Render, PCs
<1>4. CASE NotFound
  BY <1>1, <1>4 DEF NotFound, PCs
<1> QED
  BY <1>2, <1>3, <1>4, Zenon

\* ScopeInv holds before the first page.
LEMMA ScopeInit == PageInit => ScopeInv
<1> SUFFICES ASSUME PageInit PROVE ScopeInv
  OBVIOUS
<1>1. page = NoPage /\ registry \in Registries
  BY PresentationAssumption DEF PageInit
<1>2. CallsOf(NoPage.kind) = << >>
  BY NoPageIsAPage DEF CallsOf
<1> QED
  BY <1>1, <1>2, NoPageIsAPage, Zenon DEF ScopeInv, ScopedToSubject

\* What keeps ScopeInv when the page moves and the rest stays.
LEMMA ScopeKept ==
  ASSUME ScopeInv, page' \in PageRecords, UNCHANGED Rest, SamePage, page.pc # "none",
         page'.todo # CallsOf(page.kind) => rekeyed \/ registry[page.user].subject = page.user,
         \A x \in page'.seen : \/ rekeyed \/ x \in page.seen
                               \/ x[1] \in OwnGrants(registry, page.user)
  PROVE  ScopeInv'
<1>1. page.user \in Users /\ OwnGrants(registry, page.user) \subseteq granted
  BY Zenon DEF ScopeInv
<1>2. UNCHANGED <<registry, granted, rekeyed>> /\ page'.user = page.user /\ page'.kind = page.kind
  BY Zenon DEF Rest, SamePage
<1>3. OwnGrants(registry, page.user)' = OwnGrants(registry, page.user)
  BY <1>2, Zenon DEF OwnGrants
<1>4. ScopedToSubject'
  BY <1>1, <1>2, Zenon DEF ScopeInv, ScopedToSubject
<1> QED
  BY <1>1, <1>2, <1>3, <1>4, Zenon DEF ScopeInv

\* A call after the first is made for a token of the user's own, or one given away since.
LEMMA LaterCalls ==
  ASSUME ScopeInv, NEW req, NextCall(req), req # "permissions"
  PROVE  \/ rekeyed
         \/ /\ registry[page.user].subject = page.user
            /\ registry[page.user].valid =>
                 OwnGrants(registry, page.user) = registry[page.user].apps
<1>1. page.todo # CallsOf(page.kind)
  BY CallsOfPages, Zenon DEF NextCall, ScopeInv, PageRecords
<1>2. rekeyed \/ registry[page.user].subject = page.user
  BY <1>1, Zenon DEF ScopeInv, NextCall
<1> QED
  BY <1>2, Zenon DEF OwnGrants

\* Every step keeps ScopeInv: a restart keeps the token's subject or is in the history, and
\* the grants the token loses stay there.
LEMMA ScopeStep == ScopeInv /\ [PageNext]_pageVars => ScopeInv'
<1> SUFFICES ASSUME ScopeInv, [PageNext]_pageVars PROVE ScopeInv'
  OBVIOUS
<1>0. /\ page \in PageRecords /\ registry \in Registries
      /\ page.pc # "none" => page.user \in Users
  BY Zenon DEF ScopeInv
<1>1. ASSUME NEW pc, Ended(pc), page' \in PageRecords, UNCHANGED Rest, page.pc # "none"
      PROVE  ScopeInv'
  BY <1>1, ScopeKept, Zenon DEF Ended, ScopeInv, SamePage
<1>2. CASE SourceForRequest \/ Render \/ NotFound
  BY <1>0, <1>1, <1>2, OtherPageStep, Zenon
<1>3. CASE Authorize
  <2>1. page.pc # "none"
    BY <1>3, Zenon DEF Authorize, NextCall
  <2>2. CASE CallEnds
    BY <1>0, <1>1, <1>3, <2>1, <2>2, AuthorizeStep, Zenon DEF CallEnds
  <2>3. CASE ~CallEnds
    BY <1>0, <1>3, <2>1, <2>3, AuthorizeStep, ScopeKept, Zenon DEF Moved
  <2> QED
    BY <2>2, <2>3
<1>4. CASE LoadCapabilities
  <2>1. page.pc # "none" /\ NextCall("capabilities")
    BY <1>4 DEF LoadCapabilities, NextCall
  <2>2. CASE CallEnds
    BY <1>0, <1>1, <1>4, <2>1, <2>2, CapabilitiesStep, SMTT(60) DEF CallEnds
  <2>3. CASE ~CallEnds
    BY <1>0, <1>4, <2>1, <2>3, CapabilitiesStep, ScopeKept, LaterCalls, Zenon DEF Moved
  <2> QED
    BY <2>2, <2>3
<1>5. CASE LoadFleet
  <2>1. page.pc # "none" /\ NextCall("fleet")
    BY <1>5 DEF LoadFleet, NextCall
  <2> QED
    BY <1>0, <1>5, <2>1, FleetStep, ScopeKept, LaterCalls, Zenon DEF Moved
<1>6. ASSUME NEW req, LoadPanel(req) PROVE ScopeInv'
  <2>1. page.pc # "none" /\ NextCall(req) /\ req # "permissions"
    BY <1>6 DEF LoadPanel, NextCall
  <2> QED
    BY <1>0, <1>6, <2>1, PanelStep, ScopeKept, LaterCalls, Zenon DEF Moved
<1>7. CASE LoadActivity
  <2>1. page.pc # "none" /\ NextCall("activity")
    BY <1>7 DEF LoadActivity, NextCall
  <2>2. CASE CallEnds
    BY <1>0, <1>1, <1>7, <2>1, <2>2, ActivityStep, Zenon DEF CallEnds
  <2>3. CASE ~CallEnds
    BY <1>0, <1>7, <2>1, <2>3, ActivityStep, ScopeKept, LaterCalls, Zenon DEF Moved
  <2> QED
    BY <2>2, <2>3
<1>8. CASE LoadApplication
  <2>1. page.pc # "none" /\ NextCall("application")
    BY <1>8 DEF LoadApplication, NextCall
  <2>2. CASE CallEnds
    BY <1>0, <1>1, <1>8, <2>1, <2>2, ApplicationStep, Zenon DEF CallEnds
  <2>3. CASE ~CallEnds
    BY <1>0, <1>8, <2>1, <2>3, ApplicationStep, ScopeKept, LaterCalls, Zenon DEF Moved
  <2> QED
    BY <2>2, <2>3
<1>9. ASSUME NEW u \in Users, NEW p \in Pages,
             NEW n \in IF p[1] = "application" THEN Names ELSE {NoPage.name},
             OpenPage(u, p[1], p[2], n)
      PROVE  ScopeInv'
  <2>1. /\ page' \in PageRecords /\ UNCHANGED registry /\ granted' = OwnGrants(registry, u)
        /\ page'.user = u /\ page'.seen = {} /\ page'.todo = CallsOf(page'.kind)
    BY <1>9, OpenStep, Zenon
  <2>2. OwnGrants(registry, page.user)' = granted'
    BY <2>1, Zenon DEF OwnGrants
  <2> QED
    BY <1>0, <2>1, <2>2, Zenon DEF ScopeInv, ScopedToSubject
<1>10. ASSUME NEW reg \in Registries, NEW b \in BOOLEAN, ControllerRestarts(reg, b)
       PROVE  ScopeInv'
  <2>1. /\ registry' = reg /\ UNCHANGED page
        /\ granted' = granted \cup OwnGrants(reg, page.user)
        /\ rekeyed' = (rekeyed \/ reg[page.user].subject # page.user)
    BY <1>10, Zenon DEF ControllerRestarts
  <2>2. OwnGrants(registry, page.user)' = OwnGrants(reg, page.user)
    BY <2>1, Zenon DEF OwnGrants
  <2>3. page.pc # "none" /\ page.todo # CallsOf(page.kind) =>
          rekeyed' \/ registry'[page.user].subject = page.user
    BY <2>1, Zenon
  <2> QED
    BY <1>0, <2>1, <2>2, <2>3, Zenon DEF ScopeInv, ScopedToSubject
<1>11. CASE \/ UNCHANGED pageVars \/ \E u \in Users : SessionEnds(u)
            \/ \E n \in Names, row \in RowValues \cup {Absent} : RowChanges(n, row)
  <2>1. UNCHANGED <<page, registry, granted, rekeyed>>
    BY <1>11 DEF pageVars, SessionEnds, RowChanges
  <2>2. OwnGrants(registry, page.user)' = OwnGrants(registry, page.user)
    BY <2>1, Zenon DEF OwnGrants
  <2> QED
    BY <2>1, <2>2, Zenon DEF ScopeInv, ScopedToSubject
<1> QED
  BY <1>2, <1>3, <1>4, <1>5, <1>6, <1>7, <1>8, <1>9, <1>10, <1>11, SMTT(60) DEF PageNext, PageStep

\* A page shows only applications granted to the user whose session it is at some time
\* while it was built, for any users, registries and restarts, unless a restart meanwhile
\* gave the session's token to another subject (session_provider.go:154).
THEOREM PagesAreScoped == PageSpec => []ScopedToSubject
<1>1. ScopeInv => ScopedToSubject
  BY Zenon DEF ScopeInv
<1> QED
  BY <1>1, ScopeInit, ScopeStep, PTL DEF PageSpec

\* What taking the first call off the list leaves.
LEMMA TailOfCalls ==
  ASSUME NEW t \in Seq(PageCalls), t # << >>
  PROVE  /\ Tail(t) \in Seq(PageCalls) /\ Len(Tail(t)) = Len(t) - 1 /\ Len(t) \in Nat \ {0}
         /\ DOMAIN t = 1 .. Len(t) /\ DOMAIN Tail(t) = 1 .. Len(t) - 1
         /\ \A i \in DOMAIN Tail(t) : i + 1 \in DOMAIN t /\ Tail(t)[i] = t[i + 1]
         /\ Tail(t) # << >> => Tail(t)[Len(Tail(t))] = t[Len(t)]
         /\ Tail(t) = << >> => Len(t) = 1
<1>1. /\ Tail(t) \in Seq(PageCalls) /\ Len(Tail(t)) = Len(t) - 1 /\ Len(t) \in Nat \ {0}
      /\ DOMAIN t = 1 .. Len(t) /\ DOMAIN Tail(t) = 1 .. Len(t) - 1
  <2>1. Tail(t) \in Seq(PageCalls) /\ Len(Tail(t)) = Len(t) - 1 /\ Len(t) \in Nat
    OBVIOUS
  <2>2. DOMAIN t = 1 .. Len(t) /\ DOMAIN Tail(t) = 1 .. Len(Tail(t))
    BY <2>1
  <2>3. Len(t) # 0
    OBVIOUS
  <2> QED
    BY <2>1, <2>2, <2>3
<1>2. \A i \in DOMAIN Tail(t) : i + 1 \in DOMAIN t /\ Tail(t)[i] = t[i + 1]
  BY <1>1
<1>3. Tail(t) = << >> => Len(t) = 1
  <2>1. \A u \in Seq(PageCalls) : u = << >> => Len(u) = 0
    OBVIOUS
  <2> DEFINE u == Tail(t)
  <2>2. u \in Seq(PageCalls) /\ Len(u) = Len(t) - 1 /\ Len(t) \in Nat
    BY <1>1
  <2> HIDE DEF u
  <2>3. u = << >> => Len(t) = 1
    BY <2>1, <2>2
  <2> QED
    BY <2>3 DEF u
<1>4. ASSUME Tail(t) # << >> PROVE Tail(t)[Len(Tail(t))] = t[Len(t)]
  <2>1. Len(Tail(t)) \in DOMAIN Tail(t)
    BY <1>1, <1>4
  <2> QED
    BY <1>1, <1>2, <2>1
<1> QED
  BY <1>1, <1>2, <1>3, <1>4, Zenon

\* The calls a page starts with are in its range, activity last, and the call a page is
\* about is there.
LEMMA CallsFit ==
  ASSUME NEW kind \in Kinds
  PROVE  /\ \A i \in DOMAIN CallsOf(kind) :
              /\ CallsOf(kind)[i] \in CallRange(kind)
              /\ CallsOf(kind)[i] = "activity" => i = Len(CallsOf(kind))
         /\ kind \in {"activity", "application"} =>
              CallsOf(kind) # << >> /\ CallsOf(kind)[Len(CallsOf(kind))] = kind
<1>1. CASE kind = "fleet"
  <2>1. CallsOf(kind) = <<"permissions", "capabilities", "fleet", "controller", "capacity",
                          "activity">>
    BY <1>1 DEF CallsOf
  <2>2. CallRange(kind) = PageCalls \ {"application"}
    BY <1>1 DEF CallRange
  <2>3. /\ DOMAIN CallsOf(kind) = 1 .. 6 /\ Len(CallsOf(kind)) = 6
        /\ \A i \in 1 .. 6 : CallsOf(kind)[i] = "activity" => i = 6
    BY <2>1
  <2>4. \A i \in 1 .. 6 : CallsOf(kind)[i] \in PageCalls \ {"application"}
    BY <2>1 DEF PageCalls
  <2> QED
    BY <1>1, <2>2, <2>3, <2>4, Zenon
<1>2. CASE kind \in {"controller", "applications"}
  <2>1. CallsOf(kind) = <<"permissions", "capabilities", "fleet", "controller", "capacity">>
    BY <1>2 DEF CallsOf
  <2>2. CallRange(kind) = PageCalls \ {"application", "activity"}
    BY <1>2 DEF CallRange
  <2> QED
    BY <1>2, <2>1, <2>2 DEF PageCalls
<1>3. CASE kind \in {"activity", "application"}
  <2>1. CallsOf(kind) = <<"permissions", "capabilities", kind>>
    BY <1>3 DEF CallsOf
  <2>2. CallRange(kind) = {"permissions", "capabilities", kind}
    BY <1>3 DEF CallRange
  <2> QED
    BY <1>3, <2>1, <2>2
<1>4. CASE kind \in {"settings", "missing"}
  <2>1. CallsOf(kind) = << >>
    BY <1>4 DEF CallsOf
  <2> QED
    BY <1>4, <2>1
<1> QED
  BY <1>1, <1>2, <1>3, <1>4, Zenon DEF Kinds

\* Which pages make which calls.
LEMMA WhoCalls ==
  ASSUME FreshInv, NEW req, NextCall(req)
  PROVE  /\ page.todo # << >> /\ page.pc = "calls" /\ page.kind # "settings"
         /\ req \in {"fleet", "controller", "capacity"} =>
              page.kind \notin {"activity", "application"}
         /\ req = "activity" => page.kind \in {"activity", "fleet"}
         /\ req = "application" => page.kind = "application"
<1>1. page.todo # << >> /\ page.pc = "calls" /\ page.todo[1] = req /\ 1 \in DOMAIN page.todo
  BY DEF NextCall, FreshInv, PageRecords
<1>2. req \in CallRange(page.kind) /\ page.kind \in Kinds
  BY <1>1, Zenon DEF FreshInv, PageRecords
<1> QED
  BY <1>1, <1>2 DEF CallRange, Kinds

\* What keeps FreshInv when a call has been answered.
LEMMA FreshMoved ==
  ASSUME FreshInv, NEW req, NextCall(req), Moved, page' \in PageRecords,
         page.kind \in {"activity", "application"} =>
           page'.view = page.kind \/ (req # page.kind /\ page'.view = page.view),
         page.kind \notin {"activity", "application"} =>
           /\ page'.view \in {"none", "fleet"}
           /\ page'.fresh \in {"none", "fleet"} \/ req = "activity"
  PROVE  FreshInv'
<1>1. /\ page'.kind = page.kind /\ page'.pc = "calls" /\ page'.todo = Tail(page.todo)
      /\ page.kind # "settings"
  BY WhoCalls, Zenon DEF Moved, SamePage
<1> DEFINE t == page.todo
<1>2. t \in Seq(PageCalls) /\ t # << >> /\ t[1] = req
  BY WhoCalls, Zenon DEF FreshInv, PageRecords, NextCall
<1>3. \A i \in DOMAIN t : t[i] \in CallRange(page.kind) /\ (t[i] = "activity" => i = Len(t))
  BY Zenon DEF FreshInv
<1>4. page.kind \in {"activity", "application"} =>
        page.view = page.kind \/ t[Len(t)] = page.kind
  BY Zenon DEF FreshInv
<1> HIDE DEF t
<1>5. \A i \in DOMAIN Tail(t) : /\ Tail(t)[i] \in CallRange(page.kind)
                                /\ Tail(t)[i] = "activity" => i = Len(Tail(t))
  <2> SUFFICES ASSUME NEW i \in DOMAIN Tail(t)
               PROVE  /\ Tail(t)[i] \in CallRange(page.kind)
                      /\ Tail(t)[i] = "activity" => i = Len(Tail(t))
    BY Zenon
  <2>1. i + 1 \in DOMAIN t /\ Tail(t)[i] = t[i + 1] /\ Len(Tail(t)) = Len(t) - 1
    BY <1>2, TailOfCalls, Zenon
  <2>2. i \in Int /\ Len(t) \in Int
    BY <1>2, TailOfCalls
  <2>3. i + 1 = Len(t) => i = Len(Tail(t))
    BY <2>1, <2>2
  <2> QED
    BY <1>3, <2>1, <2>3, Zenon
<1>6. req = "activity" => Tail(t) = << >>
  <2>1. 1 \in DOMAIN t
    BY <1>2, TailOfCalls
  <2> QED
    BY <1>2, <1>3, <2>1, TailOfCalls
<1>7. page.kind \in {"activity", "application"} =>
        \/ page'.view = page.kind
        \/ Tail(t) # << >> /\ Tail(t)[Len(Tail(t))] = page.kind
  BY <1>2, <1>4, TailOfCalls, Zenon
<1> QED
  BY <1>1, <1>5, <1>6, <1>7, Zenon DEF FreshInv, t

\* FreshInv holds before the first page.
LEMMA FreshInit == PageInit => FreshInv
  BY NoPageIsAPage DEF PageInit, FreshInv

\* Every step keeps FreshInv.
LEMMA FreshStep == ScopeInv /\ FreshInv /\ [PageNext]_pageVars => FreshInv'
<1> SUFFICES ASSUME ScopeInv, FreshInv, [PageNext]_pageVars PROVE FreshInv'
  OBVIOUS
<1>0. /\ page \in PageRecords /\ registry \in Registries
      /\ page.pc # "none" => page.user \in Users
  BY Zenon DEF ScopeInv
<1>1. ASSUME NEW pc, Ended(pc), page' \in PageRecords, pc = "200" => page.todo = << >>
      PROVE  FreshInv'
  BY <1>1, Zenon DEF Ended, FreshInv, SamePage
<1>2. CASE SourceForRequest \/ Render \/ NotFound
  BY <1>0, <1>1, <1>2, OtherPageStep, Zenon
<1>3. ASSUME CallEnds, page' \in PageRecords PROVE FreshInv'
  BY <1>1, <1>3, Zenon DEF CallEnds
<1>4. ASSUME NEW req, NextCall(req)
      PROVE  /\ page.user \in Users
             /\ page.kind \notin {"activity", "application"} =>
                  page.view \in {"none", "fleet"} /\ page.fresh \in {"none", "fleet"}
  BY <1>0, <1>4, WhoCalls, Zenon DEF FreshInv
<1>5. CASE Authorize
  <2>1. NextCall("permissions")
    BY <1>5, Zenon DEF Authorize
  <2> QED
    BY <1>0, <1>3, <1>4, <1>5, <2>1, AuthorizeStep, FreshMoved, Zenon
<1>6. CASE LoadCapabilities
  <2>1. NextCall("capabilities")
    BY <1>6 DEF LoadCapabilities
  <2> QED
    BY <1>0, <1>3, <1>4, <1>6, <2>1, CapabilitiesStep, FreshMoved, Zenon
<1>7. CASE LoadFleet
  <2>1. NextCall("fleet")
    BY <1>7 DEF LoadFleet
  <2> QED
    BY <1>0, <1>4, <1>7, <2>1, FleetStep, FreshMoved, WhoCalls, Zenon
<1>8. ASSUME NEW req, LoadPanel(req) PROVE FreshInv'
  <2>1. NextCall(req) /\ req \in {"controller", "capacity"}
    BY <1>8 DEF LoadPanel
  <2> QED
    BY <1>0, <1>4, <1>8, <2>1, PanelStep, FreshMoved, WhoCalls, Zenon
<1>9. CASE LoadActivity
  <2>1. NextCall("activity")
    BY <1>9 DEF LoadActivity
  <2> QED
    BY <1>0, <1>3, <1>4, <1>9, <2>1, ActivityStep, FreshMoved, WhoCalls, Zenon
<1>10. CASE LoadApplication
  <2>1. NextCall("application")
    BY <1>10 DEF LoadApplication
  <2> QED
    BY <1>0, <1>3, <1>4, <1>10, <2>1, ApplicationStep, FreshMoved, WhoCalls, Zenon
<1>11. ASSUME NEW u \in Users, NEW p \in Pages,
              NEW n \in IF p[1] = "application" THEN Names ELSE {NoPage.name},
              OpenPage(u, p[1], p[2], n)
       PROVE  FreshInv'
  <2>1. /\ page' \in PageRecords /\ page'.kind \in Kinds /\ page'.todo = CallsOf(page'.kind)
        /\ page'.view = "none" /\ page'.fresh = "none" /\ page'.pc # "200"
    BY <1>11, OpenStep, Zenon DEF PageRecords
  <2> DEFINE k == page'.kind
  <2>2. /\ \A i \in DOMAIN CallsOf(k) : /\ CallsOf(k)[i] \in CallRange(k)
                                        /\ CallsOf(k)[i] = "activity" => i = Len(CallsOf(k))
        /\ k \in {"activity", "application"} =>
             CallsOf(k) # << >> /\ CallsOf(k)[Len(CallsOf(k))] = k
    BY <2>1, CallsFit, Zenon
  <2> QED
    BY <2>1, <2>2, Zenon DEF FreshInv
<1>12. CASE \/ UNCHANGED pageVars \/ \E u \in Users : SessionEnds(u)
            \/ \E n \in Names, row \in RowValues \cup {Absent} : RowChanges(n, row)
            \/ \E reg \in Registries, b \in BOOLEAN : ControllerRestarts(reg, b)
  <2>1. UNCHANGED page
    BY <1>12, Zenon DEF pageVars, SessionEnds, RowChanges, ControllerRestarts
  <2> QED
    BY <2>1, Zenon DEF FreshInv
<1> QED
  BY <1>2, <1>5, <1>6, <1>7, <1>8, <1>9, <1>10, <1>11, <1>12, Zenon DEF PageNext, PageStep

\* The freshness a page shows is that of its primary evidence: the optional activity call
\* does not replace it (httpui/server.go:177).
THEOREM PagesShowTheirFreshness == PageSpec => []FreshnessIsPrimary
<1>1. FreshInv => FreshnessIsPrimary
  BY DEF FreshInv, FreshnessIsPrimary
<1> QED
  BY <1>1, ScopeInit, ScopeStep, FreshInit, FreshStep, PTL DEF PageSpec
=============================================================================
