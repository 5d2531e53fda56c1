----------------------------- MODULE ApiCaches ------------------------------
(***************************************************************************)
(* The two caches of the HTTP API (internal/api/server.go) in front of     *)
(* expensive docker collections, "capacity" and "hosts", behind the limits *)
(* on concurrent requests.  The first request that finds no valid entry    *)
(* leads: it collects outside the mutex, stores the outcome and wakes the  *)
(* others, which look again.  The capacity cache keeps errors for a short  *)
(* time and collects under a context of its own; the host cache keeps no   *)
(* error and collects under the context of the leading request.            *)
(***************************************************************************)
EXTENDS FiniteSets, Naturals

CONSTANTS
  Callers,      \* HTTP requests that may be in progress at once
  Limit         \* of limitConcurrency, for each cache's route

Caches == {"capacity", "hosts"}

ASSUME CachesAssumption == Limit \in Nat \ {0}

VARIABLES
  stored,       \* cache -> the entry, while it is valid
  leader,       \* cache -> the request whose wait channel is set, in a set
  call,         \* each request: where it is, its cache and what it got
  gone,         \* requests whose client has disconnected
  sem           \* cache -> the requests inside limitConcurrency

cacheVars == <<stored, leader, call, gone, sem>>

NoCall == [pc |-> "idle", cache |-> "capacity", got |-> "none"]

CachesTypeOK ==
  /\ stored \in [Caches -> {"none", "sample", "error", "cancelled"}]
  /\ leader \in [Caches -> SUBSET Callers]
  /\ call \in [Callers -> [pc : {"idle", "look", "collect", "wait", "done"}, cache : Caches,
                           got : {"none", "sample", "error", "cancelled"}]]
  /\ gone \subseteq Callers
  /\ sem \in [Caches -> SUBSET Callers]

CachesInit ==
  /\ stored = [c \in Caches |-> "none"] /\ leader = [c \in Caches |-> {}]
  /\ call = [r \in Callers |-> NoCall] /\ gone = {}
  /\ sem = [c \in Caches |-> {}]

-----------------------------------------------------------------------------

\* A request comes in and limitConcurrency lets it through; over the limit it is
\* answered 429 at once.
Arrive(r, c) ==
  /\ call[r].pc = "idle" /\ Cardinality(sem[c]) < Limit
  /\ sem' = [sem EXCEPT ![c] = @ \cup {r}]
  /\ call' = [call EXCEPT ![r] = [pc |-> "look", cache |-> c, got |-> "none"]]
  /\ UNCHANGED <<stored, leader, gone>>

ClientLeaves(r) ==
  /\ call[r].pc \in {"look", "collect", "wait"} /\ r \notin gone
  /\ gone' = gone \cup {r}
  /\ UNCHANGED <<stored, leader, call, sem>>

\* The time to live of a stored entry passes.
EntryExpires(c) ==
  /\ stored[c] # "none"
  /\ stored' = [stored EXCEPT ![c] = "none"]
  /\ UNCHANGED <<leader, call, gone, sem>>

Gets(r, what) == [call EXCEPT ![r].pc = "done", ![r].got = what]

\* Mutant: a request that finds no valid entry collects although another one does.
LookCollects(r) ==
  /\ call[r].pc = "look"
  /\ LET c == call[r].cache IN
     \/ stored[c] # "none" /\ call' = Gets(r, stored[c]) /\ UNCHANGED leader
     \/ /\ stored[c] = "none"
        /\ leader' = [leader EXCEPT ![c] = {r}]
        /\ call' = [call EXCEPT ![r].pc = "collect"]
  /\ UNCHANGED <<stored, gone, sem>>

\* One pass of get's loop under the mutex.
Look(r) ==
  /\ call[r].pc = "look"
  /\ LET c == call[r].cache IN
     \/ stored[c] # "none" /\ call' = Gets(r, stored[c]) /\ UNCHANGED leader
     \/ /\ stored[c] = "none" /\ leader[c] = {}
        /\ leader' = [leader EXCEPT ![c] = {r}]
        /\ call' = [call EXCEPT ![r].pc = "collect"]
     \/ /\ stored[c] = "none" /\ leader[c] # {}
        /\ call' = [call EXCEPT ![r].pc = "wait"] /\ UNCHANGED leader
  /\ UNCHANGED <<stored, gone, sem>>

\* Mutant: both collections run under the context of the request.
OutcomesOfRequest(c, r) ==
  IF r \in gone THEN {"sample", "error", "cancelled"} ELSE {"sample", "error"}

\* What a collection led by r may end in: only the one for hosts sees its client leave.
Outcomes(c, r) ==
  IF c = "hosts" /\ r \in gone THEN {"sample", "error", "cancelled"} ELSE {"sample", "error"}

\* Mutant: a collection that fails returns before the channel is closed.
CollectedWakesNone(r, outcome) ==
  /\ call[r].pc = "collect" /\ outcome \in Outcomes(call[r].cache, r)
  /\ LET c == call[r].cache IN
     /\ stored' = [stored EXCEPT ![c] = IF outcome = "sample" THEN outcome ELSE @]
     /\ leader' = [leader EXCEPT ![c] = {}]
     /\ call' = [q \in Callers |->
                   IF q = r THEN [call[r] EXCEPT !.pc = "done", !.got = outcome]
                   ELSE IF /\ call[q].pc = "wait" /\ call[q].cache = c
                           /\ outcome = "sample"
                        THEN [call[q] EXCEPT !.pc = "look"]
                        ELSE call[q]]
  /\ UNCHANGED <<gone, sem>>

\* The leader stores the outcome, clears the channel and closes it.
Collected(r, outcome) ==
  /\ call[r].pc = "collect" /\ outcome \in Outcomes(call[r].cache, r)
  /\ LET c == call[r].cache IN
     /\ stored' = [stored EXCEPT ![c] =
                     IF c = "capacity" \/ outcome = "sample" THEN outcome ELSE @]
     /\ leader' = [leader EXCEPT ![c] = {}]
     /\ call' = [q \in Callers |->
                   IF q = r THEN [call[r] EXCEPT !.pc = "done", !.got = outcome]
                   ELSE IF call[q].pc = "wait" /\ call[q].cache = c
                        THEN [call[q] EXCEPT !.pc = "look"]
                        ELSE call[q]]
  /\ UNCHANGED <<gone, sem>>

\* A waiting request whose client has left.
GiveUp(r) ==
  /\ call[r].pc = "wait" /\ r \in gone
  /\ call' = Gets(r, "cancelled")
  /\ UNCHANGED <<stored, leader, gone, sem>>

\* The handler returns and leaves the semaphore.
Return(r) ==
  /\ call[r].pc = "done"
  /\ sem' = [sem EXCEPT ![call[r].cache] = @ \ {r}]
  /\ call' = [call EXCEPT ![r] = NoCall]
  /\ gone' = gone \ {r}
  /\ UNCHANGED <<stored, leader>>

-----------------------------------------------------------------------------

CallStep(r) ==
  \/ Look(r) \/ GiveUp(r) \/ Return(r)
  \/ \E o \in {"sample", "error", "cancelled"} : Collected(r, o)
CachesNext ==
  \/ \E r \in Callers : CallStep(r) \/ ClientLeaves(r) \/ \E c \in Caches : Arrive(r, c)
  \/ \E c \in Caches : EntryExpires(c)

\* A handler runs and a collection ends.
CachesFairness == \A r \in Callers : WF_cacheVars(CallStep(r))

CachesSpec == CachesInit /\ [][CachesNext]_cacheVars /\ CachesFairness

-----------------------------------------------------------------------------
(* Properties. *)

\* One collection at a time for each cache, whichever requests come, leave or are woken,
\* and a request waits only while somebody collects for it (server.go:74).
SingleFlight ==
  /\ \A c \in Caches :
       leader[c] = {r \in Callers : call[r].pc = "collect" /\ call[r].cache = c}
  /\ \A c \in Caches : Cardinality(leader[c]) <= 1
  /\ \A r \in Callers : call[r].pc = "wait" => leader[call[r].cache] # {}

\* A request is told that the request was cancelled only when its own client has left: "A
\* browser disconnect must not poison the shared five-second cache" (server.go:78), nor
\* the answer of those who wait for the one that left.
NoForeignCancellation == \A r \in Callers : call[r].got = "cancelled" => r \in gone

\* While a request is inside, one is answered in the end, also when leader after leader
\* fails or leaves.  Which one is open: a request that is woken may find the entry expired
\* and somebody else collecting (server.go:139).
SomebodyIsAnswered ==
  (\E r \in Callers : call[r].pc # "idle") ~> (\E r \in Callers : call[r].pc = "done")
=============================================================================
