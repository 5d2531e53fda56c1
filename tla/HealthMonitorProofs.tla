------------------------- MODULE HealthMonitorProofs -------------------------
(***************************************************************************)
(* Proofs about HealthMonitor, for any services and any changes around it: *)
(* an observation never overwrites a newer row, and the health gate is     *)
(* passed only by services that have been healthy.                         *)
(***************************************************************************)
EXTENDS HealthMonitor, TLAPS

Steps == {"idle", "read", "list", "inspect", "decide"}
Seen == [Services -> Statuses \cup {"absent", "todo"}]
Checks == [step : Steps, fresh : BOOLEAN, behind : BOOLEAN, seen : Seen]

\* A check that has been overtaken by a write no longer holds the row's updated_at.
Guarded == \A c \in Checkers : check[c].behind => check[c].step = "inspect" /\ ~check[c].fresh

\* While a reconciliation waits at the gate, every service that is healthy now, or that the
\* gate's check has seen healthy, has been healthy since it began to wait; nobody else
\* uses the gate's check.
GateSees ==
  /\ gate # "wait" => check["gate"].step = "idle"
  /\ check["gate"].step = "idle" => \A s \in Services : check["gate"].seen[s] # "Healthy"
  /\ gate = "wait" => Up \subseteq gateUp
  /\ gate = "wait" => \A s \in Services : check["gate"].seen[s] = "Healthy" => s \in gateUp
  /\ GateIsEarned

HealthInv ==
  /\ containers \in [Services -> Containers]
  /\ check \in [Checkers -> Checks]
  /\ gateUp \subseteq Services
  /\ Guarded /\ GateSees

-----------------------------------------------------------------------------
(* Lemmas about the operators. *)

\* The statuses mapHealth gives.
LEMMA HealthMapped == ASSUME NEW c PROVE mapHealth(c) \in Statuses
  BY DEF mapHealth, Statuses

\* A check at rest, one that has just begun, and one handed back to its caller are checks,
\* have seen nothing healthy unless handed it, and are not behind.
LEMMA IdleChecks ==
  /\ Nothing \in Seen /\ \A s \in Services : Nothing[s] = "absent"
  /\ Idle \in Checks /\ Idle.step = "idle" /\ Idle.seen = Nothing /\ Idle.behind = FALSE
  BY DEF Idle, Nothing, Checks, Steps, Seen

\* What a write of the row does to the other checks.
LEMMA OvertakenChecks ==
  ASSUME NEW k \in Checks, k.behind => k.step = "inspect" /\ ~k.fresh
  PROVE  /\ Overtaken(k) \in Checks
         /\ Overtaken(k).step = k.step /\ Overtaken(k).seen = k.seen
         /\ Overtaken(k).fresh = FALSE
         /\ Overtaken(k).behind => k.step = "inspect"
<1>1. ASSUME NEW x \in BOOLEAN
      PROVE  /\ [k EXCEPT !.fresh = FALSE, !.behind = x] \in Checks
             /\ [k EXCEPT !.fresh = FALSE, !.behind = x].step = k.step
             /\ [k EXCEPT !.fresh = FALSE, !.behind = x].seen = k.seen
             /\ [k EXCEPT !.fresh = FALSE, !.behind = x].fresh = FALSE
             /\ [k EXCEPT !.fresh = FALSE, !.behind = x].behind = x
  BY Zenon DEF Checks
<1>2. (k.behind \/ k.step = "inspect") \in BOOLEAN
  OBVIOUS
<1>3. Overtaken(k) = [k EXCEPT !.fresh = FALSE, !.behind = k.behind \/ k.step = "inspect"]
  BY DEF Overtaken
<1> QED
  BY <1>1, <1>2, <1>3, Zenon

\* A check that is given a value keeps the types and the guard.
LEMMA Given ==
  ASSUME HealthInv, NEW c \in Checkers, NEW k \in Checks, To(c, k),
         k.behind => k.step = "inspect" /\ ~k.fresh
  PROVE  /\ check' \in [Checkers -> Checks] /\ Guarded'
         /\ check'[c] = k /\ \A d \in Checkers \ {c} : check'[d] = check[d]
  BY DEF HealthInv, To, Guarded

\* After a write of the row no check has its updated_at, and none has moved.
LEMMA AfterWrite ==
  ASSUME HealthInv, Written
  PROVE  /\ check' \in [Checkers -> Checks] /\ Guarded'
         /\ \A d \in Checkers : check'[d].step = check[d].step /\ check'[d].seen = check[d].seen
<1>1. \A d \in Checkers : check'[d] = Overtaken(check[d])
  BY DEF Written
<1>2. \A d \in Checkers : /\ check[d] \in Checks
                          /\ check[d].behind => check[d].step = "inspect" /\ ~check[d].fresh
  BY DEF HealthInv, Guarded
<1>3. ASSUME NEW d \in Checkers
      PROVE  /\ check'[d] \in Checks
             /\ check'[d].step = check[d].step /\ check'[d].seen = check[d].seen
             /\ check'[d].fresh = FALSE /\ (check'[d].behind => check[d].step = "inspect")
  <2>1. check'[d] = Overtaken(check[d]) /\ check[d] \in Checks
    BY <1>1, <1>2
  <2>2. check[d].behind => check[d].step = "inspect" /\ ~check[d].fresh
    BY <1>2
  <2> QED
    BY <2>1, <2>2, OvertakenChecks, Zenon
<1>4. check' \in [Checkers -> Checks]
  BY <1>3, Zenon DEF Written
<1> QED
  BY <1>3, <1>4, Zenon DEF Guarded

\* The same for a write that ends the writer's own check.
LEMMA AfterOwnWrite ==
  ASSUME HealthInv, NEW c \in Checkers, NEW k \in Checks, ~k.behind, WrittenBy(c, k)
  PROVE  /\ check' \in [Checkers -> Checks] /\ Guarded' /\ check'[c] = k
         /\ \A d \in Checkers \ {c} : check'[d].step = check[d].step /\ check'[d].seen = check[d].seen
<1>1. check'[c] = k /\ \A d \in Checkers \ {c} : check'[d] = Overtaken(check[d])
  BY DEF WrittenBy
<1>2. \A d \in Checkers : /\ check[d] \in Checks
                          /\ check[d].behind => check[d].step = "inspect" /\ ~check[d].fresh
  BY DEF HealthInv, Guarded
<1>3. ASSUME NEW d \in Checkers \ {c}
      PROVE  /\ check'[d] \in Checks
             /\ check'[d].step = check[d].step /\ check'[d].seen = check[d].seen
             /\ check'[d].fresh = FALSE /\ (check'[d].behind => check[d].step = "inspect")
  <2>1. check'[d] = Overtaken(check[d]) /\ check[d] \in Checks
    BY <1>1, <1>2
  <2>2. check[d].behind => check[d].step = "inspect" /\ ~check[d].fresh
    BY <1>2
  <2> QED
    BY <2>1, <2>2, OvertakenChecks, Zenon
<1>4. check' \in [Checkers -> Checks]
  BY <1>1, <1>3, Zenon DEF WrittenBy
<1> QED
  BY <1>1, <1>3, <1>4, Zenon DEF Guarded

\* The gate's part of the invariant depends on the gate, the containers and its own check.
LEMMA GateUntouched ==
  ASSUME HealthInv, UNCHANGED <<gate, gateUp, containers>>,
         check'["gate"].step = check["gate"].step, check'["gate"].seen = check["gate"].seen
  PROVE  GateSees'
  BY DEF HealthInv, GateSees, GateIsEarned, Up

\* A check that begins, and one that is handed back, are at rest or have seen nothing.
LEMMA Handed ==
  ASSUME NEW c \in Checkers, NEW seen \in Seen
  PROVE  /\ Returned(c, seen) \in Checks /\ ~Returned(c, seen).behind
         /\ Returned("gate", seen) = Idle
         /\ [Idle EXCEPT !.step = "read"] \in Checks /\ ~[Idle EXCEPT !.step = "read"].behind
         /\ [Idle EXCEPT !.step = "read"].step = "read"
         /\ [Idle EXCEPT !.step = "read"].seen = Nothing
<1>1. /\ [Idle EXCEPT !.step = "read"] \in Checks /\ ~[Idle EXCEPT !.step = "read"].behind
      /\ [Idle EXCEPT !.step = "read"].step = "read"
      /\ [Idle EXCEPT !.step = "read"].seen = Nothing
  BY IdleChecks, Zenon DEF Idle, Checks, Steps
<1>2. /\ [Idle EXCEPT !.step = "decide", !.seen = seen] \in Checks
      /\ ~[Idle EXCEPT !.step = "decide", !.seen = seen].behind
  BY IdleChecks, Zenon DEF Idle, Checks, Steps
<1> QED
  BY <1>1, <1>2, IdleChecks DEF Returned

-----------------------------------------------------------------------------
(* The steps of a check. *)

\* GetApplication.
LEMMA ReadRowKeeps ==
  ASSUME HealthInv, NEW c \in Checkers, ReadRow(c)
  PROVE  HealthInv'
<1>1. /\ check[c].step = "read" /\ UNCHANGED <<containers, gate, gateUp>>
      /\ \/ To(c, [check[c] EXCEPT !.step = "list", !.fresh = TRUE])
         \/ To(c, Returned(c, Nothing))
  BY DEF ReadRow
<1>2. check[c] \in Checks /\ ~check[c].behind
  BY <1>1 DEF HealthInv, Guarded
<1>3. CASE To(c, [check[c] EXCEPT !.step = "list", !.fresh = TRUE])
  <2> DEFINE k == [check[c] EXCEPT !.step = "list", !.fresh = TRUE]
  <2>1. k \in Checks /\ ~k.behind /\ k.step = "list" /\ k.seen = check[c].seen
    BY <1>2, Zenon DEF Checks, Steps
  <2> HIDE DEF k
  <2>2. /\ check' \in [Checkers -> Checks] /\ Guarded'
        /\ check'[c] = k /\ \A d \in Checkers \ {c} : check'[d] = check[d]
    BY <1>3, <2>1, Given, Zenon DEF k
  <2>3. GateSees'
    BY <1>1, <2>1, <2>2 DEF HealthInv, GateSees, GateIsEarned, Up, Checkers
  <2> QED
    BY <1>1, <2>2, <2>3 DEF HealthInv
<1>4. CASE To(c, Returned(c, Nothing))
  <2>1. /\ check' \in [Checkers -> Checks] /\ Guarded'
        /\ check'[c] = Returned(c, Nothing) /\ \A d \in Checkers \ {c} : check'[d] = check[d]
    BY <1>4, IdleChecks, Handed, Given
  <2>2. GateSees'
    BY <1>1, <2>1, IdleChecks, Handed DEF HealthInv, GateSees, GateIsEarned, Up, Checkers
  <2> QED
    BY <1>1, <2>1, <2>2 DEF HealthInv
<1> QED
  BY <1>1, <1>3, <1>4

\* Inspect lists the containers.
LEMMA ListKeeps ==
  ASSUME HealthInv, NEW c \in Checkers, ListContainers(c)
  PROVE  HealthInv'
<1> DEFINE seen == [s \in Services |-> IF containers[s] = "absent" THEN "absent" ELSE "todo"]
           k == [check[c] EXCEPT !.step = "inspect", !.seen = seen]
<1>1. check[c].step = "list" /\ To(c, k) /\ UNCHANGED <<containers, gate, gateUp>>
  BY DEF ListContainers
<1>2. check[c] \in Checks /\ ~check[c].behind
  BY <1>1 DEF HealthInv, Guarded
<1>3. seen \in Seen /\ \A s \in Services : seen[s] # "Healthy"
  BY DEF Seen
<1> HIDE DEF seen
<1>4. k \in Checks /\ ~k.behind /\ k.step = "inspect" /\ k.seen = seen
  BY <1>2, <1>3, Zenon DEF Checks, Steps
<1> HIDE DEF k
<1>5. /\ check' \in [Checkers -> Checks] /\ Guarded'
      /\ check'[c] = k /\ \A d \in Checkers \ {c} : check'[d] = check[d]
  BY <1>1, <1>4, Given
<1>6. GateSees'
  BY <1>1, <1>3, <1>4, <1>5 DEF HealthInv, GateSees, GateIsEarned, Up, Checkers
<1> QED
  BY <1>1, <1>5, <1>6 DEF HealthInv

\* Inspect looks at one container.
LEMMA InspectKeeps ==
  ASSUME HealthInv, NEW c \in Checkers, NEW s \in Services, InspectContainer(c, s)
  PROVE  HealthInv'
<1> DEFINE seen == [check[c].seen EXCEPT ![s] = mapHealth(containers[s])]
           k == [check[c] EXCEPT !.seen = seen]
<1>1. check[c].step = "inspect" /\ To(c, k) /\ UNCHANGED <<containers, gate, gateUp>>
  BY DEF InspectContainer
<1>2. check[c] \in Checks /\ check[c].seen \in Seen /\ (check[c].behind => ~check[c].fresh)
  BY DEF HealthInv, Guarded, Checks
<1>3. /\ seen \in Seen /\ \A t \in Services \ {s} : seen[t] = check[c].seen[t]
      /\ seen[s] = "Healthy" => s \in Up
  BY <1>2, HealthMapped DEF Seen, Up
<1> HIDE DEF seen
<1>4. /\ k \in Checks /\ k.behind = check[c].behind /\ k.fresh = check[c].fresh
      /\ k.step = check[c].step /\ k.seen = seen
  BY <1>2, <1>3 DEF Checks
<1> HIDE DEF k
<1>5. /\ check' \in [Checkers -> Checks] /\ Guarded'
      /\ check'[c] = k /\ \A d \in Checkers \ {c} : check'[d] = check[d]
  BY <1>1, <1>2, <1>4, Given
<1>6. GateSees'
  <2>1. CASE c = "gate"
    BY <1>1, <1>3, <1>4, <1>5, <2>1 DEF HealthInv, GateSees, GateIsEarned, Up
  <2>2. CASE c # "gate"
    BY <1>1, <1>5, <2>2, GateUntouched DEF Checkers
  <2> QED
    BY <2>1, <2>2
<1> QED
  BY <1>1, <1>5, <1>6 DEF HealthInv

\* RecordHealthObservation: only the gate's own check lets a reconciliation pass, and only
\* when it has seen every service healthy.
LEMMA RecordKeeps ==
  ASSUME HealthInv, NEW c \in Checkers, RecordHealthObservation(c)
  PROVE  HealthInv'
<1> DEFINE k == Returned(c, check[c].seen)
<1>1. /\ check[c].step = "inspect" /\ UNCHANGED <<containers, gateUp>>
      /\ To(c, k) \/ WrittenBy(c, k)
      /\ gate' = IF c = "gate" /\ GatePasses(check[c].seen) THEN "passed" ELSE gate
  BY DEF RecordHealthObservation
<1>2. k \in Checks /\ ~k.behind /\ (c = "gate" => k = Idle)
  BY Handed DEF HealthInv, Checks
<1> HIDE DEF k
<1>3. /\ check' \in [Checkers -> Checks] /\ Guarded' /\ check'[c] = k
      /\ \A d \in Checkers \ {c} : check'[d].step = check[d].step /\ check'[d].seen = check[d].seen
  BY <1>1, <1>2, Given, AfterOwnWrite
<1>4. GateSees'
  <2>1. CASE c # "gate"
    BY <1>1, <1>3, <2>1, GateUntouched DEF Checkers
  <2>2. CASE c = "gate"
    <3>1. check'["gate"].step = "idle" /\ \A s \in Services : check'["gate"].seen[s] # "Healthy"
      BY <1>2, <1>3, <2>2, IdleChecks
    <3>2. gate = "wait" /\ Up' = Up
      BY <1>1, <2>2 DEF HealthInv, GateSees, Up
    <3>3. CASE GatePasses(check[c].seen)
      <4>1. gateUp = Services /\ gate' = "passed" /\ gateUp' = gateUp
        BY <1>1, <2>2, <3>2, <3>3, SMTT(60) DEF GatePasses, HealthInv, GateSees
      <4> QED
        BY <3>1, <4>1 DEF GateSees, GateIsEarned
    <3>4. CASE ~GatePasses(check[c].seen)
      BY <1>1, <3>1, <3>2, <3>4 DEF HealthInv, GateSees, GateIsEarned
    <3> QED
      BY <3>3, <3>4
  <2> QED
    BY <2>1, <2>2
<1> QED
  BY <1>1, <1>3, <1>4 DEF HealthInv

\* A check that gives up is at rest.
LEMMA FailKeeps ==
  ASSUME HealthInv, NEW c \in Checkers, To(c, Idle), UNCHANGED <<containers, gate, gateUp>>
  PROVE  HealthInv'
<1>1. /\ check' \in [Checkers -> Checks] /\ Guarded'
      /\ check'[c] = Idle /\ \A d \in Checkers \ {c} : check'[d] = check[d]
  BY IdleChecks, Given
<1>2. GateSees'
  <2>1. CASE c = "gate"
    BY <1>1, <2>1, IdleChecks DEF HealthInv, GateSees, GateIsEarned, Up
  <2>2. CASE c # "gate"
    BY <1>1, <2>2, GateUntouched DEF Checkers
  <2> QED
    BY <2>1, <2>2
<1> QED
  BY <1>1, <1>2 DEF HealthInv

\* A check that begins has seen nothing; the gate's begins only while somebody waits.
LEMMA BeginKeeps ==
  ASSUME HealthInv, NEW c \in Checkers, Begin(c), UNCHANGED <<containers, gate, gateUp>>,
         c = "gate" => gate = "wait"
  PROVE  HealthInv'
<1> DEFINE k == [Idle EXCEPT !.step = "read"]
<1>1. k \in Checks /\ ~k.behind /\ k.step = "read" /\ k.seen = Nothing
  BY Handed, IdleChecks
<1>2. To(c, k)
  BY DEF Begin, To
<1> HIDE DEF k
<1>3. /\ check' \in [Checkers -> Checks] /\ Guarded'
      /\ check'[c] = k /\ \A d \in Checkers \ {c} : check'[d] = check[d]
  BY <1>1, <1>2, Given
<1>4. GateSees'
  <2>1. CASE c = "gate"
    BY <1>1, <1>3, <2>1, IdleChecks DEF HealthInv, GateSees, GateIsEarned, Up
  <2>2. CASE c # "gate"
    BY <1>3, <2>2, GateUntouched DEF Checkers
  <2> QED
    BY <2>1, <2>2
<1> QED
  BY <1>3, <1>4 DEF HealthInv

\* The steps of a check together.
LEMMA CheckKeeps ==
  ASSUME HealthInv, NEW c \in Checkers, CheckStep(c)
  PROVE  HealthInv'
<1>1. CheckFails(c) => To(c, Idle) /\ UNCHANGED <<containers, gate, gateUp>>
  BY DEF CheckFails
<1> QED
  BY <1>1, ReadRowKeeps, ListKeeps, InspectKeeps, RecordKeeps, FailKeeps DEF CheckStep

-----------------------------------------------------------------------------
(* The invariant. *)

\* The monitor starts with no check under way and no reconciliation at the gate.
LEMMA HealthInvInit == HealthInit => HealthInv
<1> SUFFICES ASSUME HealthInit PROVE HealthInv
  OBVIOUS
<1>1. check \in [Checkers -> Checks] /\ \A c \in Checkers : check[c] = Idle
  BY IdleChecks, Zenon DEF HealthInit
<1>2. containers \in [Services -> Containers] /\ gate = "none" /\ gateUp = {}
  BY HealthAssumption, Zenon DEF HealthInit
<1>3. GateSees
  BY <1>1, <1>2, IdleChecks DEF GateSees, GateIsEarned, Checkers
<1> QED
  BY <1>1, <1>2, <1>3, IdleChecks DEF HealthInv, Guarded

\* Every step keeps the invariant.
LEMMA HealthInvNext == HealthInv /\ [HealthNext]_healthVars => HealthInv'
<1> SUFFICES ASSUME HealthInv, [HealthNext]_healthVars PROVE HealthInv'
  OBVIOUS
<1>1. ASSUME UNCHANGED <<containers, check, gate, gateUp>> PROVE HealthInv'
  BY <1>1 DEF HealthInv, Guarded, GateSees, GateIsEarned, Up
<1>2. ASSUME NEW s \in Services, NEW c \in Containers, ContainerChanges(s, c) PROVE HealthInv'
  <2>1. /\ containers' \in [Services -> Containers] /\ containers'[s] = c
        /\ \A t \in Services \ {s} : containers'[t] = containers[t]
        /\ UNCHANGED <<check, gate>>
        /\ gateUp' = IF gate = "wait" /\ mapHealth(c) = "Healthy" THEN gateUp \cup {s} ELSE gateUp
    BY <1>2 DEF ContainerChanges, HealthInv
  <2>2. gate = "wait" => Up' \subseteq gateUp'
    BY <2>1 DEF Up, HealthInv, GateSees
  <2>3. gateUp \subseteq gateUp' /\ gateUp' \subseteq Services /\ (gate # "wait" => gateUp' = gateUp)
    BY <2>1 DEF HealthInv
  <2>4. GateSees' /\ Guarded'
    BY <2>1, <2>2, <2>3 DEF HealthInv, GateSees, GateIsEarned, Guarded
  <2> QED
    BY <2>1, <2>3, <2>4 DEF HealthInv
<1>3. CASE RowDeleted \/ RowCreated \/ RowTouched
  <2>1. Written /\ UNCHANGED <<containers, gate, gateUp>>
    BY <1>3, Zenon DEF RowDeleted, RowCreated, RowTouched
  <2>2. GateSees'
    BY <2>1, AfterWrite, GateUntouched DEF Checkers
  <2> QED
    BY <2>1, <2>2, AfterWrite DEF HealthInv
<1>4. CASE GateExpires \/ RecordDeployed
  <2>1. /\ Written /\ UNCHANGED <<containers, gateUp>> /\ gate' \in {"none", "watch"}
        /\ check["gate"].step = "idle"
    BY <1>4 DEF GateExpires, RecordDeployed, HealthInv, GateSees
  <2>2. GateSees'
    BY <2>1, AfterWrite DEF HealthInv, GateSees, GateIsEarned, Checkers
  <2> QED
    BY <2>1, <2>2, AfterWrite DEF HealthInv
<1>5. CASE DeployUngated \/ WatchApp
  <2>1. /\ UNCHANGED <<containers, check, gateUp>> /\ gate' \in {"none", "deployed"}
        /\ gate # "wait"
    BY <1>5 DEF DeployUngated, WatchApp
  <2> QED
    BY <2>1 DEF HealthInv, Guarded, GateSees, GateIsEarned
<1>6. CASE ReachGate
  <2>1. UNCHANGED <<containers, check>> /\ gate = "none" /\ gate' = "wait" /\ gateUp' = Up /\ Up' = Up
    BY <1>6 DEF ReachGate, Up
  <2>2. Up \subseteq Services
    BY DEF Up
  <2> QED
    BY <2>1, <2>2 DEF HealthInv, Guarded, GateSees, GateIsEarned
<1>7. CASE PollTick \/ SweepTick \/ GateTick
  <2>1. \E c \in Checkers : Begin(c) /\ (c = "gate" => gate = "wait") /\ UNCHANGED <<containers, gate, gateUp>>
    BY <1>7 DEF PollTick, SweepTick, GateTick, Checkers
  <2> QED
    BY <2>1, BeginKeeps
<1>8. CASE PollDecides
  <2>1. "poll" \in Checkers /\ UNCHANGED <<containers, gate, gateUp>> /\ (To("poll", Idle) \/ WrittenBy("poll", Idle))
    BY <1>8 DEF PollDecides, Checkers
  <2>2. CASE WrittenBy("poll", Idle)
    <3>1. /\ check' \in [Checkers -> Checks] /\ Guarded'
          /\ check'["gate"].step = check["gate"].step /\ check'["gate"].seen = check["gate"].seen
      BY <2>1, <2>2, AfterOwnWrite, IdleChecks DEF Checkers
    <3>2. GateSees'
      BY <2>1, <3>1, GateUntouched
    <3> QED
      BY <2>1, <3>1, <3>2 DEF HealthInv
  <2> QED
    BY <2>1, <2>2, FailKeeps
<1>9. CASE TimeoutPasses \/ OldTimeoutPasses \/ StopMonitor \/ RemoveExpired \/ UNCHANGED healthVars
  BY <1>1, <1>9 DEF TimeoutPasses, OldTimeoutPasses, StopMonitor, RemoveExpired, healthVars
<1>10. CASE \E c \in Checkers : CheckStep(c)
  BY <1>10, CheckKeeps
<1> QED
  BY <1>2, <1>3, <1>4, <1>5, <1>6, <1>7, <1>8, <1>9, <1>10
     DEF HealthNext, MonitorStep, SweepStep, GateStep, Surroundings, Clock, Checkers

-----------------------------------------------------------------------------
(* The theorems. *)

\* A reconciliation passes the health gate only if every service of its wave has been
\* healthy since it began to wait (health.go:222-241).
THEOREM GateEarned == HealthSpec => []GateIsEarned
<1>1. HealthInv => GateIsEarned
  BY DEF HealthInv, GateSees
<1> QED
  BY <1>1, HealthInvInit, HealthInvNext, PTL DEF HealthSpec

\* No observation is written over a row that was written after the inspection began: the
\* guard on updated_at sees every such write (queries.go:213-228).
THEOREM NewestWins == HealthSpec => NewestObservationWins
<1> DEFINE Keeps == \A c \in Checkers :
                      check[c].step = "inspect" /\ check'[c].step # "inspect" /\ check[c].behind
                        => row' = row
<1>1. HealthInv /\ [HealthNext]_healthVars => [Keeps]_healthVars
  <2> SUFFICES ASSUME HealthInv, HealthNext, row' # row, NEW c \in Checkers,
                      check[c].step = "inspect", check'[c].step # "inspect", check[c].behind
               PROVE  FALSE
    OBVIOUS
  <2>1. ~Written
    BY AfterWrite
  <2>2. ASSUME NEW d \in Checkers, RecordHealthObservation(d) PROVE FALSE
    <3>1. check[d].fresh /\ WrittenBy(d, Returned(d, check[d].seen))
      BY <2>2 DEF RecordHealthObservation
    <3>2. d # c
      BY <3>1 DEF HealthInv, Guarded
    <3>3. Returned(d, check[d].seen) \in Checks /\ ~Returned(d, check[d].seen).behind
      BY Handed DEF HealthInv, Checks
    <3> QED
      BY <3>1, <3>2, <3>3, AfterOwnWrite
  <2>3. ASSUME PollDecides PROVE FALSE
    <3>1. "poll" \in Checkers /\ c # "poll" /\ WrittenBy("poll", Idle)
      BY <2>3 DEF PollDecides, Checkers
    <3> QED
      BY <3>1, AfterOwnWrite, IdleChecks
  <2> QED
    BY <2>1, <2>2, <2>3, Zenon
       DEF HealthNext, MonitorStep, SweepStep, GateStep, Surroundings, Clock, CheckStep, Checkers,
           ContainerChanges, TimeoutPasses, OldTimeoutPasses, RowDeleted, RowCreated, RowTouched,
           DeployUngated, ReachGate, GateExpires, RecordDeployed, WatchApp, StopMonitor, PollTick,
           SweepTick, GateTick, ReadRow, ListContainers, InspectContainer, CheckFails, RemoveExpired
<1> QED
  BY <1>1, HealthInvInit, HealthInvNext, PTL DEF HealthSpec, NewestObservationWins
=============================================================================
