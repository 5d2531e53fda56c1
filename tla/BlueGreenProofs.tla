--------------------------- MODULE BlueGreenProofs ---------------------------
(***************************************************************************)
(* Proofs about the blue-green deployer: what a successful deployment      *)
(* leaves behind and the health gate hold under every fault; the           *)
(* all-or-nothing rollout holds until a fault occurs.                      *)
(***************************************************************************)
EXTENDS BlueGreen, TLAPS

\* What docker does to a colour, and what a command that fails leaves of it,
\* keeps the types of the two projects.
LEMMA ComposeTyped ==
    ASSUME DeployTypeOK, NEW c \in Colors, NEW r \in Revs \cup {NoRev},
           ComposeUpFails(c, r) \/ ComposeDown(c) \/ ComposeDownFails(c) \/ UNCHANGED dockerVars
    PROVE  /\ colors' \in [Colors -> RunningStates \cup {"none", "stopped"}]
           /\ rev' \in [Colors -> Revs \cup {NoRev}]
<1>1. /\ colors \in [Colors -> RunningStates \cup {"none", "stopped"}]
      /\ rev \in [Colors -> Revs \cup {NoRev}]
  BY DEF DeployTypeOK
<1>2. \/ colors' = colors
      \/ \E s \in {"none", "unhealthy", "stopped"} : colors' = [colors EXCEPT ![c] = s]
  BY DEF ComposeUpFails, ComposeDown, ComposeDownFails, dockerVars
<1>3. rev' = rev \/ \E q \in {r, NoRev} : rev' = [rev EXCEPT ![c] = q]
  BY DEF ComposeUpFails, ComposeDown, ComposeDownFails, dockerVars
<1>4. colors' \in [Colors -> RunningStates \cup {"none", "stopped"}]
  BY <1>1, <1>2 DEF RunningStates
<1>5. rev' \in [Colors -> Revs \cup {NoRev}]
  BY <1>1, <1>3
<1> QED
  BY <1>4, <1>5

\* The variables stay within their types (every step of Deploy and of docker).
THEOREM TypeCorrect == DeploySpec => []DeployTypeOK
<1>1. DeployInit => DeployTypeOK
  BY DEF DeployInit, DeployTypeOK, Colors, RunningStates
<1>2. DeployTypeOK /\ [DeployNext]_deployVars => DeployTypeOK'
  <2> SUFFICES ASSUME DeployTypeOK, [DeployNext]_deployVars PROVE DeployTypeOK'
    OBVIOUS
  <2>12. CASE UNCHANGED deployVars
    BY <2>12 DEF deployVars, DeployTypeOK
  <2> USE DEF DeployTypeOK, Colors, RunningStates
  <2>1. ASSUME NEW r \in Revs, Begin(r) PROVE DeployTypeOK'
    BY <2>1 DEF Begin, ActiveBlueGreenState, oppositeColor, dockerVars, faultVars
  <2>2. CASE DetectFails
    BY <2>2 DEF DetectFails, dockerVars, callVars, faultVars
  <2>3. CASE DeployNewColor
    <3>1. colors' \in [Colors -> RunningStates \cup {"none", "stopped"}]
      BY <2>3 DEF DeployNewColor, ComposeUp
    <3> QED
      BY <2>3, <3>1 DEF DeployNewColor, ComposeUp, callVars, faultVars
  <2>4. CASE DeployNewColorFails
    <3>1. /\ colors' \in [Colors -> RunningStates \cup {"none", "stopped"}]
          /\ rev' \in [Colors -> Revs \cup {NoRev}]
      BY <2>4, ComposeTyped DEF DeployNewColorFails
    <3> QED
      BY <2>4, <3>1 DEF DeployNewColorFails, Return, callVars, faultVars
  <2>5. CASE waitForHealthy
    BY <2>5 DEF waitForHealthy, dockerVars, callVars, faultVars
  <2>6. CASE WaitFails
    BY <2>6 DEF WaitFails, dockerVars, callVars, faultVars
  <2>7. CASE TearDownNewColor
    <3>1. /\ colors' \in [Colors -> RunningStates \cup {"none", "stopped"}]
          /\ rev' \in [Colors -> Revs \cup {NoRev}]
      BY <2>7, ComposeTyped DEF TearDownNewColor
    <3> QED
      BY <2>7, <3>1 DEF TearDownNewColor, Return, callVars, faultVars
  <2>8. CASE StopOldColor
    <3>1. /\ colors' \in [Colors -> RunningStates \cup {"none", "stopped"}]
          /\ rev' \in [Colors -> Revs \cup {NoRev}]
      <4>1. CASE active = ""
        BY <2>8, <4>1 DEF StopOldColor, dockerVars
      <4>2. CASE active # ""
        BY <2>8, <4>2, ComposeTyped DEF StopOldColor
      <4> QED
        BY <4>1, <4>2
    <3> QED
      BY <2>8, <3>1 DEF StopOldColor, Return, callVars, faultVars
  <2>9. CASE Expire
    BY <2>9 DEF Expire, dockerVars, callVars, faultVars
  <2>10. ASSUME NEW c \in Colors, Settle(c) PROVE DeployTypeOK'
    <3>1. colors' \in [Colors -> RunningStates \cup {"none", "stopped"}]
      BY <2>10 DEF Settle
    <3>2. UNCHANGED <<rev, stage, active, newColor, want, ctxDone, result, current, faulty, harmed>>
      BY <2>10 DEF Settle, callVars, faultVars
    <3> QED
      BY <3>1, <3>2, ZenonT(30)
  <2>11. ASSUME NEW c \in Colors, ColorCrashes(c) PROVE DeployTypeOK'
    <3>1. colors' \in [Colors -> RunningStates \cup {"none", "stopped"}]
      <4>1. PICK s \in {"unhealthy", "stopped"} : colors' = [colors EXCEPT ![c] = s]
        BY <2>11 DEF ColorCrashes
      <4>2. s \in RunningStates \cup {"none", "stopped"}
        OBVIOUS
      <4> QED
        BY <4>1, <4>2
    <3> QED
      BY <2>11, <3>1 DEF ColorCrashes, callVars, faultVars
  <2> QED
    BY <2>1, <2>2, <2>3, <2>4, <2>5, <2>6, <2>7, <2>8, <2>9, <2>10, <2>11, <2>12 DEF DeployNext
<1> QED
  BY <1>1, <1>2, PTL DEF DeploySpec

-----------------------------------------------------------------------------
(* Under every fault. *)

\* What a running deployment knows: the new colour is the one opposite the
\* detected one, nothing ran if no colour was detected, and the new colour
\* carries the requested revision once up has succeeded.
GateInv ==
    /\ stage # "idle" => newColor = oppositeColor(active)
    /\ (stage # "idle" /\ active = "") => ~Running("green")
    /\ stage \in {"wait", "cutover"} => rev[newColor] = want
    /\ (stage = "cutover" /\ ~faulty) => Healthy(newColor)
    /\ CleanSuccess

\* Every step of Deploy and of docker preserves GateInv.
LEMMA GateStep == DeployTypeOK /\ GateInv /\ [DeployNext]_deployVars => GateInv'
<1> SUFFICES ASSUME DeployTypeOK, GateInv, [DeployNext]_deployVars PROVE GateInv'
  OBVIOUS
<1> USE DEF GateInv, CleanSuccess, Running, Healthy, RunningStates, Colors, oppositeColor
<1>t. /\ colors \in [Colors -> RunningStates \cup {"none", "stopped"}]
      /\ rev \in [Colors -> Revs \cup {NoRev}]
      /\ newColor \in Colors
      /\ active \in Colors \cup {""}
  BY DEF DeployTypeOK
<1>1. ASSUME NEW r \in Revs, Begin(r) PROVE GateInv'
  BY <1>t, <1>1 DEF Begin, ActiveBlueGreenState, dockerVars
<1>2. CASE DetectFails
  BY <1>t, <1>2 DEF DetectFails, dockerVars, callVars, faultVars
<1>3. CASE DeployNewColor
  BY <1>t, <1>3 DEF DeployNewColor, ComposeUp, callVars, faultVars
<1>4. CASE DeployNewColorFails
  BY <1>t, <1>4 DEF DeployNewColorFails, Return, callVars, faultVars
<1>5. CASE waitForHealthy
  BY <1>t, <1>5 DEF waitForHealthy, dockerVars, callVars, faultVars
<1>6. CASE WaitFails
  BY <1>t, <1>6 DEF WaitFails, dockerVars, callVars, faultVars
<1>7. CASE TearDownNewColor
  BY <1>t, <1>7 DEF TearDownNewColor, Return, callVars, faultVars
<1>8. CASE StopOldColor
  BY <1>t, <1>8 DEF StopOldColor, ComposeDown, Return, dockerVars, callVars, faultVars
<1>9. CASE Expire
  BY <1>t, <1>9 DEF Expire, dockerVars, callVars, faultVars
<1>10. ASSUME NEW c \in Colors, Settle(c) PROVE GateInv'
  BY <1>t, <1>10 DEF Settle, callVars, faultVars
<1>11. ASSUME NEW c \in Colors, ColorCrashes(c) PROVE GateInv'
  BY <1>t, <1>11 DEF ColorCrashes, callVars, faultVars
<1>12. CASE UNCHANGED deployVars
  BY <1>12 DEF deployVars
<1> QED
  BY <1>1, <1>2, <1>3, <1>4, <1>5, <1>6, <1>7, <1>8, <1>9, <1>10, <1>11, <1>12 DEF DeployNext

\* GateInv holds of every reachable state.
LEMMA GateInvariant == DeploySpec => []GateInv
<1>1. DeployInit => GateInv
  BY DEF DeployInit, GateInv, CleanSuccess
<1> QED
  BY <1>1, GateStep, TypeCorrect, PTL DEF DeploySpec

\* A fault-free deployment that returns nil leaves exactly its colour running,
\* healthy and at the requested revision, whatever faults came before it.
THEOREM SuccessLeavesOneColor == DeploySpec => []CleanSuccess
<1>1. GateInv => CleanSuccess
  BY DEF GateInv
<1> QED
  BY <1>1, GateInvariant, PTL

\* Deploy stops a healthy colour other than the new one only once the new one
\* is healthy at the requested revision.
THEOREM CutoverIsHealthGated == DeploySpec => HealthGated
<1> DEFINE Gate == \A c \in Colors :
         (Healthy(c) /\ ~Healthy(c)' /\ c # newColor /\ ~faulty')
           => Healthy(newColor) /\ rev[newColor] = want
<1>1. DeployTypeOK /\ GateInv /\ [DeployNext]_deployVars => [Gate]_deployVars
  <2> SUFFICES ASSUME DeployTypeOK, GateInv, DeployNext,
                      NEW c \in Colors,
                      Healthy(c), ~Healthy(c)', c # newColor, ~faulty'
               PROVE  Healthy(newColor) /\ rev[newColor] = want
    OBVIOUS
  <2> USE DEF Healthy
  <2>t. /\ colors \in [Colors -> RunningStates \cup {"none", "stopped"}]
        /\ newColor \in Colors
    BY DEF DeployTypeOK
  <2>1. StopOldColor
    <3>1. \A r \in Revs : ~Begin(r)
      BY DEF Begin, dockerVars
    <3>2. ~DetectFails
      BY DEF DetectFails
    <3>3. ~DeployNewColor
      BY <2>t DEF DeployNewColor, ComposeUp
    <3>4. ~DeployNewColorFails
      BY DEF DeployNewColorFails
    <3>5. ~waitForHealthy /\ ~WaitFails /\ ~Expire
      BY DEF waitForHealthy, WaitFails, Expire, dockerVars
    <3>6. ~TearDownNewColor
      BY <2>t DEF TearDownNewColor, ComposeDown
    <3>7. \A k \in Colors : ~Settle(k) /\ ~ColorCrashes(k)
      BY <2>t DEF Settle, ColorCrashes
    <3> QED
      BY <3>1, <3>2, <3>3, <3>4, <3>5, <3>6, <3>7 DEF DeployNext
  <2>2. stage = "cutover"
    BY <2>1 DEF StopOldColor
  <2>3. faulty' = faulty \/ faulty' = TRUE
    BY <2>1, Zenon DEF StopOldColor, faultVars
  <2>4. ~faulty
    BY <2>3, Zenon
  <2> QED
    BY <2>2, <2>4 DEF GateInv
<1> QED
  BY <1>1, TypeCorrect, GateInvariant, PTL DEF DeploySpec, HealthGated

-----------------------------------------------------------------------------
(* Until a fault occurs. *)

\* A fault that has hit is never forgotten.
LEMMA HarmStays == [DeployNext]_deployVars /\ ~harmed' => ~harmed
<1> SUFFICES ASSUME [DeployNext]_deployVars, ~harmed' PROVE ~harmed
  OBVIOUS
<1>1. harmed' = harmed \/ harmed' = TRUE
  BY Zenon DEF DeployNext, Begin, DetectFails, DeployNewColor, DeployNewColorFails, waitForHealthy,
     WaitFails, TearDownNewColor, StopOldColor, Expire, Settle, ColorCrashes, deployVars, faultVars
<1> QED
  BY <1>1, Zenon

\* The detected colour serves the current revision, and the new colour holds
\* nothing, or the requested revision, according to where Deploy is.
Rolling ==
    /\ ~ctxDone
    /\ stage = "idle" =>
         \/ current = NoRev /\ \A c \in Colors : colors[c] = "none"
         \/ \E c \in Colors :
              /\ current # NoRev
              /\ Healthy(c) /\ rev[c] = current
              /\ colors[oppositeColor(c)] = "none"
    /\ stage # "idle" =>
         /\ want \in Revs
         /\ newColor = oppositeColor(active)
         /\ active = "" => current = NoRev /\ colors["green"] = "none"
         /\ active # "" => current # NoRev /\ Healthy(active) /\ rev[active] = current
         /\ stage = "deploy" => colors[newColor] = "none"
         /\ stage # "deploy" => rev[newColor] = want
         /\ stage = "cutover" => Healthy(newColor)

RolloutInv == ~harmed => Rolling

\* Every step that is not hit by a fault preserves Rolling.
LEMMA RolloutStep == DeployTypeOK /\ Rolling /\ [DeployNext]_deployVars /\ ~harmed' => Rolling'
<1> SUFFICES ASSUME DeployTypeOK, Rolling, [DeployNext]_deployVars, ~harmed' PROVE Rolling'
  OBVIOUS
<1> USE BlueGreenAssumption DEF Rolling, Healthy, Colors, oppositeColor
<1>t. /\ colors \in [Colors -> RunningStates \cup {"none", "stopped"}]
      /\ rev \in [Colors -> Revs \cup {NoRev}]
      /\ newColor \in Colors
      /\ active \in Colors \cup {""}
  BY DEF DeployTypeOK
<1>1. ASSUME NEW r \in Revs, Begin(r) PROVE Rolling'
  BY <1>t, <1>1 DEF Begin, ActiveBlueGreenState, Running, RunningStates, dockerVars
<1>2. CASE DetectFails
  BY <1>2 DEF DetectFails
<1>3. CASE DeployNewColor
  BY <1>t, <1>3 DEF DeployNewColor, ComposeUp, callVars, faultVars
<1>4. CASE DeployNewColorFails
  BY <1>4 DEF DeployNewColorFails
<1>5. CASE waitForHealthy
  BY <1>t, <1>5 DEF waitForHealthy, dockerVars, callVars, faultVars
<1>6. CASE WaitFails
  BY <1>t, <1>6 DEF WaitFails, dockerVars, callVars, faultVars
<1>7. CASE TearDownNewColor
  <2>1. /\ colors' = [colors EXCEPT ![newColor] = "none"]
        /\ rev' = [rev EXCEPT ![newColor] = NoRev]
    BY <1>7 DEF TearDownNewColor, ComposeDown
  <2>2. stage = "cleanup" /\ stage' = "idle" /\ UNCHANGED <<current, ctxDone, active, newColor>>
    BY <1>7 DEF TearDownNewColor, Return, callVars, faultVars
  <2>3. CASE active = ""
    BY <1>t, <2>1, <2>2, <2>3
  <2>4. CASE active # ""
    <3>1. /\ colors'[active] = "healthy" /\ rev'[active] = current
          /\ colors'[oppositeColor(active)] = "none"
      BY <1>t, <2>1, <2>2, <2>4
    <3> QED
      BY <1>t, <2>2, <2>4, <3>1
  <2> QED
    BY <2>3, <2>4
<1>8. CASE StopOldColor
  <2>1. /\ active = "" => colors' = colors /\ rev' = rev
        /\ active # "" => /\ colors' = [colors EXCEPT ![active] = "none"]
                          /\ rev' = [rev EXCEPT ![active] = NoRev]
    BY <1>8 DEF StopOldColor, ComposeDown, dockerVars
  <2>2. stage = "cutover" /\ stage' = "idle" /\ current' = want /\ ctxDone' = ctxDone
    BY <1>8 DEF StopOldColor, Return
  <2>3. current' # NoRev /\ rev'[newColor] = current' /\ colors'[newColor] = "healthy"
        /\ colors'[oppositeColor(newColor)] = "none"
    BY <1>t, <2>1, <2>2
  <2> QED
    BY <1>t, <2>2, <2>3
<1>9. CASE Expire
  BY <1>9 DEF Expire
<1>10. ASSUME NEW c \in Colors, Settle(c) PROVE Rolling'
  BY <1>t, <1>10 DEF Settle, callVars, faultVars
<1>11. ASSUME NEW c \in Colors, ColorCrashes(c) PROVE Rolling'
  BY <1>11 DEF ColorCrashes
<1>12. CASE UNCHANGED deployVars
  BY <1>12 DEF deployVars
<1> QED
  BY <1>1, <1>2, <1>3, <1>4, <1>5, <1>6, <1>7, <1>8, <1>9, <1>10, <1>11, <1>12 DEF DeployNext

\* RolloutInv holds of every reachable state.
LEMMA RolloutInvariant == DeploySpec => []RolloutInv
<1>1. DeployInit => RolloutInv
  BY DEF DeployInit, RolloutInv, Rolling
<1>2. DeployTypeOK /\ RolloutInv /\ [DeployNext]_deployVars => RolloutInv'
  BY RolloutStep, HarmStays DEF RolloutInv
<1> QED
  BY <1>1, <1>2, TypeCorrect, PTL DEF DeploySpec

\* Until a fault occurs, some colour is healthy at every moment after the first
\* successful deployment.
THEOREM NoDowntime == DeploySpec => []ZeroDowntime
<1>1. DeployTypeOK /\ RolloutInv => ZeroDowntime
  BY DEF DeployTypeOK, RolloutInv, Rolling, ZeroDowntime
<1> QED
  BY <1>1, TypeCorrect, RolloutInvariant, PTL

\* The revisions that answer, colour by colour.
LEMMA ServingByColor ==
    Serving = (IF Healthy("blue") THEN {rev["blue"]} ELSE {})
              \cup (IF Healthy("green") THEN {rev["green"]} ELSE {})
BY DEF Serving, Colors

\* Until a fault occurs, Deploy is a zero-downtime, all-or-nothing rollout.
THEOREM ImplementsAtomicRollout == DeploySpec => ZeroDowntimeRollout
<1> DEFINE target == IF stage = "idle" THEN NoRev ELSE want
<1> USE BlueGreenAssumption
<1>1. DeployInit => Rollout!Init
  BY ServingByColor DEF DeployInit, Rollout!Init, Healthy, Colors
<1>2. DeployTypeOK /\ RolloutInv /\ [DeployNext]_deployVars => [harmed' \/ Rollout!Next]_(Rollout!vars)
  <2> SUFFICES ASSUME DeployTypeOK, Rolling, [DeployNext]_deployVars, ~harmed'
               PROVE  Rollout!Next \/ UNCHANGED <<current, target, Serving>>
    BY HarmStays DEF Rollout!vars, RolloutInv
  <2> DEFINE S(l, v) == (IF l["blue"] = "healthy" THEN {v["blue"]} ELSE {})
                        \cup (IF l["green"] = "healthy" THEN {v["green"]} ELSE {})
  <2>s. Serving = S(colors, rev) /\ Serving' = S(colors', rev')
    BY ServingByColor DEF Healthy, Serving, Colors
  <2> USE DEF Rolling, Healthy, Colors, oppositeColor
  <2>t. /\ colors \in [Colors -> RunningStates \cup {"none", "stopped"}]
        /\ rev \in [Colors -> Revs \cup {NoRev}]
        /\ newColor \in Colors
        /\ active \in Colors \cup {""}
    BY DEF DeployTypeOK
  <2>1. ASSUME NEW r \in Revs, Begin(r) PROVE Rollout!Start(r)
    BY <2>1, <2>s DEF Begin, dockerVars, Rollout!Start
  <2>2. ~DetectFails /\ ~DeployNewColorFails /\ ~Expire /\ \A c \in Colors : ~ColorCrashes(c)
    BY DEF DetectFails, DeployNewColorFails, Expire, ColorCrashes
  <2>3. CASE DeployNewColor
    <3>1. S(colors', rev') = S(colors, rev)
      BY <2>t, <2>3 DEF DeployNewColor, ComposeUp
    <3> QED
      BY <2>3, <2>s, <3>1 DEF DeployNewColor, callVars, faultVars
  <2>5. CASE waitForHealthy \/ WaitFails
    <3>1. colors' = colors /\ rev' = rev
      BY <2>5 DEF waitForHealthy, WaitFails, dockerVars
    <3> QED
      BY <2>5, <2>s, <3>1 DEF waitForHealthy, WaitFails, callVars, faultVars
  <2>7. CASE TearDownNewColor
    <3>0. /\ colors' = [colors EXCEPT ![newColor] = "none"]
          /\ rev' = [rev EXCEPT ![newColor] = NoRev]
          /\ stage # "idle"
      BY <2>7 DEF TearDownNewColor, ComposeDown
    <3>1. S(colors', rev') = {current} \ {NoRev}
      <4>1. CASE active = ""
        BY <2>t, <3>0, <4>1
      <4>2. CASE active = "blue"
        BY <2>t, <3>0, <4>2
      <4>3. CASE active = "green"
        BY <2>t, <3>0, <4>3
      <4> QED
        BY <2>t, <4>1, <4>2, <4>3
    <3> QED
      BY <2>7, <2>s, <3>1 DEF TearDownNewColor, Return, Rollout!Fail, Rollout!Only, Rollout!Next
  <2>8. CASE StopOldColor
    <3>1. /\ active = "" => colors' = colors /\ rev' = rev
          /\ active # "" => /\ colors' = [colors EXCEPT ![active] = "none"]
                            /\ rev' = [rev EXCEPT ![active] = NoRev]
      BY <2>8 DEF StopOldColor, ComposeDown, dockerVars
    <3>2. stage = "cutover"
      BY <2>8 DEF StopOldColor
    <3>3. S(colors', rev') = {want}
      BY <2>t, <3>1, <3>2
    <3>4. want \in S(colors, rev)
      BY <2>t, <3>2
    <3> QED
      BY <2>8, <2>s, <3>2, <3>3, <3>4 DEF StopOldColor, Return, Rollout!Succeed, Rollout!Next
  <2>10. ASSUME NEW c \in Colors, Settle(c)
         PROVE  Rollout!Next \/ UNCHANGED <<current, target, Serving>>
    <3>1. /\ colors' = [colors EXCEPT ![c] = IF rev[c] \in Bad THEN "unhealthy" ELSE "healthy"]
          /\ colors[c] = "starting"
          /\ rev' = rev /\ stage' = stage /\ want' = want /\ current' = current
      BY <2>10 DEF Settle, callVars, faultVars
    <3>2. stage # "idle" /\ c = newColor /\ rev[c] = want
      BY <2>t, <3>1
    <3>3. CASE rev[c] \in Bad
      <4>1. S(colors', rev') = S(colors, rev)
        BY <2>t, <3>1, <3>3
      <4> QED
        BY <2>s, <3>1, <4>1
    <3>4. CASE rev[c] \notin Bad
      <4>1. S(colors', rev') = ({current} \ {NoRev}) \cup {want}
        BY <2>t, <3>1, <3>2, <3>4
      <4> QED
        BY <2>s, <3>1, <3>2, <4>1 DEF Rollout!TargetComesUp, Rollout!Only, Rollout!Next
    <3> QED
      BY <3>3, <3>4
  <2>12. CASE UNCHANGED deployVars
    BY <2>12 DEF deployVars, Serving
  <2> QED
    BY <2>1, <2>2, <2>3, <2>5, <2>7, <2>8, <2>10, <2>12 DEF DeployNext, Rollout!Next
<1> QED
  BY <1>1, <1>2, TypeCorrect, RolloutInvariant, PTL
  DEF DeploySpec, ZeroDowntimeRollout, Rollout!Spec
=============================================================================
