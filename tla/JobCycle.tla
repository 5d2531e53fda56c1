------------------------------ MODULE JobCycle -------------------------------
(***************************************************************************)
(* What the reconciler's queue and workers promise for each application    *)
(* they poll: its job goes through one cycle, and is never in two places.  *)
(* An idle job is offered to the queue, alone or with others, and comes    *)
(* back when the queue is full; a worker takes it, runs it and puts it to  *)
(* rest.  A worker that finds the application busy skips the job, and a    *)
(* job that was skipped stays so.                                          *)
(***************************************************************************)
CONSTANT Jobs

VARIABLE phase

Init == phase = [j \in Jobs |-> "idle"]

Move(j, from, to) == phase[j] = from /\ phase' = [phase EXCEPT ![j] = to]

Offer(S) ==
  /\ \A j \in S : phase[j] = "idle"
  /\ phase' = [j \in Jobs |-> IF j \in S THEN "waiting" ELSE phase[j]]

Refuse(j) == Move(j, "waiting", "idle")
Take(j) == Move(j, "waiting", "taken")
Skip(j) == Move(j, "taken", "skipped")
Run(j) == Move(j, "taken", "running")
Finish(j) == Move(j, "running", "ending")
Rest(j) == Move(j, "ending", "idle")

Next ==
  \/ \E S \in SUBSET Jobs : Offer(S)
  \/ \E j \in Jobs : Refuse(j) \/ Take(j) \/ Skip(j) \/ Run(j) \/ Finish(j) \/ Rest(j)

Spec == Init /\ [][Next]_phase
=============================================================================
