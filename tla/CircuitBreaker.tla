---------------------------- MODULE CircuitBreaker ----------------------------
(***************************************************************************)
(* The circuit breaker of one application (internal/reconciler/worker.go)  *)
(* together with the calls reconcileApp makes on it.  Reconciliations of   *)
(* the application come one after the other; each asks Allow first and its *)
(* outcome decides what is recorded.  The time since the last failure is   *)
(* abstracted to whether it has reached resetTimeout.                      *)
(***************************************************************************)
EXTENDS Integers

CONSTANTS
  MaxFailures,  \* maxFailures, 3 in getBreaker
  MaxCount      \* bound: failures after which further ones are left out

ASSUME BreakerAssumption ==
  /\ MaxFailures \in Nat \ {0}
  /\ MaxCount \in Nat

VARIABLES
  state,         \* "closed", "open" or "half-open"
  failureCount,
  cooled,        \* time.Since(lastFailure) >= resetTimeout
  attempt,       \* "none", or "running" between Allow and the recorded outcome
  streak,        \* history: failed reconciliations since the last one that did not fail
  reset          \* history: RecordSuccess was called during one of them

vars == <<state, failureCount, cooled, attempt, streak, reset>>

TypeOK ==
  /\ state \in {"closed", "open", "half-open"}
  /\ failureCount \in Nat
  /\ cooled \in BOOLEAN
  /\ attempt \in {"none", "running"}
  /\ streak \in Nat
  /\ reset \in BOOLEAN

\* NewCircuitBreaker; lastFailure is the zero time.
Init ==
  /\ state = "closed" /\ failureCount = 0 /\ cooled = TRUE
  /\ attempt = "none" /\ streak = 0 /\ reset = FALSE

ResetTimeoutPasses ==
  /\ ~cooled
  /\ cooled' = TRUE
  /\ UNCHANGED <<state, failureCount, attempt, streak, reset>>

\* Mutants: Allow without the resetTimeout check; Allow that never half-opens.
AllowAtOnce ==
  /\ attempt = "none"
  /\ state' = IF state = "open" THEN "half-open" ELSE state
  /\ attempt' = "running"
  /\ UNCHANGED <<failureCount, cooled, streak, reset>>
AllowNever ==
  /\ attempt = "none"
  /\ state # "open"
  /\ attempt' = "running"
  /\ UNCHANGED <<state, failureCount, cooled, streak, reset>>

\* Allow, for a reconciliation that then runs.
AllowAttempt ==
  /\ attempt = "none"
  /\ \/ state # "open" /\ state' = state
     \/ state = "open" /\ cooled /\ state' = "half-open"
  /\ attempt' = "running"
  /\ UNCHANGED <<failureCount, cooled, streak, reset>>

RecordSuccess ==
  /\ failureCount' = 0
  /\ state' = "closed"
  /\ UNCHANGED cooled

\* RecordFailure called when the breaker is in state s with n failures counted.
RecordFailure(s, n) ==
  /\ failureCount' = n + 1
  /\ cooled' = FALSE
  /\ state' = IF s = "half-open" \/ n + 1 >= MaxFailures THEN "open" ELSE s

\* computeDiff fails, or a hook, pull, deploy or health gate does.
AttemptFails ==
  /\ attempt = "running"
  /\ failureCount < MaxCount /\ streak < MaxCount
  /\ RecordFailure(state, failureCount)
  /\ attempt' = "none"
  /\ streak' = streak + 1
  /\ UNCHANGED reset

\* The live state matches, or the deployment succeeds.
AttemptSucceeds ==
  /\ attempt = "running"
  /\ RecordSuccess
  /\ attempt' = "none"
  /\ streak' = 0
  /\ reset' = FALSE

\* The revision is unchanged, or the application has drifted but is managed
\* manually: the breaker is not told.
AttemptSkips ==
  /\ attempt = "running"
  /\ attempt' = "none"
  /\ streak' = 0
  /\ reset' = FALSE
  /\ UNCHANGED <<state, failureCount, cooled>>

\* A blue-green deployment is recorded as a success before the active color is
\* inspected, and as a failure when that inspection fails or finds it unhealthy.
BlueGreenFails ==
  /\ attempt = "running"
  /\ streak < MaxCount
  /\ RecordFailure("closed", 0)
  /\ attempt' = "none"
  /\ streak' = streak + 1
  /\ reset' = TRUE

Next ==
  \/ ResetTimeoutPasses \/ AllowAttempt
  \/ AttemptFails \/ AttemptSucceeds \/ AttemptSkips \/ BlueGreenFails

\* Time passes and the scheduler polls the application again and again.
Fairness == WF_vars(ResetTimeoutPasses) /\ WF_vars(AllowAttempt)

Spec == Init /\ [][Next]_vars
FairSpec == Spec /\ Fairness

-----------------------------------------------------------------------------

\* The breaker is closed exactly while fewer than maxFailures failures are
\* counted: it never stays closed at the limit and never closes with a count
\* that the next failure would mistake for a streak.
ClosedBelowLimit == state = "closed" <=> failureCount < MaxFailures

\* After maxFailures failed reconciliations in a row, none is admitted before
\* resetTimeout has passed since the last failure, provided none of them called
\* RecordSuccess on its way to failing.
NoRunaway ==
  [][attempt = "none" /\ attempt' = "running" /\ streak >= MaxFailures /\ ~reset
       => cooled]_vars

\* "After 3 consecutive sync failures for an application, the circuit opens.
\* While open, reconciliation is skipped" (docs/design.md 11.3), however the
\* reconciliations failed.
OpensAfterFailures ==
  [][attempt = "none" /\ attempt' = "running" /\ streak >= MaxFailures => cooled]_vars

\* An open breaker admits a reconciliation again.
OpenIsLeft == state = "open" ~> state = "half-open"

\* Only consecutive failures open the breaker, as its comment says.
OpensOnConsecutiveFailures ==
  [][state = "closed" /\ state' = "open" => streak' >= MaxFailures]_vars

\* The breaker admits one reconciliation while it is half-open, as its comment
\* says: when that one is over, the breaker has left the half-open state.
HalfOpenAllowsOne ==
  [][attempt = "running" /\ attempt' = "none" => state' # "half-open"]_vars
===============================================================================
