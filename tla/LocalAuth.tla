------------------------------ MODULE LocalAuth ------------------------------
(***************************************************************************)
(* Local login of the web console (web/internal/localauth): the signed     *)
(* login challenge, the rate limit of a bucket of subjects, the single     *)
(* password check, and the sessions.  A request reads the clock before it  *)
(* takes the mutex, so it may act on a time that has passed.               *)
(*                                                                         *)
(* Time is counted in ticks from 1; 0 is the zero time.  Credentials are   *)
(* right or wrong; a subject is known by the bucket it hashes to.          *)
(***************************************************************************)
EXTENDS FiniteSets, Naturals

CONSTANTS
  LoginRequests,              \* login requests that may be in progress at once
  Buckets,
  MaxSessions,
  LockoutAfterFailures,
  LockoutDuration, SessionTTL, LoginFlowTTL,
  MaxClock               \* bound: how far time is followed

ASSUME AuthAssumption ==
  /\ Buckets # {}
  /\ LockoutAfterFailures \in Nat \ {0} /\ MaxSessions \in Nat
  /\ LockoutDuration \in Nat \ {0} /\ SessionTTL \in Nat \ {0} /\ LoginFlowTTL \in Nat \ {0}
  /\ MaxClock \in Nat

VARIABLES
  clock,
  challenge,    \* when the login challenge issued last expires
  buckets,      \* rateBuckets
  slot,         \* passwordChecks: the requests that hold it
  login,        \* each request: where it is, its bucket, its credentials, the time it read
  sessions      \* expiry times by session, 0 for none

authVars == <<clock, challenge, buckets, slot, login, sessions>>

Times == 0 .. MaxClock + LockoutDuration + SessionTTL + LoginFlowTTL
Slots == 1 .. MaxSessions
EmptyBucket == [failures |-> 0, inFlight |-> 0, until |-> 0, updated |-> 0]
NoLogin(b) == [pc |-> "idle", bucket |-> b, right |-> FALSE, at |-> 0, done |-> 0]

AuthTypeOK ==
  /\ clock \in 1 .. MaxClock + 1
  /\ challenge \in Times
  /\ buckets \in [Buckets -> [failures : Nat, inFlight : Nat, until : Times, updated : Times]]
  /\ slot \subseteq LoginRequests
  /\ login \in [LoginRequests -> [pc : {"idle", "admit", "acquire", "cancel", "verify", "finish",
                                   "session"},
                             bucket : Buckets, right : BOOLEAN, at : Times, done : Times]]
  /\ sessions \in [Slots -> Times]

AuthInit ==
  /\ clock = 1 /\ challenge = 0
  /\ buckets = [b \in Buckets |-> EmptyBucket]
  /\ slot = {}
  /\ login = [r \in LoginRequests |-> NoLogin(CHOOSE b \in Buckets : TRUE)]
  /\ sessions = [s \in Slots |-> 0]

-----------------------------------------------------------------------------

Tick ==
  /\ clock <= MaxClock
  /\ clock' = clock + 1
  /\ UNCHANGED <<challenge, buckets, slot, login, sessions>>

\* BeginLogin: a challenge is a signed expiry time; nothing is stored.
BeginLogin ==
  /\ challenge' = clock + LoginFlowTTL
  /\ UNCHANGED <<clock, buckets, slot, login, sessions>>

\* Login with a challenge that verifies and the clock's reading.
Login(r, b, right) ==
  /\ login[r].pc = "idle"
  /\ clock < challenge
  /\ login' = [login EXCEPT ![r] = [pc |-> "admit", bucket |-> b, right |-> right,
                                    at |-> clock, done |-> 0]]
  /\ UNCHANGED <<clock, challenge, buckets, slot, sessions>>

Goes(r, pc) == login' = [login EXCEPT ![r].pc = pc]
Ends(r) == login' = [login EXCEPT ![r] = NoLogin(login[r].bucket)]

\* cleanupLocked: a bucket is forgotten after its lockout, or after a time without
\* attempts; not while an attempt is in flight.
CleanBucket(k, now) ==
  IF /\ k.inFlight = 0
     /\ ~(k.until # 0 /\ now < k.until)
     /\ k.until # 0 \/ now > k.updated + LockoutDuration
    THEN EmptyBucket ELSE k
CleanBuckets(now) == [b \in Buckets |-> CleanBucket(buckets[b], now)]
CleanSessions(now) == [s \in Slots |-> IF now < sessions[s] THEN sessions[s] ELSE 0]

\* Mutant: attempts in progress do not count towards the limit.
MayAttemptIgnoringInFlight(k, now) == now >= k.until /\ k.failures < LockoutAfterFailures

MayAttempt(k, now) == now >= k.until /\ k.failures + k.inFlight < LockoutAfterFailures

\* admitAttempt.
AdmitAttempt(r) ==
  /\ login[r].pc = "admit"
  /\ LET b == login[r].bucket
         now == login[r].at
         cleaned == CleanBuckets(now)
         k == cleaned[b] IN
     IF MayAttempt(k, now)
     THEN /\ buckets' = [cleaned EXCEPT ![b].inFlight = @ + 1, ![b].updated = now]
          /\ Goes(r, "acquire")
     ELSE buckets' = cleaned /\ Ends(r)
  /\ sessions' = CleanSessions(login[r].at)
  /\ UNCHANGED <<clock, challenge, slot>>

\* acquirePasswordCheck does not wait.
AcquirePasswordCheck(r) ==
  /\ login[r].pc = "acquire"
  /\ IF slot = {} THEN slot' = {r} /\ Goes(r, "verify") ELSE slot' = slot /\ Goes(r, "cancel")
  /\ UNCHANGED <<clock, challenge, buckets, sessions>>

\* Mutant: a request that is turned away stays counted.
CancelForgets(r) ==
  /\ login[r].pc = "cancel"
  /\ Ends(r)
  /\ UNCHANGED <<clock, challenge, buckets, slot, sessions>>

\* cancelAttempt, with the time read at the start.
CancelAttempt(r) ==
  /\ login[r].pc = "cancel"
  /\ LET b == login[r].bucket IN
     buckets' = IF buckets[b].inFlight = 0 THEN buckets
                ELSE [buckets EXCEPT ![b].inFlight = @ - 1, ![b].updated = login[r].at]
  /\ Ends(r)
  /\ UNCHANGED <<clock, challenge, slot, sessions>>

\* The end of the Argon2id verification: the slot is released and the clock read again.
ReleasePasswordCheck(r) ==
  /\ login[r].pc = "verify"
  /\ slot' = slot \ {r}
  /\ login' = [login EXCEPT ![r].pc = "finish", ![r].done = clock]
  /\ UNCHANGED <<clock, challenge, buckets, sessions>>

\* finishAttempt.
FinishAttempt(r) ==
  /\ login[r].pc = "finish"
  /\ LET b == login[r].bucket
         k == buckets[b]
         failures == IF login[r].right THEN 0 ELSE k.failures + 1
         locked == failures >= LockoutAfterFailures IN
     buckets' = IF k.inFlight = 0 THEN buckets
                ELSE [buckets EXCEPT ![b] =
                        [failures |-> IF locked THEN 0 ELSE failures,
                         inFlight |-> k.inFlight - 1,
                         until |-> IF locked THEN login[r].done + LockoutDuration ELSE k.until,
                         updated |-> login[r].done]]
  /\ IF login[r].right THEN Goes(r, "session") ELSE Ends(r)
  /\ UNCHANGED <<clock, challenge, slot, sessions>>

\* A session from the time read at the start, if there is room after the cleanup.
CreateSession(r) ==
  /\ login[r].pc = "session"
  /\ LET now == login[r].at
         kept == CleanSessions(now)
         free == {s \in Slots : kept[s] = 0} IN
     /\ buckets' = CleanBuckets(now)
     /\ IF free = {} THEN sessions' = kept
        ELSE \E s \in free : sessions' = [kept EXCEPT ![s] = now + SessionTTL]
  /\ Ends(r)
  /\ UNCHANGED <<clock, challenge, slot>>

\* randomToken fails: the attempt has been counted as successful, there is no session.
NoToken(r) ==
  /\ login[r].pc = "session"
  /\ Ends(r)
  /\ UNCHANGED <<clock, challenge, buckets, slot, sessions>>

\* Current and ResolvePresentationSession: a request with a session cookie.
Resolve ==
  /\ buckets' = CleanBuckets(clock)
  /\ sessions' = CleanSessions(clock)
  /\ UNCHANGED <<clock, challenge, slot, login>>

\* Logout with the session's own form token.
Logout(s) ==
  /\ CleanSessions(clock)[s] # 0
  /\ buckets' = CleanBuckets(clock)
  /\ sessions' = [CleanSessions(clock) EXCEPT ![s] = 0]
  /\ UNCHANGED <<clock, challenge, slot, login>>

-----------------------------------------------------------------------------

LoginStep(r) ==
  \/ AdmitAttempt(r) \/ AcquirePasswordCheck(r) \/ CancelAttempt(r)
  \/ ReleasePasswordCheck(r) \/ FinishAttempt(r) \/ CreateSession(r) \/ NoToken(r)

AuthNext ==
  \/ Tick \/ BeginLogin \/ Resolve
  \/ \E r \in LoginRequests : LoginStep(r) \/ \E b \in Buckets, right \in BOOLEAN : Login(r, b, right)
  \/ \E s \in Slots : Logout(s)

AuthSpec == AuthInit /\ [][AuthNext]_authVars

-----------------------------------------------------------------------------
(* Properties. *)

InFlight(b) == {r \in LoginRequests : /\ login[r].bucket = b
                                 /\ login[r].pc \in {"acquire", "cancel", "verify", "finish"}}

\* Every attempt in progress is counted once and none is counted that has ended, on every
\* path out of Login: a leak would lock the bucket for good.  Failures and attempts in
\* progress together stay within the limit, so that requests sent at the same time get no
\* more guesses than requests sent in turn (authenticator.go:382).
AttemptsAreCounted ==
  \A b \in Buckets :
    /\ buckets[b].inFlight = Cardinality(InFlight(b))
    /\ buckets[b].failures + buckets[b].inFlight <= LockoutAfterFailures
    /\ buckets[b].failures < LockoutAfterFailures

\* No password is checked for a bucket while it is locked, although requests are on their
\* way when the lockout begins and act on the time they read before: the failure that
\* locks a bucket is the last attempt in progress (authenticator.go:423).
NoCheckWhileLocked ==
  \A r \in LoginRequests : login[r].pc = "verify" => clock >= buckets[login[r].bucket].until

\* A lockout is not shortened before it has passed, neither by a cleanup on an old reading
\* of the clock nor by a later attempt (authenticator.go:456).
LockoutHolds ==
  [][\A b \in Buckets : clock < buckets[b].until => buckets'[b].until >= buckets[b].until]_authVars
=============================================================================
