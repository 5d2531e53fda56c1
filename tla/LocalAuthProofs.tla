--------------------------- MODULE LocalAuthProofs ---------------------------
(***************************************************************************)
(* Proofs about LocalAuth, for any number of requests, buckets and         *)
(* sessions and any limit: attempts in progress are counted exactly, no    *)
(* password is checked while its bucket is locked, and a lockout lasts.    *)
(***************************************************************************)
EXTENDS LocalAuth, FiniteSetTheorems, TLAPS

Busy == {"acquire", "cancel", "verify", "finish"}
Buckets4 == [failures : Nat, inFlight : Nat, until : Nat, updated : Nat]
Logins == [pc : {"idle", "admit", "session"} \cup Busy, bucket : Buckets, right : BOOLEAN,
           at : Nat, done : Nat]

\* The part of the types the argument rests on.
Shape ==
  /\ clock \in Nat
  /\ buckets \in [Buckets -> Buckets4]
  /\ login \in [LoginRequests -> Logins]

\* A request acts on a time that has been, never on one to come.
PastReadings == \A r \in LoginRequests : login[r].at <= clock /\ login[r].done <= clock

\* What is counted in a bucket is in progress, and both together stay within the limit.
Counted(b) ==
  /\ IsFiniteSet(InFlight(b))
  /\ buckets[b].inFlight = Cardinality(InFlight(b))
  /\ buckets[b].failures + buckets[b].inFlight <= LockoutAfterFailures
  /\ buckets[b].failures < LockoutAfterFailures

\* A bucket that is locked has no attempt in progress: the attempt that locks it is the
\* last one, and a reading of the clock that admits another is not before its end.
Quiet(b) == clock < buckets[b].until => buckets[b].inFlight = 0

AuthInv ==
  /\ Shape /\ PastReadings
  /\ \A b \in Buckets : Counted(b) /\ Quiet(b)

-----------------------------------------------------------------------------
(* Lemmas about the operators. *)

\* A cleanup keeps a bucket or forgets one that has no attempt in progress and is not
\* locked at the time of the reading.
LEMMA Cleaned ==
  ASSUME NEW k \in Buckets4, NEW now \in Nat
  PROVE  /\ CleanBucket(k, now) \in Buckets4
         /\ \/ CleanBucket(k, now) = k
            \/ CleanBucket(k, now) = EmptyBucket /\ k.inFlight = 0 /\ now >= k.until
  BY DEF CleanBucket, EmptyBucket, Buckets4

\* A bucket with another count is a bucket.
LEMMA Recounted ==
  ASSUME NEW k \in Buckets4, NEW n \in Nat, NEW t \in Nat
  PROVE  [k EXCEPT !.inFlight = n, !.updated = t] \in Buckets4
  BY Zenon DEF Buckets4

\* The attempts of every bucket are the same when no request enters or leaves Busy.
LEMMA SameAttempts ==
  ASSUME \A r \in LoginRequests :
           \/ login'[r].pc \notin Busy /\ login[r].pc \notin Busy
           \/ login'[r].pc \in Busy /\ login[r].pc \in Busy /\ login'[r].bucket = login[r].bucket
  PROVE  \A b \in Buckets : InFlight(b)' = InFlight(b)
  BY DEF InFlight, Busy

\* An attempt that ends is taken off its own bucket and no other.
LEMMA AttemptEnds ==
  ASSUME NEW b \in Buckets, NEW r \in LoginRequests, login[r].bucket = b,
         login[r].pc \in Busy, login'[r].pc \notin Busy,
         \A q \in LoginRequests \ {r} : login'[q] = login[q]
  PROVE  /\ r \in InFlight(b) /\ InFlight(b)' = InFlight(b) \ {r}
         /\ \A d \in Buckets \ {b} : InFlight(d)' = InFlight(d)
<1>1. r \in InFlight(b) /\ \A d \in Buckets : r \notin InFlight(d)'
  BY DEF InFlight, Busy
<1>2. \A d \in Buckets, q \in LoginRequests \ {r} : q \in InFlight(d)' <=> q \in InFlight(d)
  BY DEF InFlight
<1>3. \A d \in Buckets \ {b} : r \notin InFlight(d)
  BY DEF InFlight
<1>4. \A d \in Buckets : InFlight(d) \subseteq LoginRequests /\ InFlight(d)' \subseteq LoginRequests
  BY DEF InFlight
<1>5. InFlight(b)' = InFlight(b) \ {r}
  BY <1>1, <1>2, <1>4
<1>6. ASSUME NEW d \in Buckets \ {b} PROVE InFlight(d)' = InFlight(d)
  BY <1>1, <1>2, <1>3, <1>4
<1> QED
  BY <1>1, <1>5, <1>6

\* An attempt that begins is added to its own bucket and no other.
LEMMA AttemptBegins ==
  ASSUME NEW b \in Buckets, NEW r \in LoginRequests, login'[r].bucket = b,
         login[r].pc \notin Busy, login'[r].pc \in Busy,
         \A q \in LoginRequests \ {r} : login'[q] = login[q]
  PROVE  /\ r \notin InFlight(b) /\ InFlight(b)' = InFlight(b) \cup {r}
         /\ \A d \in Buckets \ {b} : InFlight(d)' = InFlight(d)
<1>1. r \in InFlight(b)' /\ \A d \in Buckets : r \notin InFlight(d)
  BY DEF InFlight, Busy
<1>2. \A d \in Buckets, q \in LoginRequests \ {r} : q \in InFlight(d)' <=> q \in InFlight(d)
  BY DEF InFlight
<1>3. \A d \in Buckets \ {b} : r \notin InFlight(d)'
  BY DEF InFlight
<1>4. \A d \in Buckets : InFlight(d) \subseteq LoginRequests /\ InFlight(d)' \subseteq LoginRequests
  BY DEF InFlight
<1>5. InFlight(b)' = InFlight(b) \cup {r}
  BY <1>1, <1>2, <1>4
<1>6. ASSUME NEW d \in Buckets \ {b} PROVE InFlight(d)' = InFlight(d)
  <2>1. r \notin InFlight(d) /\ r \notin InFlight(d)'
    BY <1>1, <1>3
  <2>2. \A q \in LoginRequests \ {r} : q \in InFlight(d)' <=> q \in InFlight(d)
    BY <1>2
  <2>3. InFlight(d) \subseteq LoginRequests /\ InFlight(d)' \subseteq LoginRequests
    BY <1>4
  <2> QED
    BY <2>1, <2>2, <2>3
<1> QED
  BY <1>1, <1>5, <1>6

\* A set with an element does not have cardinality 0.
LEMMA InFlightCounts ==
  ASSUME NEW b \in Buckets, Counted(b), NEW r \in InFlight(b)
  PROVE  buckets[b].inFlight # 0
  BY FS_EmptySet DEF Counted

-----------------------------------------------------------------------------
(* The invariant. *)

\* No attempt is in progress at the start.
LEMMA AuthInvInit == AuthInit => AuthInv
<1> SUFFICES ASSUME AuthInit PROVE AuthInv
  OBVIOUS
<1>1. (CHOOSE b \in Buckets : TRUE) \in Buckets
  BY AuthAssumption
<1>2. Shape
  BY <1>1, AuthAssumption DEF AuthInit, Shape, Buckets4, Logins, EmptyBucket, NoLogin, Busy
<1>3. PastReadings
  BY DEF AuthInit, PastReadings, NoLogin
<1>4. \A b \in Buckets : InFlight(b) = {}
  BY DEF AuthInit, InFlight, NoLogin
<1>5. \A b \in Buckets : Counted(b) /\ Quiet(b)
  BY <1>4, FS_EmptySet, AuthAssumption, SMTT(60) DEF AuthInit, Counted, Quiet, EmptyBucket
<1> QED
  BY <1>2, <1>3, <1>5 DEF AuthInv

\* Steps that begin or end no attempt keep the counts, with or without a cleanup.
LEMMA NoAttempt ==
  ASSUME AuthInv, Shape', PastReadings', clock' >= clock,
         \A b \in Buckets : InFlight(b)' = InFlight(b),
         \A b \in Buckets : \/ buckets'[b] = buckets[b]
                            \/ buckets'[b] = EmptyBucket /\ buckets[b].inFlight = 0
  PROVE  AuthInv'
<1> SUFFICES ASSUME NEW b \in Buckets PROVE (Counted(b) /\ Quiet(b))'
  BY DEF AuthInv
<1>1. Counted(b) /\ Quiet(b) /\ Shape /\ InFlight(b)' = InFlight(b)
  BY DEF AuthInv
<1>2. CASE buckets'[b] = buckets[b]
  BY <1>1, <1>2 DEF Counted, Quiet, Shape, Buckets4
<1>3. CASE buckets'[b] = EmptyBucket /\ buckets[b].inFlight = 0
  BY <1>1, <1>3, AuthAssumption DEF Counted, Quiet, EmptyBucket, Shape
<1> QED
  BY <1>2, <1>3

\* What a cleanup does to the buckets, as the steps above need it.
LEMMA CleanupIsHarmless ==
  ASSUME Shape, NEW now \in Nat
  PROVE  /\ CleanBuckets(now) \in [Buckets -> Buckets4]
         /\ \A b \in Buckets :
              \/ CleanBuckets(now)[b] = buckets[b]
              \/ /\ CleanBuckets(now)[b] = EmptyBucket
                 /\ buckets[b].inFlight = 0 /\ now >= buckets[b].until
  BY Cleaned DEF CleanBuckets, Shape

\* A login that is done with has the type of a login and has read no time.
LEMMA Ended ==
  ASSUME Shape, NEW r \in LoginRequests, Ends(r)
  PROVE  /\ login' \in [LoginRequests -> Logins]
         /\ login'[r] = NoLogin(login[r].bucket)
         /\ login'[r].pc = "idle" /\ login'[r].at = 0 /\ login'[r].done = 0
         /\ \A q \in LoginRequests \ {r} : login'[q] = login[q]
  BY DEF Shape, Ends, NoLogin, Logins, Busy

\* A login that goes on changes only where it is.
LEMMA Gone ==
  ASSUME Shape, NEW r \in LoginRequests, NEW pc \in {"session"} \cup Busy, Goes(r, pc)
  PROVE  /\ login' \in [LoginRequests -> Logins]
         /\ login'[r].pc = pc /\ login'[r].bucket = login[r].bucket
         /\ login'[r].at = login[r].at /\ login'[r].done = login[r].done
         /\ \A q \in LoginRequests \ {r} : login'[q] = login[q]
  BY DEF Shape, Goes, Logins, Busy

\* admitAttempt counts the attempt it admits.
LEMMA AdmitKeeps ==
  ASSUME AuthInv, NEW r \in LoginRequests, AdmitAttempt(r)
  PROVE  AuthInv'
<1>1. PICK b \in Buckets, now \in Nat :
        login[r].bucket = b /\ login[r].at = now /\ now <= clock /\ clock \in Nat
  BY DEF AuthInv, Shape, Logins, PastReadings
<1> DEFINE cleaned == CleanBuckets(now)
<1>2. /\ cleaned \in [Buckets -> Buckets4]
      /\ \A d \in Buckets : \/ cleaned[d] = buckets[d]
                            \/ /\ cleaned[d] = EmptyBucket /\ buckets[d].inFlight = 0
                               /\ now >= buckets[d].until
  BY CleanupIsHarmless DEF AuthInv
<1>3. login[r].pc = "admit" /\ clock' = clock
  BY Zenon DEF AdmitAttempt
<1> HIDE DEF cleaned
<1>4. CASE buckets' = cleaned /\ Ends(r)
  <2>1. /\ login' \in [LoginRequests -> Logins] /\ login'[r] = NoLogin(b)
        /\ \A q \in LoginRequests \ {r} : login'[q] = login[q]
    BY <1>1, <1>4, Ended DEF AuthInv
  <2>2. Shape' /\ PastReadings'
    BY <1>1, <1>2, <1>3, <1>4, <2>1 DEF Shape, PastReadings, AuthInv, NoLogin
  <2>3. \A d \in Buckets : InFlight(d)' = InFlight(d)
    BY <1>3, <2>1, SameAttempts DEF NoLogin, Busy
  <2> QED
    BY <1>1, <1>2, <1>3, <1>4, <2>2, <2>3, NoAttempt
<1>5. CASE /\ MayAttempt(cleaned[b], now) /\ Goes(r, "acquire")
           /\ buckets' = [cleaned EXCEPT ![b].inFlight = @ + 1, ![b].updated = now]
  <2>1. /\ login' \in [LoginRequests -> Logins]
        /\ login'[r].pc = "acquire" /\ login'[r].bucket = b
        /\ login'[r].at = login[r].at /\ login'[r].done = login[r].done
        /\ \A q \in LoginRequests \ {r} : login'[q] = login[q]
    BY <1>1, <1>5, Gone DEF AuthInv, Busy
  <2>2. /\ buckets'[b].failures = cleaned[b].failures
        /\ buckets'[b].inFlight = cleaned[b].inFlight + 1
        /\ buckets'[b].until = cleaned[b].until
        /\ \A d \in Buckets \ {b} : buckets'[d] = cleaned[d]
    BY <1>2, <1>5 DEF Buckets4
  <2>3. buckets' \in [Buckets -> Buckets4]
    <3> DEFINE k == [cleaned[b] EXCEPT !.inFlight = cleaned[b].inFlight + 1, !.updated = now]
    <3>1. cleaned[b] \in Buckets4 /\ cleaned[b].inFlight + 1 \in Nat
      BY <1>2 DEF Buckets4
    <3>2. k \in Buckets4
      BY <3>1, Recounted, Zenon
    <3>3. buckets' = [cleaned EXCEPT ![b] = k]
      BY <1>5, Zenon
    <3> HIDE DEF k
    <3> QED
      BY <1>2, <3>2, <3>3
  <2>4. Shape' /\ PastReadings'
    BY <1>1, <1>3, <2>1, <2>3 DEF Shape, PastReadings, AuthInv
  <2>5. /\ r \notin InFlight(b) /\ InFlight(b)' = InFlight(b) \cup {r}
        /\ \A d \in Buckets \ {b} : InFlight(d)' = InFlight(d)
    BY <1>3, <2>1, AttemptBegins DEF Busy
  <2>6. (Counted(b) /\ Quiet(b))'
    <3>1. Counted(b) /\ cleaned[b].inFlight = buckets[b].inFlight /\ buckets[b].inFlight \in Nat
      BY <1>2 DEF AuthInv, EmptyBucket, Shape, Buckets4
    <3>2. IsFiniteSet(InFlight(b)') /\ Cardinality(InFlight(b)') = Cardinality(InFlight(b)) + 1
      BY <2>5, <3>1, FS_AddElement DEF Counted
    <3>3. /\ cleaned[b].failures \in Nat /\ cleaned[b].failures + cleaned[b].inFlight < LockoutAfterFailures
          /\ now >= cleaned[b].until /\ cleaned[b].until \in Nat
      BY <1>2, <1>5 DEF MayAttempt, Buckets4
    <3> QED
      BY <1>1, <1>3, <2>2, <3>1, <3>2, <3>3, AuthAssumption DEF Counted, Quiet
  <2>7. ASSUME NEW d \in Buckets \ {b} PROVE (Counted(d) /\ Quiet(d))'
    <3>1. Counted(d) /\ Quiet(d)
      BY DEF AuthInv
    <3> QED
      BY <1>2, <1>3, <2>2, <2>5, <3>1, AuthAssumption DEF Counted, Quiet, EmptyBucket
  <2> QED
    BY <2>4, <2>6, <2>7 DEF AuthInv
<1> QED
  BY <1>1, <1>4, <1>5 DEF AdmitAttempt, cleaned

\* What the end of an attempt has to do to its bucket: take one off the attempts in
\* progress, keep within the limit, and lock only when it was the last.
LEMMA EndingKeeps ==
  ASSUME AuthInv, NEW b \in Buckets, NEW r \in LoginRequests, login[r].bucket = b,
         login[r].pc \in Busy, login'[r].pc \notin Busy,
         \A q \in LoginRequests \ {r} : login'[q] = login[q],
         Shape', PastReadings', clock' = clock,
         \A d \in Buckets \ {b} : buckets'[d] = buckets[d],
         buckets'[b].inFlight = buckets[b].inFlight - 1,
         \/ buckets'[b].failures \in {0, buckets[b].failures} /\ buckets'[b].until = buckets[b].until
         \/ /\ buckets'[b].failures = buckets[b].failures + 1
            /\ buckets[b].failures + 1 < LockoutAfterFailures
            /\ buckets'[b].until = buckets[b].until
         \/ buckets'[b].failures = 0 /\ buckets[b].failures + 1 >= LockoutAfterFailures
  PROVE  AuthInv'
<1>1. /\ r \in InFlight(b) /\ InFlight(b)' = InFlight(b) \ {r}
      /\ \A d \in Buckets \ {b} : InFlight(d)' = InFlight(d)
  BY AttemptEnds
<1>2. Counted(b) /\ Quiet(b) /\ Shape
  BY DEF AuthInv
<1>3. buckets[b].inFlight # 0
  BY <1>1, <1>2, InFlightCounts
<1>4. buckets[b].inFlight \in Nat /\ buckets[b].failures \in Nat /\ buckets[b].until \in Nat /\ clock \in Nat
  BY <1>2 DEF Shape, Buckets4
<1>5. IsFiniteSet(InFlight(b)') /\ Cardinality(InFlight(b)') = Cardinality(InFlight(b)) - 1
  BY <1>1, <1>2, FS_RemoveElement DEF Counted
<1>6. Counted(b)'
  BY <1>2, <1>3, <1>4, <1>5, AuthAssumption DEF Counted
<1>7. Quiet(b)'
  BY <1>2, <1>3, <1>4, AuthAssumption DEF Counted, Quiet
<1>8. ASSUME NEW d \in Buckets \ {b} PROVE (Counted(d) /\ Quiet(d))'
  BY <1>1 DEF AuthInv, Counted, Quiet
<1> QED
  BY <1>6, <1>7, <1>8 DEF AuthInv

\* cancelAttempt takes the attempt off again.
LEMMA CancelKeeps ==
  ASSUME AuthInv, NEW r \in LoginRequests, CancelAttempt(r)
  PROVE  AuthInv'
<1>1. PICK b \in Buckets, now \in Nat :
        login[r].bucket = b /\ login[r].at = now /\ now <= clock /\ clock \in Nat
  BY DEF AuthInv, Shape, Logins, PastReadings
<1>2. login[r].pc = "cancel" /\ clock' = clock /\ Ends(r)
  BY DEF CancelAttempt
<1>3. /\ login' \in [LoginRequests -> Logins] /\ login'[r] = NoLogin(b)
      /\ \A q \in LoginRequests \ {r} : login'[q] = login[q]
  BY <1>1, <1>2, Ended DEF AuthInv
<1>4. r \in InFlight(b) /\ buckets[b] \in Buckets4 /\ Counted(b)
  BY <1>1, <1>2 DEF InFlight, AuthInv, Shape
<1>5. buckets[b].inFlight # 0 /\ buckets[b].inFlight - 1 \in Nat
  BY <1>4, InFlightCounts DEF Buckets4
<1> DEFINE k == [buckets[b] EXCEPT !.inFlight = buckets[b].inFlight - 1, !.updated = now]
<1>6. k \in Buckets4
  BY <1>4, <1>5, Recounted, Zenon
<1>7. buckets' = [buckets EXCEPT ![b] = k]
  BY <1>1, <1>5, Zenon DEF CancelAttempt
<1>8. k.inFlight = buckets[b].inFlight - 1 /\ k.failures = buckets[b].failures /\ k.until = buckets[b].until
  BY <1>4 DEF Buckets4
<1> HIDE DEF k
<1>9. buckets' \in [Buckets -> Buckets4] /\ buckets'[b] = k /\ \A d \in Buckets \ {b} : buckets'[d] = buckets[d]
  BY <1>6, <1>7 DEF AuthInv, Shape
<1>10. Shape' /\ PastReadings'
  BY <1>1, <1>2, <1>3, <1>9 DEF Shape, PastReadings, AuthInv, NoLogin
<1>11. login[r].pc \in Busy /\ login'[r].pc \notin Busy
  BY <1>2, <1>3 DEF Busy, NoLogin
<1> QED
  BY <1>1, <1>2, <1>3, <1>8, <1>9, <1>10, <1>11, EndingKeeps

\* finishAttempt counts the failure or forgets the failures, and locks at the limit.
LEMMA FinishKeeps ==
  ASSUME AuthInv, NEW r \in LoginRequests, FinishAttempt(r)
  PROVE  AuthInv'
<1>1. PICK b \in Buckets, end \in Nat :
        login[r].bucket = b /\ login[r].done = end /\ end <= clock /\ clock \in Nat
  BY DEF AuthInv, Shape, Logins, PastReadings
<1>2. login[r].pc = "finish" /\ clock' = clock /\ (Ends(r) \/ Goes(r, "session"))
  BY Zenon DEF FinishAttempt
<1>3. /\ login' \in [LoginRequests -> Logins]
      /\ login'[r].pc \in {"idle", "session"}
      /\ login'[r].at \in {0, login[r].at} /\ login'[r].done \in {0, login[r].done}
      /\ \A q \in LoginRequests \ {r} : login'[q] = login[q]
  <2>1. CASE Ends(r)
    BY <2>1, Ended DEF AuthInv
  <2>2. CASE Goes(r, "session")
    BY <2>2, Gone DEF AuthInv
  <2> QED
    BY <1>2, <2>1, <2>2
<1>4. r \in InFlight(b) /\ buckets[b] \in Buckets4 /\ Counted(b)
  BY <1>1, <1>2 DEF InFlight, AuthInv, Shape
<1>5. buckets[b].inFlight # 0 /\ buckets[b].inFlight - 1 \in Nat
  BY <1>4, InFlightCounts DEF Buckets4
<1> DEFINE failures == IF login[r].right THEN 0 ELSE buckets[b].failures + 1
           locked == failures >= LockoutAfterFailures
           k == [failures |-> IF locked THEN 0 ELSE failures,
                 inFlight |-> buckets[b].inFlight - 1,
                 until |-> IF locked THEN end + LockoutDuration ELSE buckets[b].until,
                 updated |-> end]
<1>6. k \in Buckets4
  BY <1>4, <1>5, AuthAssumption, SMTT(60) DEF Buckets4
<1>7. buckets' = [buckets EXCEPT ![b] = k]
  BY <1>1, <1>5 DEF FinishAttempt
<1>8. /\ k.inFlight = buckets[b].inFlight - 1
      /\ \/ k.failures \in {0, buckets[b].failures} /\ k.until = buckets[b].until
         \/ /\ k.failures = buckets[b].failures + 1 /\ k.until = buckets[b].until
            /\ buckets[b].failures + 1 < LockoutAfterFailures
         \/ k.failures = 0 /\ buckets[b].failures + 1 >= LockoutAfterFailures
  BY <1>4, AuthAssumption, SMTT(60) DEF Buckets4
<1> HIDE DEF k
<1>9. buckets' \in [Buckets -> Buckets4] /\ buckets'[b] = k /\ \A d \in Buckets \ {b} : buckets'[d] = buckets[d]
  BY <1>6, <1>7 DEF AuthInv, Shape
<1>10. Shape' /\ PastReadings'
  BY <1>1, <1>2, <1>3, <1>9 DEF Shape, PastReadings, AuthInv
<1>11. login[r].pc \in Busy /\ login'[r].pc \notin Busy
  BY <1>2, <1>3 DEF Busy
<1> QED
  BY <1>1, <1>2, <1>3, <1>8, <1>9, <1>10, <1>11, EndingKeeps

\* The other steps of a login begin or end no attempt.
LEMMA LoginKeeps ==
  ASSUME AuthInv, NEW r \in LoginRequests,
         \/ AcquirePasswordCheck(r) \/ ReleasePasswordCheck(r) \/ CreateSession(r) \/ NoToken(r)
         \/ \E b \in Buckets, right \in BOOLEAN : Login(r, b, right)
  PROVE  AuthInv'
<1>0. Shape /\ PastReadings /\ clock \in Nat /\ login[r] \in Logins /\ login[r].at \in Nat
  BY DEF AuthInv, Shape, Logins
<1> DEFINE Others == \A q \in LoginRequests \ {r} : login'[q] = login[q]
           Times2(k) == k.at \in {0, login[r].at, clock} /\ k.done \in {0, login[r].done, clock}
<1>1. /\ login' \in [LoginRequests -> Logins] /\ Others /\ Times2(login'[r])
      /\ \/ login[r].pc \notin Busy /\ login'[r].pc \notin Busy
         \/ login[r].pc \in Busy /\ login'[r].pc \in Busy /\ login'[r].bucket = login[r].bucket
  <2>1. CASE AcquirePasswordCheck(r)
    BY <1>0, <2>1, Gone, Zenon DEF AcquirePasswordCheck, Busy
  <2>2. CASE ReleasePasswordCheck(r)
    <3>1. login[r].pc = "verify" /\ login' = [login EXCEPT ![r] = [login[r] EXCEPT !.pc = "finish", !.done = clock]]
      BY <2>2, Zenon DEF ReleasePasswordCheck
    <3> DEFINE k == [login[r] EXCEPT !.pc = "finish", !.done = clock]
    <3>2. k \in Logins /\ k.pc = "finish" /\ k.bucket = login[r].bucket /\ k.at = login[r].at /\ k.done = clock
      BY <1>0, Zenon DEF Logins, Busy
    <3> HIDE DEF k
    <3>3. login' = [login EXCEPT ![r] = k]
      BY <3>1 DEF k
    <3> QED
      BY <1>0, <3>1, <3>2, <3>3 DEF Shape, Busy
  <2>3. CASE CreateSession(r) \/ NoToken(r)
    <3>1. login[r].pc = "session" /\ Ends(r)
      BY <2>3, Zenon DEF CreateSession, NoToken
    <3> QED
      BY <1>0, <3>1, Ended, Zenon DEF Busy
  <2>4. ASSUME NEW b \in Buckets, NEW right \in BOOLEAN, Login(r, b, right)
        PROVE  /\ login' \in [LoginRequests -> Logins] /\ Others /\ Times2(login'[r])
               /\ login[r].pc \notin Busy /\ login'[r].pc \notin Busy
    <3> DEFINE k == [pc |-> "admit", bucket |-> b, right |-> right, at |-> clock, done |-> 0]
    <3>1. k \in Logins /\ k.pc = "admit" /\ k.at = clock /\ k.done = 0
      BY <1>0 DEF Logins, Busy
    <3>2. login[r].pc = "idle" /\ login' = [login EXCEPT ![r] = k]
      BY <2>4 DEF Login
    <3> HIDE DEF k
    <3> QED
      BY <1>0, <3>1, <3>2 DEF Shape, Busy
  <2> QED
    BY <2>1, <2>2, <2>3, <2>4, Zenon
<1>2. /\ clock' = clock
      /\ buckets' = buckets \/ buckets' = CleanBuckets(login[r].at)
  BY DEF AcquirePasswordCheck, ReleasePasswordCheck, CreateSession, NoToken, Login
<1>3. /\ buckets' \in [Buckets -> Buckets4]
      /\ \A b \in Buckets : \/ buckets'[b] = buckets[b]
                            \/ buckets'[b] = EmptyBucket /\ buckets[b].inFlight = 0
  BY <1>0, <1>2, CleanupIsHarmless DEF Shape
<1>4. Shape' /\ PastReadings'
  BY <1>0, <1>1, <1>2, <1>3 DEF Shape, PastReadings
<1>5. \A b \in Buckets : InFlight(b)' = InFlight(b)
  BY <1>1, SameAttempts
<1>6. clock' >= clock
  BY <1>0, <1>2
<1> QED
  BY <1>3, <1>4, <1>5, <1>6, NoAttempt, Zenon

\* Every step keeps the invariant.
LEMMA AuthInvNext == AuthInv /\ [AuthNext]_authVars => AuthInv'
<1> SUFFICES ASSUME AuthInv, [AuthNext]_authVars PROVE AuthInv'
  OBVIOUS
<1>0. Shape /\ PastReadings /\ clock \in Nat
  BY DEF AuthInv, Shape
<1>1. ASSUME clock' \in Nat, clock' >= clock, login' = login,
             buckets' = buckets \/ buckets' = CleanBuckets(clock)
      PROVE  AuthInv'
  <2>1. /\ buckets' \in [Buckets -> Buckets4]
        /\ \A b \in Buckets : \/ buckets'[b] = buckets[b]
                              \/ buckets'[b] = EmptyBucket /\ buckets[b].inFlight = 0
    BY <1>0, <1>1, CleanupIsHarmless DEF Shape
  <2>2. Shape' /\ PastReadings'
    BY <1>0, <1>1, <2>1 DEF Shape, PastReadings, Logins
  <2>3. \A b \in Buckets : InFlight(b)' = InFlight(b)
    BY <1>1 DEF InFlight
  <2> QED
    BY <1>1, <2>1, <2>2, <2>3, NoAttempt
<1>2. CASE Tick
  BY <1>0, <1>1, <1>2 DEF Tick
<1>3. CASE BeginLogin \/ Resolve \/ (\E s \in Slots : Logout(s)) \/ UNCHANGED authVars
  BY <1>0, <1>1, <1>3 DEF BeginLogin, Resolve, Logout, authVars
<1> QED
  BY <1>2, <1>3, AdmitKeeps, CancelKeeps, FinishKeeps, LoginKeeps DEF AuthNext, LoginStep

-----------------------------------------------------------------------------
(* The theorems. *)

\* Attempts in progress are counted exactly on every path through Login, and with the
\* failures they never exceed the limit (authenticator.go:371-428).
THEOREM AttemptsCounted == AuthSpec => []AttemptsAreCounted
<1>1. AuthInv => AttemptsAreCounted
  BY DEF AuthInv, Counted, AttemptsAreCounted
<1> QED
  BY <1>1, AuthInvInit, AuthInvNext, PTL DEF AuthSpec

\* No password is checked while its bucket is locked, however late a request acts on the
\* time it read (authenticator.go:374, 423).
THEOREM LockedIsNotChecked == AuthSpec => []NoCheckWhileLocked
<1>1. AuthInv => NoCheckWhileLocked
  <2> SUFFICES ASSUME AuthInv, NEW r \in LoginRequests, login[r].pc = "verify"
               PROVE  clock >= buckets[login[r].bucket].until
    BY DEF NoCheckWhileLocked
  <2>1. PICK b \in Buckets : login[r].bucket = b
    BY DEF AuthInv, Shape, Logins
  <2>2. r \in InFlight(b) /\ Counted(b) /\ Quiet(b) /\ clock \in Nat /\ buckets[b].until \in Nat
    BY <2>1 DEF InFlight, AuthInv, Shape, Buckets4
  <2> QED
    BY <2>1, <2>2, InFlightCounts DEF Quiet
<1> QED
  BY <1>1, AuthInvInit, AuthInvNext, PTL DEF AuthSpec

\* No step shortens a lockout that has not passed (authenticator.go:407-421, 443-460).
THEOREM LockoutLasts == AuthSpec => LockoutHolds
<1>1. AuthInv /\ [AuthNext]_authVars
        => [\A b \in Buckets : clock < buckets[b].until => buckets'[b].until >= buckets[b].until]_authVars
  <2> SUFFICES ASSUME AuthInv, AuthNext, NEW b \in Buckets, clock < buckets[b].until
               PROVE  buckets'[b].until >= buckets[b].until
    OBVIOUS
  <2>1. /\ Shape /\ clock \in Nat /\ buckets[b].until \in Nat /\ Counted(b)
        /\ buckets[b].inFlight = 0
    BY DEF AuthInv, Shape, Buckets4, Quiet
  <2>2. ASSUME NEW now \in Nat, now <= clock PROVE CleanBuckets(now)[b] = buckets[b]
    BY <2>1, <2>2, CleanupIsHarmless
  <2>3. \A r \in LoginRequests : login[r].at \in Nat /\ login[r].at <= clock /\ login[r].bucket \in Buckets
    BY DEF AuthInv, Shape, PastReadings, Logins
  <2>4. \A r \in LoginRequests : login[r].bucket = b => login[r].pc \notin Busy
    <3> SUFFICES ASSUME NEW r \in LoginRequests, login[r].bucket = b, login[r].pc \in Busy PROVE FALSE
      OBVIOUS
    <3>1. r \in InFlight(b)
      BY DEF InFlight, Busy
    <3> QED
      BY <2>1, <3>1, InFlightCounts
  <2>5. ASSUME NEW r \in LoginRequests, AdmitAttempt(r) PROVE buckets'[b] = buckets[b]
    <3> DEFINE now == login[r].at
               cleaned == CleanBuckets(now)
    <3>1. cleaned[b] = buckets[b] /\ cleaned \in [Buckets -> Buckets4] /\ now < buckets[b].until
      BY <2>1, <2>2, <2>3, CleanupIsHarmless
    <3>2. login[r].bucket = b => ~MayAttempt(cleaned[b], now)
      BY <2>1, <2>3, <3>1 DEF MayAttempt
    <3> HIDE DEF cleaned
    <3>3. \/ buckets' = cleaned
          \/ /\ MayAttempt(cleaned[login[r].bucket], now)
             /\ buckets' = [cleaned EXCEPT ![login[r].bucket].inFlight = @ + 1,
                                           ![login[r].bucket].updated = now]
      BY <2>5, Zenon DEF AdmitAttempt, cleaned
    <3> QED
      BY <2>3, <3>1, <3>2, <3>3
  <2>6. ASSUME NEW r \in LoginRequests, CancelAttempt(r) \/ FinishAttempt(r)
        PROVE  buckets'[b] = buckets[b]
    <3>1. login[r].bucket # b
      BY <2>4, <2>6, Zenon DEF CancelAttempt, FinishAttempt, Busy
    <3> QED
      BY <2>1, <2>6, <3>1 DEF CancelAttempt, FinishAttempt, Shape
  <2>7. ASSUME buckets' = buckets \/ \E now \in Nat : now <= clock /\ buckets' = CleanBuckets(now)
        PROVE  buckets'[b] = buckets[b]
    BY <2>2, <2>7
  <2>8. ASSUME NEW r \in LoginRequests,
               \/ AcquirePasswordCheck(r) \/ ReleasePasswordCheck(r) \/ CreateSession(r) \/ NoToken(r)
               \/ \E d \in Buckets, right \in BOOLEAN : Login(r, d, right)
        PROVE  buckets'[b] = buckets[b]
    BY <2>3, <2>7, <2>8 DEF AcquirePasswordCheck, ReleasePasswordCheck, CreateSession, NoToken, Login
  <2>9. CASE Tick \/ BeginLogin \/ Resolve \/ \E s \in Slots : Logout(s)
    <3>1. buckets' = buckets \/ buckets' = CleanBuckets(clock)
      BY <2>9 DEF Tick, BeginLogin, Resolve, Logout
    <3> QED
      BY <2>1, <2>7, <3>1
  <2> QED
    BY <2>1, <2>5, <2>6, <2>8, <2>9 DEF AuthNext, LoginStep
<1> QED
  BY <1>1, AuthInvInit, AuthInvNext, PTL DEF AuthSpec, LockoutHolds
=============================================================================
