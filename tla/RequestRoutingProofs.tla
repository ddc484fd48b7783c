------------------------ MODULE RequestRoutingProofs ------------------------
(***************************************************************************)
(* Theorems about RequestRouting, for any number of requests and endpoints *)
(* and any timeouts that satisfy the assumptions.                          *)
(***************************************************************************)
EXTENDS RequestRouting, ExtremaProofs

(***************************************************************************)
(* The request operators keep a request well formed and leave alone the    *)
(* fields the other lemmas speak of.                                       *)
(***************************************************************************)
LEMMA TotalPositive == Total \in Nat /\ Total > 0 /\ 0 \in Endpoints
BY RoutingAssumption DEF RoutingAssumption, Endpoints

\* Where the next pass starts is an index.
LEMMA NextStartType ==
    ASSUME NEW q \in Request
    PROVE  NextStart(q) \in Endpoints
BY TotalPositive DEF NextStart, Request, Endpoints

\* The record of a handler that serves nothing is a request.
LEMMA NoRequestType == NoRequest \in Request
BY TotalPositive DEF NoRequest, Request, AllKinds, Nowhere

\* A request that arrives is well formed and carries the deadline given.
LEMMA NewRequestType ==
    ASSUME NEW kind \in AllKinds, NEW deadline \in Nat
    PROVE  /\ [NoRequest EXCEPT !.kind = kind, !.deadline = deadline] \in Request
           /\ [NoRequest EXCEPT !.kind = kind, !.deadline = deadline].deadline = deadline
BY NoRequestType DEF Request

\* A pass starts with a scan; the deadline and the timer stay.
LEMMA StartPassType ==
    ASSUME NEW q \in Request, NEW start \in Endpoints
    PROVE  /\ StartPass(q, start) \in Request
           /\ StartPass(q, start).pc = "scan"
           /\ StartPass(q, start).deadline = q.deadline
           /\ StartPass(q, start).timer = q.timer
BY DEF StartPass, Request

\* Dropping a candidate changes nothing the timing depends on.
LEMMA DropType ==
    ASSUME NEW q \in Request, NEW e \in Endpoints
    PROVE  /\ Drop(q, e) \in Request
           /\ Drop(q, e).pc = q.pc
           /\ Drop(q, e).deadline = q.deadline
           /\ Drop(q, e).timer = q.timer
           /\ Drop(q, e).target = q.target
BY DEF Drop, Request

\* Skipping a candidate changes nothing the timing depends on.
LEMMA SkippingType ==
    ASSUME NEW q \in Request, NEW e \in Endpoints
    PROVE  /\ Skipping(q, e) \in Request
           /\ Skipping(q, e).pc = q.pc
           /\ Skipping(q, e).deadline = q.deadline
<1> DEFINE d == Drop(q, e)
           lacking == IF Routable(q.kind, e) THEN d.lacking ELSE d.lacking \cup {e}
<1>1. d \in Request /\ d.pc = q.pc /\ d.deadline = q.deadline
  BY DropType
<1>2. lacking \in SUBSET Endpoints
  BY <1>1 DEF Request
<1>3. Skipping(q, e) = [d EXCEPT !.lacking = lacking]
  BY DEF Skipping
<1> HIDE DEF d, lacking
<1> QED BY <1>1, <1>2, <1>3 DEF Request

\* A finished request is well formed and done.
LEMMA FinishedType ==
    ASSUME NEW q \in Request, NEW result \in {"ok", "rpcError", "failed", "lost"}
    PROVE  /\ Finished(q, result) \in Request
           /\ Finished(q, result).pc = "done"
BY TotalPositive DEF Finished, NoRequest, Request, AllKinds, Nowhere

\* A call to e is timed from now, under the request's old deadline.
LEMMA AskingType ==
    ASSUME NEW q \in Request, NEW e \in Endpoints, now \in Nat
    PROVE  /\ Asking(q, e) \in Request
           /\ Asking(q, e).pc = "await"
           /\ Asking(q, e).target = e
           /\ Asking(q, e).deadline = q.deadline
           /\ Asking(q, e).timer = now + RequestTimeout
<1> DEFINE d == Drop(q, e)
           answered == IF q.lastResort THEN d.answered \cup {e} ELSE d.answered
           finals == IF q.lastResort THEN d.finals \cup {e} ELSE d.finals
<1>1. d \in Request /\ d.deadline = q.deadline
  BY DropType
<1>2. /\ answered \in SUBSET Endpoints /\ finals \in SUBSET Endpoints
      /\ now + RequestTimeout \in Nat
  BY <1>1, RoutingAssumption DEF RoutingAssumption, Request
<1>3. Asking(q, e) = [d EXCEPT !.pc = "await", !.target = e,
                               !.timer = now + RequestTimeout, !.attempted = TRUE,
                               !.answered = answered, !.finals = finals]
  BY DEF Asking
<1> DEFINE t == now + RequestTimeout
<1> HIDE DEF d, answered, finals, t
<1>4. Asking(q, e) = [d EXCEPT !.pc = "await", !.target = e, !.timer = t,
                               !.attempted = TRUE, !.answered = answered,
                               !.finals = finals]
  BY <1>3 DEF t
<1>5. t \in Nat
  BY <1>2 DEF t
<1>6. Asking(q, e) \in Request
  BY <1>1, <1>2, <1>4, <1>5 DEF Request
<1>7. Asking(q, e).timer = t
  BY <1>1, <1>4 DEF Request
<1> QED BY <1>1, <1>4, <1>6, <1>7 DEF Request, t

\* After a call the pass goes on with its scan, under the same deadline.
LEMMA ResumeType ==
    ASSUME NEW q \in Request
    PROVE  /\ Resume(q) \in Request
           /\ Resume(q).pc = "scan"
           /\ Resume(q).deadline = q.deadline
           /\ Resume(q).start = q.start
BY DEF Resume, Request

\* The pause between endpoints is timed from now.
LEMMA NapType ==
    ASSUME NEW q \in Request, now \in Nat
    PROVE  /\ Nap(q) \in Request
           /\ Nap(q).pc = "nap"
           /\ Nap(q).deadline = q.deadline
           /\ Nap(q).timer = now + RetrySleep
<1> DEFINE t == now + RetrySleep
<1>1. t \in Nat
  BY RoutingAssumption DEF RoutingAssumption
<1>2. Nap(q) = [q EXCEPT !.pc = "nap", !.target = Nowhere, !.timer = t]
  BY DEF Nap
<1> HIDE DEF t
<1>3. Nap(q) \in Request /\ Nap(q).pc = "nap" /\ Nap(q).deadline = q.deadline /\ Nap(q).timer = t
  BY <1>1, <1>2 DEF Request
<1> QED BY <1>3 DEF t

\* An answer kept as the last error leaves the deadline alone.
LEMMA AnsweredType ==
    ASSUME NEW q \in Request, NEW e \in Endpoints
    PROVE  /\ AnsweredWithError(q, e) \in Request
           /\ AnsweredWithError(q, e).deadline = q.deadline
BY DEF AnsweredWithError, Request

\* A refused submission leaves the deadline alone.
LEMMA RefusedType ==
    ASSUME NEW q \in Request
    PROVE  /\ Refused(q) \in Request
           /\ Refused(q).deadline = q.deadline
BY DEF Refused, Request

(***************************************************************************)
(* The health operators.                                                   *)
(***************************************************************************)
LEMMA RefreshType ==
    ASSUME NEW h \in Health
    PROVE  Refresh(h, now) \in Health
BY DEF Refresh, Health, FreshHealth, Instant, NoInstant

\* The second an instant falls in starts at most a second before it.
LEMMA WholeSecondBounds ==
    ASSUME NEW t \in Nat
    PROVE  /\ Second \in Nat /\ Second > 0
           /\ WholeSecond(t) \in Nat
           /\ WholeSecond(t) <= t /\ t < WholeSecond(t) + Second
<1>1. Second \in Nat /\ Second > 0
  BY RoutingAssumption DEF RoutingAssumption
<1> DEFINE n == Second
<1> HIDE DEF n
<1>2. n \in Nat /\ n > 0
  BY <1>1 DEF n
<1>3. t % n \in 0 .. n - 1 /\ t % n <= t
  BY <1>2
<1> QED BY <1>1, <1>3 DEF WholeSecond, n

\* The types of the health store, in memory and on the disk.
StoreTyped ==
    /\ stored \in [Endpoints -> Instant]
    /\ file \in [Endpoints -> Instant]
    /\ robbed \subseteq Endpoints

\* Whatever becomes of a write, the file holds instants.
LEMMA WriteTypes ==
    ASSUME file \in [Endpoints -> Instant], NEW entries \in [Endpoints -> Instant],
           Stores(entries)
    PROVE  stored' \in [Endpoints -> Instant] /\ file' \in [Endpoints -> Instant]
<1>1. NoEntries \in [Endpoints -> Instant]
  BY DEF NoEntries, Instant
<1> QED BY <1>1 DEF Stores, Written

\* A transport failure keeps the health records well formed.
LEMMA HardFailureType ==
    ASSUME NEW e \in Endpoints, TypeOK, HardFailure(e)
    PROVE  health' \in [Endpoints -> Health] /\ StoreTyped'
<1>1. MarkHardFailure(health[e], now) \in Health
  BY HealthAssumption DEF HealthAssumption, TypeOK, Health, MarkHardFailure, Instant, NoInstant
<1>2. health' \in [Endpoints -> Health]
  BY <1>1 DEF HardFailure, TypeOK
<1>3. WholeSecond(now) + HardFailureCooldown \in Instant
  BY HealthAssumption, WholeSecondBounds DEF HealthAssumption, TypeOK, Instant
<1> DEFINE entries == [stored EXCEPT ![e] = WholeSecond(now) + HardFailureCooldown]
<1>4. entries \in [Endpoints -> Instant]
  BY <1>3 DEF TypeOK
<1>5. \/ Stores(entries) /\ robbed' = robbed \ {e}
      \/ UNCHANGED store
  BY DEF HardFailure, MarkDead
<1> HIDE DEF entries
<1>6. StoreTyped'
  BY <1>4, <1>5, WriteTypes DEF StoreTyped, store, TypeOK
<1> QED BY <1>2, <1>6

\* Every other reply keeps the health records well formed.
LEMMA OtherHealthTypes ==
    ASSUME NEW e \in Endpoints, TypeOK,
           Answers(e) \/ AnswersRateLimited(e) \/ RateLimits(e)
    PROVE  health' \in [Endpoints -> Health] /\ StoreTyped'
<1>1. now + RateLimitCooldown \in Instant
  BY HealthAssumption DEF HealthAssumption, TypeOK, Instant
<1>2. /\ ClearFailures(health[e]) \in Health
      /\ MarkRateLimited(health[e], now) \in Health
      /\ MarkRateLimited(ClearFailures(health[e]), now) \in Health
  BY <1>1 DEF TypeOK, Health, ClearFailures, MarkRateLimited, Instant, NoInstant
<1> QED
  BY <1>1, <1>2
  DEF Answers, AnswersRateLimited, RateLimits, TypeOK, StoreTyped, store

\* The parts of a reset keep the health records well formed.
LEMMA ResetTypes ==
    ASSUME TypeOK, NEW r \in Requests, NEW e \in Endpoints, ResetUntil(r, e) \/ ResetStore(r, e)
    PROVE  /\ UNCHANGED current
           /\ health' \in [Endpoints -> Health] /\ StoreTyped'
<1>1. robbed' \subseteq Endpoints
  BY DEF ResetUntil, ResetStore, Rob, TypeOK
<1>2. CASE ResetUntil(r, e)
  <2>1. [health[e] EXCEPT !.until = NoInstant] \in Health
    BY DEF TypeOK, Health, Instant
  <2> QED BY <1>1, <1>2, <2>1 DEF ResetUntil, Becomes, TypeOK, StoreTyped
<1>3. CASE ResetStore(r, e)
  <2> DEFINE entries == [stored EXCEPT ![e] = NoInstant]
  <2>1. entries \in [Endpoints -> Instant]
    BY DEF TypeOK, Instant
  <2>2. Stores(entries) \/ UNCHANGED <<stored, file>>
    BY <1>3 DEF ResetStore
  <2> HIDE DEF entries
  <2>3. stored' \in [Endpoints -> Instant] /\ file' \in [Endpoints -> Instant]
    BY <2>1, <2>2, WriteTypes DEF TypeOK
  <2> QED BY <1>1, <1>3, <2>3 DEF ResetStore, Becomes, TypeOK, StoreTyped
<1> QED BY <1>2, <1>3

\* Whatever moves the block coverages leaves them among Coverages.
LEMMA CoverageType ==
    ASSUME TypeOK, NEW e \in Endpoints,
           HeadMoves \/ (\E kind \in AllKinds : LearnsPruned(kind, e)) \/ UNCHANGED coverage
    PROVE  coverage' \in [Endpoints -> Coverages]
BY RoutingAssumption DEF RoutingAssumption, TypeOK, HeadMoves, LearnsPruned, Coverages

(***************************************************************************)
(* Timing of one request, the strengthening of BoundedRetries: whatever it *)
(* waits for was begun before its deadline and ends when its kind allows.  *)
(***************************************************************************)
InTime(q) ==
    /\ q.pc \in {"scan", "reset", "clear"} => now < q.deadline + Overrun
    /\ q.pc = "await" => /\ now <= q.timer /\ q.timer <= now + RequestTimeout
                         /\ q.timer < q.deadline + RequestTimeout
    /\ q.pc = "nap" => now <= q.timer /\ q.timer < q.deadline + RequestTimeout + RetrySleep
    /\ q.pc = "cool" => now <= q.timer /\ q.timer < q.deadline + MinCoolSleep

OnTime == \A r \in Requests : InTime(req[r])

\* A request that is being served goes on with its deadline, or ends.
Continues(p, q) ==
    /\ p.pc \notin {"idle", "done"} /\ q.pc # "idle"
    /\ q.pc # "done" => q.deadline = p.deadline

\* What the assumptions say of the timeouts, in the form the steps use.
LEMMA Durations ==
    /\ RequestTimeout \in Nat /\ RequestTimeout > 0
    /\ RetrySleep \in Nat
    /\ MinCoolSleep \in Nat /\ MinCoolSleep > 0
    /\ OverallDeadline \in Nat /\ OverallDeadline > 0
    /\ Overrun \in Nat /\ Overrun > 0
    /\ RequestTimeout + RetrySleep <= Overrun
    /\ MinCoolSleep <= Overrun
<1>1. /\ RequestTimeout \in Nat /\ RequestTimeout > 0
      /\ RetrySleep \in Nat
      /\ MinCoolSleep \in Nat /\ MinCoolSleep > 0
      /\ MinDeadline \in Nat /\ MinDeadline > 0
      /\ DeadlineFactor \in Nat
  BY RoutingAssumption DEF RoutingAssumption
<1>2. DeadlineFactor * RequestTimeout \in Nat
  BY <1>1
<1>3. OverallDeadline \in Nat /\ OverallDeadline > 0
  BY <1>1, <1>2 DEF OverallDeadline
<1> QED BY <1>1, <1>3 DEF Overrun

\* A request that arrives is in time.
LEMMA BeginStep ==
    ASSUME TypeOK, NEW r \in Requests, NEW kind \in AllKinds, Begin(r, kind)
    PROVE  /\ now' = now
           /\ \E q \in Request : InTime(q) /\ req' = [req EXCEPT ![r] = q]
<1> DEFINE p == [NoRequest EXCEPT !.kind = kind, !.deadline = now + OverallDeadline]
           q == StartPass(p, current)
<1>0. now + OverallDeadline \in Nat
  BY Durations DEF TypeOK
<1>1. p \in Request /\ p.deadline = now + OverallDeadline
  BY <1>0, NewRequestType
<1>2. current \in Endpoints /\ now \in Nat
  BY TotalPositive DEF TypeOK, Endpoints
<1> HIDE DEF p
<1>3. q \in Request /\ q.pc = "scan" /\ q.deadline = now + OverallDeadline
  BY <1>1, <1>2, StartPassType
<1>4. InTime(q)
  BY <1>2, <1>3, Durations DEF InTime
<1>5. req' = [req EXCEPT ![r] = q] /\ now' = now
  BY DEF Begin, NextIndex, p
<1> QED BY <1>3, <1>4, <1>5

\* Looking at one endpoint of a pass keeps its request in time.
LEMMA PassStep ==
    ASSUME TypeOK, OnTime, NEW r \in Requests, NEW e \in Endpoints,
           Skip(r, e) \/ Attempt(r, e)
    PROVE  /\ now' = now
           /\ \E q \in Request : InTime(q) /\ Continues(req[r], q) /\ req' = [req EXCEPT ![r] = q]
<1>1. req[r] \in Request /\ now \in Nat /\ InTime(req[r])
  BY DEF TypeOK, OnTime
<1>2. req[r].deadline \in Nat /\ req[r].pc = "scan" /\ now < req[r].deadline
  BY <1>1 DEF Skip, Attempt, Scanning, Expired, Request
<1>3. CASE Skip(r, e)
  <2> DEFINE q == Skipping(req[r], e)
  <2>1. q \in Request /\ q.pc = "scan" /\ q.deadline = req[r].deadline
    BY <1>1, <1>2, SkippingType
  <2>2. req' = [req EXCEPT ![r] = q] /\ now' = now
    BY <1>3 DEF Skip
  <2> HIDE DEF q
  <2>3. InTime(q) /\ Continues(req[r], q)
    BY <1>1, <1>2, <2>1, Durations DEF InTime, Continues
  <2> QED BY <2>1, <2>2, <2>3
<1>4. CASE Attempt(r, e)
  <2>1. /\ Asking(req[r], e) \in Request
        /\ Asking(req[r], e).pc = "await"
        /\ Asking(req[r], e).deadline = req[r].deadline
        /\ Asking(req[r], e).timer = now + RequestTimeout
    BY <1>1, AskingType
  <2>2. InTime(Asking(req[r], e)) /\ Continues(req[r], Asking(req[r], e))
    BY <1>1, <1>2, <2>1, Durations DEF InTime, Continues
  <2> QED BY <1>4, <2>1, <2>2 DEF Attempt
<1> QED BY <1>3, <1>4

(***************************************************************************)
(* A request that just got its reply goes on in time, or is done.          *)
(***************************************************************************)
LEMMA AfterReply ==
    ASSUME TypeOK, OnTime, NEW r \in Requests, req[r].pc = "await",
           NEW q \in Request, q.deadline = req[r].deadline
    PROVE  InTime(Resume(q)) /\ InTime(Nap(q))
<1>1. /\ req[r] \in Request /\ now \in Nat
      /\ now <= req[r].timer /\ req[r].timer < req[r].deadline + RequestTimeout
  BY DEF TypeOK, OnTime, InTime
<1>2. req[r].timer \in Nat /\ req[r].deadline \in Nat
  BY <1>1 DEF Request
<1>3. InTime(Resume(q))
  BY <1>1, <1>2, ResumeType, Durations DEF InTime
<1>4. InTime(Nap(q))
  BY <1>1, <1>2, NapType, Durations DEF InTime
<1> QED BY <1>3, <1>4

\* A reply ends the wait for it and keeps the request in time.
LEMMA ReplyStep ==
    ASSUME TypeOK, OnTime, NEW r \in Requests, NEW e \in Endpoints, Reply(r, e)
    PROVE  /\ now' = now
           /\ \E q \in Request : /\ InTime(q) /\ Continues(req[r], q) /\ q.pc # "await"
                            /\ req' = [req EXCEPT ![r] = q]
<1> DEFINE p == req[r]
           Good(q) == q \in Request /\ InTime(q) /\ Continues(p, q) /\ q.pc # "await"
<1>1. p \in Request /\ p.pc = "await" /\ now \in Nat
  BY DEF TypeOK, Reply, TransportFailure, BrokenReply, UsableReply, SubmissionRefused,
         MissingState, RateLimited, Transient, ErrorStatusMissingState,
         ErrorStatusRateLimited, BadRequest, TooManyRequests, UnexpectedStatus, Awaiting
<1>2. ASSUME NEW q \in Request, q.deadline = p.deadline
      PROVE  Good(Resume(q)) /\ Good(Nap(q))
  BY <1>1, <1>2, AfterReply, ResumeType, NapType DEF Continues
<1>3. ASSUME NEW result \in {"ok", "rpcError", "failed", "lost"}
      PROVE  Good(Finished(p, result))
  BY <1>1, FinishedType DEF InTime, Continues
<1>4. /\ Good(Resume(p)) /\ Good(Nap(p))
      /\ Good(Resume(AnsweredWithError(p, e)))
      /\ Good(Resume(Refused(AnsweredWithError(p, e))))
      /\ Good(Nap(Refused(p)))
  BY <1>1, <1>2, AnsweredType, RefusedType
<1>5. Good([Resume(AnsweredWithError(p, e)) EXCEPT !.soft = @ + 1])
  <2> DEFINE q == Resume(AnsweredWithError(p, e))
  <2>1. /\ q \in Request /\ q.pc = "scan" /\ InTime(q)
        /\ q.deadline = p.deadline
    BY <1>1, <1>4, AnsweredType, ResumeType
  <2> HIDE DEF q
  <2>2. q.soft + 1 \in Nat
    BY <2>1 DEF Request
  <2>3. /\ InTime([q EXCEPT !.soft = @ + 1])
        /\ [q EXCEPT !.soft = @ + 1] \in Request
        /\ [q EXCEPT !.soft = @ + 1].pc = "scan"
        /\ [q EXCEPT !.soft = @ + 1].deadline = p.deadline
    BY <2>1, <2>2 DEF InTime, Request
  <2> QED BY <1>1, <2>3 DEF q, Continues
<1>7. Good([p EXCEPT !.pc = "reset"])
  <2> DEFINE q == [p EXCEPT !.pc = "reset"]
  <2>1. q \in Request /\ q.pc = "reset" /\ q.deadline = p.deadline
    BY <1>1 DEF Request
  <2>2. InTime(Resume(p)) /\ Resume(p).pc = "scan" /\ Resume(p).deadline = p.deadline
    BY <1>1, <1>4, ResumeType
  <2> HIDE DEF q
  <2>3. InTime(q) /\ Continues(p, q)
    BY <1>1, <2>1, <2>2 DEF InTime, Continues
  <2> QED BY <2>1, <2>3 DEF q
<1>6. \E q : Good(q) /\ Becomes(r, q)
  <2> HIDE DEF Good
  <2>1. CASE TransportFailure(r, e) \/ BrokenReply(r, e)
    BY <1>4, <2>1 DEF TransportFailure, BrokenReply
  <2>7. CASE UsableReply(r, e)
    BY <1>7, <2>7 DEF UsableReply
  <2>2. CASE SubmissionRefused(r, e) \/ BadRequest(r, e)
    BY <1>3, <2>2 DEF SubmissionRefused, BadRequest
  <2>3. CASE MissingState(r, e) \/ RateLimited(r, e)
    BY <1>4, <2>3 DEF MissingState, RateLimited
  <2>4. CASE Transient(r, e)
    <3>1. CASE p.soft + 1 >= MaxSoftRetries
      BY <1>3, <2>4, <3>1 DEF Transient
    <3>2. CASE ~(p.soft + 1 >= MaxSoftRetries)
      BY <1>5, <2>4, <3>2 DEF Transient
    <3> QED BY <3>1, <3>2
  <2>5. CASE ErrorStatusMissingState(r, e) \/ ErrorStatusRateLimited(r, e)
    BY <1>4, <2>5 DEF ErrorStatusMissingState, ErrorStatusRateLimited
  <2>6. CASE TooManyRequests(r, e) \/ UnexpectedStatus(r, e)
    BY <1>4, <2>6 DEF TooManyRequests, UnexpectedStatus
  <2> QED BY <2>1, <2>2, <2>3, <2>4, <2>5, <2>6, <2>7 DEF Reply
<1> QED BY <1>6 DEF Becomes

\* The rest of a reset takes no time, and ends the request.
LEMMA ResetStep ==
    ASSUME TypeOK, OnTime, NEW r \in Requests, NEW e \in Endpoints,
           ResetUntil(r, e) \/ ResetStore(r, e)
    PROVE  /\ now' = now
           /\ \E q \in Request : /\ InTime(q) /\ Continues(req[r], q) /\ q.pc # "await"
                            /\ req' = [req EXCEPT ![r] = q]
<1> DEFINE p == req[r]
<1>1. p \in Request /\ InTime(p) /\ now \in Nat
  BY DEF TypeOK, OnTime
<1>2. CASE ResetUntil(r, e)
  <2> DEFINE q == [p EXCEPT !.pc = "clear"]
  <2>1. q \in Request /\ q.pc = "clear" /\ q.deadline = p.deadline
    BY <1>1 DEF Request
  <2>2. p.pc = "reset" /\ Becomes(r, q)
    BY <1>2 DEF ResetUntil
  <2> HIDE DEF q
  <2>3. InTime(q) /\ Continues(p, q)
    BY <1>1, <2>1, <2>2 DEF InTime, Continues
  <2> QED BY <2>1, <2>2, <2>3 DEF Becomes
<1>3. CASE ResetStore(r, e)
  <2> DEFINE q == Finished(p, "ok")
  <2>1. q \in Request /\ q.pc = "done"
    BY <1>1, FinishedType
  <2>2. p.pc = "clear" /\ Becomes(r, q)
    BY <1>3 DEF ResetStore
  <2> HIDE DEF q
  <2>3. InTime(q) /\ Continues(p, q)
    BY <2>1, <2>2 DEF InTime, Continues
  <2> QED BY <2>1, <2>2, <2>3 DEF Becomes
<1> QED BY <1>2, <1>3

\* The end of a pass, a pause or a sleep keeps the request in time.
LEMMA EndOfPassStep ==
    ASSUME TypeOK, OnTime, NEW r \in Requests, EndOfPass(r)
    PROVE  /\ now' = now
           /\ \E q \in Request : /\ InTime(q) /\ Continues(req[r], q) /\ q.pc # "await"
                            /\ req' = [req EXCEPT ![r] = q]
<1> DEFINE p == req[r]
           Good(q) == q \in Request /\ InTime(q) /\ Continues(p, q) /\ q.pc # "await"
<1>1. p \in Request /\ now \in Nat /\ InTime(p) /\ p.deadline \in Nat /\ p.start \in Endpoints
      /\ p.timer \in Nat
  BY DEF TypeOK, OnTime, Request
<1>0. p.pc \in {"scan", "nap", "cool"}
  BY DEF EndOfPass, DeadlinePassed, NextPass, EnterLastResort, ReturnLastError, Cool, GiveUp,
         WakeFromNap, WakeFromCooldown, PassOver, Exhausted, Scanning
<1>2. ASSUME NEW result \in {"ok", "rpcError", "failed", "lost"}
      PROVE  Good(Finished(p, result))
  BY <1>0, <1>1, FinishedType DEF InTime, Continues
<1>3. ASSUME NEW q \in Request, NEW start \in Endpoints, now < q.deadline + Overrun,
             q.deadline = p.deadline
      PROVE  Good(StartPass(q, start))
  BY <1>0, <1>3, StartPassType DEF InTime, Continues
<1>4. /\ PassOver(r) => p.pc = "scan" /\ now < p.deadline
      /\ Exhausted(r) => PassOver(r)
  BY <1>1 DEF PassOver, Exhausted, Scanning, Expired
<1>5. \E q : Good(q) /\ Moves(r, q)
  <2>1. CASE DeadlinePassed(r) \/ ReturnLastError(r) \/ GiveUp(r)
    <3>1. (IF p.errBody THEN "rpcError" ELSE "failed") \in {"ok", "rpcError", "failed", "lost"}
      OBVIOUS
    <3> HIDE DEF Good
    <3> QED BY <1>2, <2>1, <3>1 DEF DeadlinePassed, ReturnLastError, GiveUp
  <2>2. CASE NextPass(r)
    <3>1. Good(StartPass(p, NextStart(p)))
      BY <1>1, <1>3, <1>4, <2>2, NextStartType, Durations DEF NextPass
    <3> QED BY <2>2, <3>1 DEF NextPass
  <2>3. CASE EnterLastResort(r)
    <3> DEFINE q == [p EXCEPT !.lastResort = TRUE]
    <3>1. q \in Request /\ q.deadline = p.deadline
      BY <1>1 DEF Request
    <3> HIDE DEF q
    <3>2. Good(StartPass(q, p.start))
      BY <1>1, <1>3, <1>4, <2>3, <3>1, Durations DEF EnterLastResort
    <3> QED BY <2>3, <3>2 DEF EnterLastResort, q
  <2>4. CASE Cool(r)
    <3>1. PICK wait \in Waits :
             /\ EndsInTime(p, wait)
             /\ Moves(r, [p EXCEPT !.pc = "cool", !.timer = now + CoolSleep(wait)])
      BY <2>4 DEF Cool
    <3>2. wait \in Nat
      BY <1>1 DEF Waits, Cooling, CooldownRemaining, TypeOK, Health, Instant, NoInstant
    <3>3. now + wait < p.deadline
      BY <3>1 DEF EndsInTime
    <3> DEFINE t == now + CoolSleep(wait)
               q == [p EXCEPT !.pc = "cool", !.timer = t]
    <3>4. t \in Nat /\ now <= t /\ t < p.deadline + MinCoolSleep
      BY <1>1, <3>2, <3>3, Durations DEF CoolSleep
    <3>5. Moves(r, q)
      BY <3>1
    <3> HIDE DEF t
    <3>6. q \in Request /\ q.pc = "cool" /\ q.timer = t /\ q.deadline = p.deadline
      BY <1>1, <3>4 DEF Request
    <3> HIDE DEF q
    <3>7. InTime(q) /\ Continues(p, q)
      BY <1>0, <3>4, <3>6 DEF InTime, Continues
    <3> QED BY <3>5, <3>6, <3>7
  <2>5. CASE WakeFromNap(r)
    <3>1. now < p.deadline + Overrun
      BY <1>1, <2>5, Durations DEF WakeFromNap, InTime
    <3>2. Good(Resume(p))
      BY <1>0, <1>1, <3>1, ResumeType DEF InTime, Continues
    <3> QED BY <2>5, <3>2 DEF WakeFromNap
  <2>6. CASE WakeFromCooldown(r)
    <3>1. now < p.deadline + Overrun
      BY <1>1, <2>6, Durations DEF WakeFromCooldown, InTime
    <3>2. Resume(p) \in Request /\ Resume(p).deadline = p.deadline
      BY <1>1, ResumeType
    <3>3. Good(StartPass(Resume(p), NextStart(p)))
      BY <1>1, <1>3, <3>1, <3>2, NextStartType
    <3> QED BY <2>6, <3>3 DEF WakeFromCooldown
  <2> QED BY <2>1, <2>2, <2>3, <2>4, <2>5, <2>6 DEF EndOfPass
<1> QED BY <1>5 DEF Moves, Becomes

\* Each step that serves a request keeps it in time.
LEMMA ServeStep ==
    ASSUME TypeOK, OnTime, NEW r \in Requests, Serve(r)
    PROVE  /\ now' = now
           /\ \E q \in Request : InTime(q) /\ Continues(req[r], q) /\ req' = [req EXCEPT ![r] = q]
<1>1. CASE EndOfPass(r)
  BY <1>1, EndOfPassStep
<1>2. ASSUME NEW e \in Endpoints,
             Skip(r, e) \/ Attempt(r, e) \/ Reply(r, e) \/ ResetUntil(r, e) \/ ResetStore(r, e)
      PROVE  /\ now' = now
             /\ \E q \in Request : InTime(q) /\ Continues(req[r], q) /\ req' = [req EXCEPT ![r] = q]
  BY <1>2, PassStep, ReplyStep, ResetStep
<1> QED BY <1>1, <1>2 DEF Serve

\* A step that replaces one request by one in time keeps them all so.
LEMMA RequestUpdated ==
    ASSUME TypeOK, OnTime, NEW r \in Requests, now' = now,
           \E q \in Request : InTime(q) /\ req' = [req EXCEPT ![r] = q]
    PROVE  req' \in [Requests -> Request] /\ OnTime'
<1>1. PICK q \in Request : InTime(q) /\ req' = [req EXCEPT ![r] = q]
  OBVIOUS
<1>2. req \in [Requests -> Request]
  BY DEF TypeOK
<1>3. req' \in [Requests -> Request]
  BY <1>1, <1>2
<1>4. ASSUME NEW s \in Requests
      PROVE  InTime(req'[s])
  BY <1>1, <1>2 DEF OnTime
<1>5. OnTime'
  BY <1>4 DEF OnTime, InTime
<1> QED BY <1>3, <1>5

(***************************************************************************)
(* Every other variable keeps its type.                                    *)
(***************************************************************************)
LEMMA PassTypes ==
    ASSUME TypeOK, NEW r \in Requests, NEW e \in Endpoints, Skip(r, e) \/ Attempt(r, e)
    PROVE  /\ health' \in [Endpoints -> Health]
           /\ UNCHANGED <<current, coverage, store>>
<1>1. Refresh(health[e], now) \in Health
  BY RefreshType DEF TypeOK
<1> QED BY <1>1 DEF Skip, Attempt, TypeOK

\* A reply keeps everything it touches besides its request well formed.
LEMMA ReplyTypes ==
    ASSUME TypeOK, NEW r \in Requests, NEW e \in Endpoints, Reply(r, e)
    PROVE  /\ UNCHANGED current
           /\ health' \in [Endpoints -> Health] /\ StoreTyped'
           /\ coverage' \in [Endpoints -> Coverages]
<1>1. UNCHANGED current
  BY DEF Reply, TransportFailure, BrokenReply, UsableReply, SubmissionRefused,
         MissingState, RateLimited, Transient, ErrorStatusMissingState,
         ErrorStatusRateLimited, BadRequest, TooManyRequests, UnexpectedStatus, Becomes
<1>2. \/ HardFailure(e)
      \/ Answers(e) \/ AnswersRateLimited(e) \/ RateLimits(e)
      \/ UNCHANGED <<health, store>>
  BY DEF Reply, TransportFailure, BrokenReply, UsableReply, SubmissionRefused,
         MissingState, RateLimited, Transient, ErrorStatusMissingState,
         ErrorStatusRateLimited, BadRequest, TooManyRequests, UnexpectedStatus
<1>3. health' \in [Endpoints -> Health] /\ StoreTyped'
  BY <1>2, HardFailureType, OtherHealthTypes DEF TypeOK, StoreTyped, store
<1>4. req[r].kind \in AllKinds
  BY DEF TypeOK, Request
<1>5. LearnsPruned(req[r].kind, e) \/ UNCHANGED coverage
  BY DEF Reply, TransportFailure, BrokenReply, UsableReply, SubmissionRefused,
         MissingState, RateLimited, Transient, ErrorStatusMissingState,
         ErrorStatusRateLimited, BadRequest, TooManyRequests, UnexpectedStatus
<1>6. coverage' \in [Endpoints -> Coverages]
  BY <1>4, <1>5, CoverageType
<1> QED BY <1>1, <1>3, <1>6

\* Health records restored from the file are well formed.
LEMMA RestoreTypes ==
    ASSUME now \in Nat, NEW entries \in [Endpoints -> Instant]
    PROVE  /\ Restore(entries) \in [Endpoints -> Health]
           /\ [e \in Endpoints |-> Unexpired(entries[e])] \in [Endpoints -> Instant]
<1>1. ASSUME NEW e \in Endpoints, entries[e] # NoInstant
      PROVE  RestoreDeadUntil(now + (entries[e] - WholeSecond(now))) \in Health
  <2>1. now + (entries[e] - WholeSecond(now)) \in Nat
    BY <1>1, WholeSecondBounds DEF Instant
  <2> QED BY <2>1, HealthAssumption DEF HealthAssumption, RestoreDeadUntil, Health, Instant
<1>2. FreshHealth \in Health
  BY DEF FreshHealth, Health, Instant
<1> QED BY <1>1, <1>2 DEF Restore, Unexpired, Instant

\* A restart leaves a well-formed state in time.
LEMMA RestartStep ==
    ASSUME TypeOK, OnTime, Restart
    PROVE  TypeOK' /\ OnTime'
<1> DEFINE entries == [e \in Endpoints |-> Unexpired(file[e])]
<1>0. now \in Nat /\ now' = now /\ file \in [Endpoints -> Instant]
  BY DEF TypeOK, Restart
<1>1. entries \in [Endpoints -> Instant] /\ Stores(entries)
  BY <1>0, RestoreTypes DEF Restart
<1>2. StoreTyped' /\ health' \in [Endpoints -> Health]
  <2> HIDE DEF entries
  <2>1. stored' \in [Endpoints -> Instant] /\ file' \in [Endpoints -> Instant]
    BY <1>0, <1>1, WriteTypes
  <2>2. health' = Restore(stored') /\ robbed' = {}
    BY DEF Restart
  <2>3. health' \in [Endpoints -> Health]
    BY <1>0, <2>1, <2>2, RestoreTypes
  <2> QED BY <2>1, <2>2, <2>3 DEF StoreTyped
<1>3. current' \in Endpoints
  BY TotalPositive DEF Restart
<1>4. coverage' \in [Endpoints -> Coverages]
  BY CoverageType, TotalPositive DEF Restart
<1>5. ASSUME NEW r \in Requests
      PROVE  req'[r] \in Request /\ InTime(req'[r])
  BY FinishedType DEF Restart, TypeOK, OnTime, InTime, Active
<1>6. req' \in [Requests -> Request]
  BY <1>5 DEF Restart
<1>7. OnTime'
  BY <1>0, <1>5 DEF OnTime, InTime
<1> QED BY <1>0, <1>2, <1>3, <1>4, <1>6, <1>7 DEF TypeOK, StoreTyped

\* Time passes only while no wait is due, so every request stays in time.
LEMMA TickStep ==
    ASSUME TypeOK, OnTime, Tick
    PROVE  TypeOK' /\ OnTime'
<1>1. TypeOK'
  BY DEF Tick, TypeOK, store
<1>2. ASSUME NEW r \in Requests
      PROVE  InTime(req[r])'
  <2>1. /\ req[r] \in Request /\ req'[r] = req[r] /\ InTime(req[r])
        /\ now \in Nat /\ now' = now + 1
        /\ Active(r) => Waiting(r) /\ now < req[r].timer
    BY DEF Tick, TypeOK, OnTime
  <2>2. req[r].timer \in Nat /\ req[r].deadline \in Nat
    BY <2>1 DEF Request
  <2>3. req[r].pc \notin {"scan", "reset", "clear"}
    BY <2>1 DEF Active, Waiting
  <2>4. req[r].pc \in {"await", "nap", "cool"} => now + 1 <= req[r].timer
    BY <2>1, <2>2 DEF Active
  <2> QED BY <2>1, <2>2, <2>3, <2>4, Durations DEF InTime
<1> QED BY <1>1, <1>2 DEF OnTime

\* TypeOK and OnTime together are inductive.
LEMMA TypeAndTimeStep ==
    ASSUME TypeOK, OnTime, [Next]_vars
    PROVE  TypeOK' /\ OnTime'
<1>1. CASE UNCHANGED vars
  BY <1>1 DEF vars, store, TypeOK, OnTime, InTime
<1>2. ASSUME NEW r \in Requests, Serve(r)
      PROVE  TypeOK' /\ OnTime'
  <2>1. now' = now /\ req' \in [Requests -> Request] /\ OnTime'
    BY <1>2, ServeStep, RequestUpdated
  <2>2. CASE EndOfPass(r)
    <3>1. UNCHANGED <<current, health, coverage, store>>
      BY <2>2 DEF EndOfPass, DeadlinePassed, NextPass, EnterLastResort, ReturnLastError,
                  Cool, GiveUp, WakeFromNap, WakeFromCooldown, Moves, Becomes
    <3> QED BY <2>1, <3>1 DEF TypeOK, store
  <2>3. ASSUME NEW e \in Endpoints,
               Skip(r, e) \/ Attempt(r, e) \/ Reply(r, e) \/ ResetUntil(r, e) \/ ResetStore(r, e)
        PROVE  TypeOK'
    <3>1. CASE Skip(r, e) \/ Attempt(r, e)
      BY <2>1, <3>1, PassTypes DEF TypeOK, store
    <3>2. CASE Reply(r, e)
      BY <2>1, <3>2, ReplyTypes DEF TypeOK, StoreTyped
    <3>3. CASE ResetUntil(r, e) \/ ResetStore(r, e)
      <4>1. coverage' \in [Endpoints -> Coverages]
        BY <3>3, CoverageType DEF ResetUntil, ResetStore
      <4> QED BY <2>1, <3>3, <4>1, ResetTypes DEF TypeOK, StoreTyped
    <3> QED BY <2>3, <3>1, <3>2, <3>3
  <2> QED BY <1>2, <2>1, <2>2, <2>3 DEF Serve
<1>3. ASSUME NEW r \in Requests, ClientGone(r)
      PROVE  TypeOK' /\ OnTime'
  <2>1. Finished(req[r], "lost") \in Request /\ InTime(Finished(req[r], "lost"))
    BY FinishedType DEF TypeOK, InTime
  <2>2. /\ now' = now
        /\ req' = [req EXCEPT ![r] = Finished(req[r], "lost")]
        /\ UNCHANGED <<current, health, coverage, store>>
    BY <1>3 DEF ClientGone, Moves, Becomes
  <2>3. req' \in [Requests -> Request] /\ OnTime'
    BY <2>1, <2>2, RequestUpdated
  <2> QED BY <2>2, <2>3 DEF TypeOK, store
<1>4. ASSUME NEW r \in Requests, NEW kind \in Kinds, Begin(r, kind)
      PROVE  TypeOK' /\ OnTime'
  <2>1. kind \in AllKinds
    BY RoutingAssumption DEF RoutingAssumption
  <2>2. now' = now /\ req' \in [Requests -> Request] /\ OnTime'
    BY <1>4, <2>1, BeginStep, RequestUpdated
  <2>3. current' \in Endpoints
    BY <1>4, TotalPositive DEF Begin, NextIndex, TypeOK, Endpoints
  <2>4. UNCHANGED <<health, coverage, store>>
    BY <1>4 DEF Begin, NextIndex
  <2> QED BY <2>2, <2>3, <2>4 DEF TypeOK, store
<1>5. ASSUME NEW e \in Endpoints, NEW c \in LearntCoverages, ProbeFinds(e, c)
      PROVE  TypeOK' /\ OnTime'
  <2>1. c \in Coverages
    BY RoutingAssumption DEF RoutingAssumption
  <2> QED BY <1>5, <2>1 DEF ProbeFinds, TypeOK, OnTime, InTime, store
<1> QED BY <1>1, <1>2, <1>3, <1>4, <1>5, TickStep, RestartStep DEF Next

\* TypeOK and OnTime hold at the start.
LEMMA TypeAndTimeInit ==
    ASSUME Init
    PROVE  TypeOK /\ OnTime
<1>1. stored \in [Endpoints -> Instant]
  <2>1. HardFailureCooldown \in Nat /\ StoredDeaths \subseteq 1 .. HardFailureCooldown
    BY RoutingAssumption, HealthAssumption DEF RoutingAssumption, HealthAssumption
  <2>2. \A d \in 1 .. HardFailureCooldown : d \in Nat
    BY <2>1
  <2>3. StoredDeaths \cup {NoInstant} \subseteq Instant
    BY <2>1, <2>2 DEF Instant
  <2> QED BY <2>3 DEF Init
<1>2. /\ health \in [Endpoints -> Health]
      /\ file \in [Endpoints -> Instant] /\ robbed \subseteq Endpoints
  BY <1>1, RestoreTypes DEF Init
<1>3. coverage \in [Endpoints -> Coverages]
  BY RoutingAssumption DEF RoutingAssumption, Init
<1>4. req \in [Requests -> Request] /\ OnTime
  BY NoRequestType DEF Init, OnTime, InTime, NoRequest
<1> QED BY <1>1, <1>2, <1>3, <1>4, TotalPositive DEF Init, TypeOK

(***************************************************************************)
(* Every variable keeps its type, and every request is on time.            *)
(***************************************************************************)
THEOREM TypeCorrect == Spec => []TypeOK
<1>1. Spec => [](TypeOK /\ OnTime)
  BY TypeAndTimeInit, TypeAndTimeStep, PTL DEF Spec
<1> QED BY <1>1, PTL

(***************************************************************************)
(* Retries are bounded: however many requests and endpoints there are and  *)
(* whatever the endpoints answer, proxy_json_to_chain outlives its         *)
(* deadline by less than one call and pause, or one minimal sleep.         *)
(***************************************************************************)
THEOREM RetriesAreBounded == Spec => []BoundedRetries
<1>1. Spec => [](TypeOK /\ OnTime)
  BY TypeAndTimeInit, TypeAndTimeStep, PTL DEF Spec
<1>2. ASSUME TypeOK, OnTime
      PROVE  BoundedRetries
  <2>1. ASSUME NEW r \in Requests, Active(r)
        PROVE  now < req[r].deadline + Overrun
    <3>1. req[r] \in Request /\ now \in Nat /\ InTime(req[r])
      BY <1>2 DEF TypeOK, OnTime
    <3>2. req[r].timer \in Nat /\ req[r].deadline \in Nat
      BY <3>1 DEF Request
    <3>3. req[r].pc \in {"scan", "reset", "clear", "await", "nap", "cool"}
      BY <2>1, <3>1 DEF Active, Request
    <3> QED BY <3>1, <3>2, <3>3, Durations DEF InTime
  <2> QED BY <2>1 DEF BoundedRetries
<1> QED BY <1>1, <1>2, PTL

(***************************************************************************)
(* DeadIsStored is not inductive: a reply that rate-limits an endpoint     *)
(* which died while the call was under way moves the memory's instant.     *)
(* The call was begun at most RequestTimeout before, hence the death's     *)
(* stored instant is still far enough ahead.                               *)
(***************************************************************************)
DiedInFlight ==
    \A r \in Requests, e \in Endpoints :
        Awaiting(r, e) /\ Dead(e) /\ e \notin robbed
            => req[r].timer + HardFailureCooldown < stored[e] + RequestTimeout + Second

\* What the assumptions say of the cooldowns, in the form the steps use.
LEMMA HealthDurations ==
    /\ HardFailureThreshold \in Nat /\ HardFailureThreshold > 0
    /\ HardFailureCooldown \in Nat /\ HardFailureCooldown > 0
    /\ RateLimitCooldown \in Nat
    /\ RequestTimeout \in Nat
    /\ Second \in Nat /\ Second > 0
    /\ RequestTimeout + RateLimitCooldown <= HardFailureCooldown
BY HealthAssumption, RoutingAssumption DEF HealthAssumption, RoutingAssumption

\* A reply touches its endpoint's record at most, in one of four ways.
LEMMA ReplyEffects ==
    ASSUME NEW r \in Requests, NEW e \in Endpoints, Reply(r, e)
    PROVE  /\ Awaiting(r, e)
           /\ \/ HardFailure(e)
              \/ Answers(e) \/ AnswersRateLimited(e) \/ RateLimits(e)
              \/ UNCHANGED <<health, store>>
BY DEF Reply, TransportFailure, BrokenReply, UsableReply, SubmissionRefused,
       MissingState, RateLimited, Transient, ErrorStatusMissingState,
       ErrorStatusRateLimited, BadRequest, TooManyRequests, UnexpectedStatus

\* What an endpoint's record looks like to the calls under way.
LEMMA CallsUnderWay ==
    ASSUME TypeOK, OnTime, NEW r \in Requests, NEW e \in Endpoints, Awaiting(r, e)
    PROVE  /\ now \in Nat /\ req[r].timer \in Nat
           /\ now <= req[r].timer /\ req[r].timer <= now + RequestTimeout
BY DEF TypeOK, OnTime, InTime, Awaiting, Request

\* The type of one endpoint's record and stored instant.
LEMMA HealthTyped ==
    ASSUME TypeOK, NEW e \in Endpoints
    PROVE  /\ health[e] \in Health /\ stored[e] \in Instant
           /\ health[e].failures \in Nat /\ health[e].until \in Int /\ stored[e] \in Int
BY DEF TypeOK, Health, Instant, NoInstant

\* The death of f is in the store's map, far enough ahead for every call.
DeathKept(f) ==
    Dead(f) /\ f \notin robbed =>
        /\ health[f].until # NoInstant /\ health[f].until < stored[f] + Second
        /\ \A r \in Requests : Awaiting(r, f) =>
              req[r].timer + HardFailureCooldown < stored[f] + RequestTimeout + Second

\* Calls under way stay as they are, or end: what a step must leave alone for
\* a kept death to stay kept.
FewerCalls ==
    \A r \in Requests, f \in Endpoints :
        Awaiting(r, f)' => Awaiting(r, f) /\ req'[r] = req[r]

\* DeadIsStored and DiedInFlight, endpoint by endpoint.
LEMMA AllDeathsKept ==
    DeadIsStored /\ DiedInFlight <=> \A f \in Endpoints : DeathKept(f)
BY DEF DeadIsStored, DiedInFlight, DeathKept

\* A step that leaves the endpoint alone keeps its death.
LEMMA UntouchedDeath ==
    ASSUME NEW f \in Endpoints, DeathKept(f), FewerCalls,
           health'[f] = health[f], stored'[f] = stored[f],
           f \in robbed' <=> f \in robbed
    PROVE  DeathKept(f)'
BY DEF DeathKept, Dead, FewerCalls

\* After a transport failure, a dead endpoint's death is in the store.
LEMMA HardFailureDeath ==
    ASSUME TypeOK, OnTime, FewerCalls, NEW e \in Endpoints, HardFailure(e),
           NEW f \in Endpoints, DeathKept(f)
    PROVE  DeathKept(f)'
<1>0. HardFailure(e) =>
         \/ UNCHANGED store
         \/ Stores([stored EXCEPT ![e] = WholeSecond(now) + HardFailureCooldown])
            /\ robbed' = robbed \ {e}
  BY DEF HardFailure, MarkDead
<1>1. CASE f # e
  <2>1. health'[f] = health[f] /\ stored'[f] = stored[f] /\ (f \in robbed' <=> f \in robbed)
    BY <1>0, <1>1 DEF HardFailure, Stores, store, TypeOK
  <2> QED BY <2>1, UntouchedDeath
<1>2. CASE f = e
  <2>0. SUFFICES ASSUME Dead(e)'
                 PROVE  DeathKept(e)'
    BY <1>2 DEF DeathKept
  <2>1. health'[e] = MarkHardFailure(health[e], now) /\ now \in Nat
    BY DEF HardFailure, TypeOK
  <2>2. health'[e].failures = health[e].failures + 1
    BY <2>1 DEF MarkHardFailure
  <2>3. ReachesThreshold(health[e].failures + 1)
    BY <2>0, <2>2 DEF Dead, ReachesThreshold
  <2>4. /\ health'[e].until = now + HardFailureCooldown
        /\ stored'[e] = WholeSecond(now) + HardFailureCooldown
    BY <2>1, <2>3 DEF MarkHardFailure, HardFailure, MarkDead, Stores, TypeOK
  <2>5. /\ WholeSecond(now) \in Nat /\ WholeSecond(now) <= now
        /\ now < WholeSecond(now) + Second
    BY <2>1, WholeSecondBounds
  <2>6. ASSUME NEW r \in Requests, Awaiting(r, e)'
        PROVE  req'[r].timer \in Nat /\ req'[r].timer <= now + RequestTimeout
    BY <2>6, CallsUnderWay DEF FewerCalls
  <2>7. health'[e].until # NoInstant /\ health'[e].until < stored'[e] + Second
    BY <2>1, <2>4, <2>5, HealthDurations DEF NoInstant
  <2>8. \A r \in Requests : Awaiting(r, e)' =>
           req'[r].timer + HardFailureCooldown < stored'[e] + RequestTimeout + Second
    BY <2>1, <2>4, <2>5, <2>6, HealthDurations
  <2> QED BY <2>7, <2>8 DEF DeathKept
<1> QED BY <1>1, <1>2

\* After any other reply, a dead endpoint's death is still in the store.
LEMMA OtherReplyDeath ==
    ASSUME TypeOK, OnTime, FewerCalls, NEW s \in Requests, NEW e \in Endpoints, Awaiting(s, e),
           Answers(e) \/ AnswersRateLimited(e) \/ RateLimits(e),
           NEW f \in Endpoints, DeathKept(f)
    PROVE  DeathKept(f)'
<1>0. stored' = stored /\ robbed' = robbed
  BY DEF Answers, AnswersRateLimited, RateLimits, store
<1>1. CASE f # e
  <2>1. health'[f] = health[f]
    BY <1>1 DEF Answers, AnswersRateLimited, RateLimits, TypeOK
  <2> QED BY <1>0, <2>1, UntouchedDeath
<1>2. CASE f = e
  <2>0. SUFFICES ASSUME Dead(e)', e \notin robbed
                 PROVE  DeathKept(e)'
    BY <1>0, <1>2 DEF DeathKept
  <2>1. ~Answers(e) /\ ~AnswersRateLimited(e)
    <3>1. health'[e].failures >= HardFailureThreshold
      BY <2>0 DEF Dead
    <3>3. Answers(e) => health'[e] = ClearFailures(health[e])
      BY DEF Answers, TypeOK
    <3>4. AnswersRateLimited(e) => health'[e] = MarkRateLimited(ClearFailures(health[e]), now)
      BY DEF AnswersRateLimited, TypeOK
    <3>5. /\ ClearFailures(health[e]).failures = 0
          /\ MarkRateLimited(ClearFailures(health[e]), now).failures = 0
      BY HealthTyped DEF ClearFailures, MarkRateLimited, Health
    <3>6. Answers(e) \/ AnswersRateLimited(e) => health'[e].failures = 0
      BY <3>3, <3>4, <3>5
    <3> QED BY <3>1, <3>6, HealthDurations
  <2>2. health'[e] = MarkRateLimited(health[e], now)
    BY <2>1 DEF RateLimits, TypeOK
  <2>3. /\ health'[e].failures = health[e].failures
        /\ health'[e].until = now + RateLimitCooldown
    BY <2>2, HealthTyped DEF MarkRateLimited, Health
  <2>4. Dead(e)
    BY <2>0, <2>3 DEF Dead
  <2>5. /\ req[s].timer + HardFailureCooldown < stored[e] + RequestTimeout + Second
        /\ \A r \in Requests : Awaiting(r, e) =>
              req[r].timer + HardFailureCooldown < stored[e] + RequestTimeout + Second
    BY <1>2, <2>0, <2>4 DEF DeathKept
  <2>6. now \in Nat /\ req[s].timer \in Nat /\ now <= req[s].timer
    BY CallsUnderWay
  <2>7. now + RateLimitCooldown < stored[e] + Second
    BY <2>5, <2>6, HealthDurations, HealthTyped
  <2>8. health'[e].until # NoInstant /\ health'[e].until < stored'[e] + Second
    BY <1>0, <2>3, <2>6, <2>7, HealthDurations DEF NoInstant
  <2>9. \A r \in Requests : Awaiting(r, e)' =>
            req'[r].timer + HardFailureCooldown < stored'[e] + RequestTimeout + Second
    BY <1>0, <2>5 DEF FewerCalls
  <2> QED BY <2>8, <2>9 DEF DeathKept
<1> QED BY <1>1, <1>2

\* A reset that finds the endpoint dead by another call has robbed it.
LEMMA ResetDeath ==
    ASSUME TypeOK, FewerCalls, NEW s \in Requests, NEW e \in Endpoints,
           ResetUntil(s, e) \/ ResetStore(s, e),
           NEW f \in Endpoints, DeathKept(f)
    PROVE  DeathKept(f)'
<1>1. Rob(e) /\ (Dead(f)' <=> Dead(f))
  BY DEF ResetUntil, ResetStore, Dead, TypeOK, Health
<1>2. CASE f # e
  <2>1. health'[f] = health[f] /\ stored'[f] = stored[f] /\ (f \in robbed' <=> f \in robbed)
    BY <1>1, <1>2 DEF ResetUntil, ResetStore, Rob, Stores, TypeOK
  <2> QED BY <2>1, UntouchedDeath
<1>3. CASE f = e
  BY <1>1, <1>3 DEF Rob, DeathKept
<1> QED BY <1>2, <1>3

\* refresh leaves a record as it is or clears its failures.
LEMMA RefreshedRecord ==
    ASSUME NEW h \in Health, now \in Nat
    PROVE  /\ Refresh(h, now) = h \/ Refresh(h, now).failures = 0
           /\ ~CoolingDown(h, now) /\ h.until # NoInstant => Refresh(h, now).failures = 0
BY DEF Refresh, FreshHealth, CoolingDown, Health, Instant, NoInstant

\* Looking at an endpoint of a pass kills none and unstores no death.
LEMMA NoDeathByPass ==
    ASSUME TypeOK, OnTime, DeadIsStored, DiedInFlight,
           NEW s \in Requests, NEW e \in Endpoints, Skip(s, e) \/ Attempt(s, e)
    PROVE  DeadIsStored' /\ DiedInFlight'
<1>1. now \in Nat /\ health[e] \in Health /\ req \in [Requests -> Request]
  BY HealthTyped DEF TypeOK
<1>2. \/ health' = health
      \/ health' = [health EXCEPT ![e] = Refresh(health[e], now)]
  BY DEF Skip, Attempt
<1>3. \A f \in Endpoints : Dead(f)' => Dead(f) /\ health'[f] = health[f]
  <2>1. SUFFICES ASSUME NEW f \in Endpoints, Dead(f)', health'[f] # health[f]
                 PROVE  FALSE
    BY DEF Dead
  <2>2. f = e /\ health'[e] = Refresh(health[e], now)
    BY <1>2, <2>1 DEF TypeOK
  <2>3. health'[e].failures = 0
    BY <1>1, <2>1, <2>2, RefreshedRecord
  <2> QED BY <2>1, <2>2, <2>3, HealthDurations DEF Dead
<1>4. stored' = stored /\ robbed' = robbed
  BY DEF Skip, Attempt, store
<1>5. DeadIsStored'
  BY <1>3, <1>4 DEF DeadIsStored
<1>6. ASSUME NEW r \in Requests, NEW f \in Endpoints, Awaiting(r, f)', Dead(f)', f \notin robbed
      PROVE  req'[r].timer + HardFailureCooldown < stored'[f] + RequestTimeout + Second
  <2>1. CASE r # s
    <3>1. req'[r] = req[r]
      BY <1>1, <2>1 DEF Skip, Attempt
    <3> QED BY <1>3, <1>4, <1>6, <3>1 DEF DiedInFlight, Awaiting
  <2>2. CASE r = s
    <3>1. Attempt(s, e)
      <4>1. ASSUME Skip(s, e)
            PROVE  req'[s].pc = "scan"
        <5>1. req'[s] = Skipping(req[s], e) /\ req[s].pc = "scan" /\ req[s] \in Request
          BY <1>1, <4>1 DEF Skip, Scanning
        <5> QED BY <5>1, SkippingType
      <4> QED BY <1>6, <2>2, <4>1 DEF Awaiting
    <3>2. f = e
      <4>1. req'[s] = Asking(req[s], e)
        BY <1>1, <3>1 DEF Attempt
      <4>2. req'[s].target = e
        BY <1>1, <4>1, AskingType
      <4> QED BY <1>6, <2>2, <4>2 DEF Awaiting
    <3>3. Dead(e) /\ health'[e] = health[e]
      BY <1>3, <1>6, <3>2
    <3>4. IsHealthy(health[e], now)
      BY <1>1, <3>1, <3>3, HealthTyped, HealthDurations
         DEF Attempt, Eligible, Admits, IsRateLimitedOnly, Dead
    <3>5. health[e].until # NoInstant
      BY <1>6, <3>2, <3>3 DEF DeadIsStored
    <3>6. health'[e] = Refresh(health[e], now)
      BY <3>1 DEF Attempt, TypeOK
    <3>7. health'[e].failures = 0
      BY <1>1, <3>4, <3>5, <3>6, RefreshedRecord DEF IsHealthy
    <3> QED BY <3>3, <3>7, HealthDurations DEF Dead
  <2> QED BY <2>1, <2>2
<1> QED BY <1>4, <1>5, <1>6 DEF DiedInFlight

\* A request that moves without starting a call.
LEMMA NoNewCall ==
    ASSUME TypeOK, NEW s \in Requests,
           \E q \in Request : q.pc # "await" /\ req' = [req EXCEPT ![s] = q]
    PROVE  FewerCalls
BY DEF TypeOK, Awaiting, FewerCalls

\* DeadIsStored and DiedInFlight together are inductive.
LEMMA DeathStep ==
    ASSUME TypeOK, OnTime, DeadIsStored, DiedInFlight, [Next]_vars
    PROVE  DeadIsStored' /\ DiedInFlight'
<1>0. \A f \in Endpoints : DeathKept(f)
  BY AllDeathsKept
<1>9. ASSUME \A f \in Endpoints : DeathKept(f)'
      PROVE  DeadIsStored' /\ DiedInFlight'
  BY <1>9 DEF DeathKept, DeadIsStored, DiedInFlight
<1>1. ASSUME UNCHANGED <<health, store>>, FewerCalls
      PROVE  DeadIsStored' /\ DiedInFlight'
  BY <1>0, <1>1, <1>9, UntouchedDeath DEF store
<1>2. ASSUME NEW s \in Requests, EndOfPass(s)
      PROVE  DeadIsStored' /\ DiedInFlight'
  <2>1. UNCHANGED <<health, store>>
    BY <1>2 DEF EndOfPass, DeadlinePassed, NextPass, EnterLastResort, ReturnLastError,
                Cool, GiveUp, WakeFromNap, WakeFromCooldown, Moves, Becomes
  <2>2. \E q \in Request : q.pc # "await" /\ req' = [req EXCEPT ![s] = q]
    BY <1>2, EndOfPassStep
  <2> QED BY <1>1, <2>1, <2>2, NoNewCall
<1>3. ASSUME NEW s \in Requests, NEW e \in Endpoints, Reply(s, e)
      PROVE  DeadIsStored' /\ DiedInFlight'
  <2>1. Awaiting(s, e) /\ FewerCalls
    BY <1>3, ReplyStep, NoNewCall, ReplyEffects
  <2>2. CASE UNCHANGED <<health, store>>
    BY <1>1, <2>1, <2>2
  <2>3. CASE HardFailure(e) \/ Answers(e) \/ AnswersRateLimited(e) \/ RateLimits(e)
    BY <1>0, <1>9, <2>1, <2>3, HardFailureDeath, OtherReplyDeath
  <2> QED BY <1>3, <2>2, <2>3, ReplyEffects
<1>10. ASSUME NEW s \in Requests, NEW e \in Endpoints, ResetUntil(s, e) \/ ResetStore(s, e)
       PROVE  DeadIsStored' /\ DiedInFlight'
  <2>1. FewerCalls
    BY <1>10, ResetStep, NoNewCall
  <2> QED BY <1>0, <1>9, <1>10, <2>1, ResetDeath
<1>4. ASSUME NEW s \in Requests, Serve(s)
      PROVE  DeadIsStored' /\ DiedInFlight'
  BY <1>2, <1>3, <1>4, <1>10, NoDeathByPass DEF Serve
<1>5. ASSUME NEW s \in Requests, ClientGone(s)
      PROVE  DeadIsStored' /\ DiedInFlight'
  <2>1. /\ Finished(req[s], "lost") \in Request
        /\ Finished(req[s], "lost").pc # "await"
    BY FinishedType DEF TypeOK
  <2>2. /\ req' = [req EXCEPT ![s] = Finished(req[s], "lost")]
        /\ UNCHANGED <<health, store>>
    BY <1>5 DEF ClientGone, Moves, Becomes
  <2> QED BY <1>1, <2>1, <2>2, NoNewCall
<1>6. ASSUME NEW s \in Requests, NEW kind \in Kinds, Begin(s, kind)
      PROVE  DeadIsStored' /\ DiedInFlight'
  <2> DEFINE p == [NoRequest EXCEPT !.kind = kind, !.deadline = now + OverallDeadline]
  <2>1. p \in Request
    <3>1. kind \in AllKinds /\ now + OverallDeadline \in Nat
      BY RoutingAssumption, Durations DEF RoutingAssumption, TypeOK
    <3> QED BY <3>1, NewRequestType
  <2>2. current \in Endpoints
    BY TotalPositive DEF TypeOK, Endpoints
  <2>3. StartPass(p, current) \in Request /\ StartPass(p, current).pc # "await"
    BY <2>1, <2>2, StartPassType
  <2>4. /\ req' = [req EXCEPT ![s] = StartPass(p, current)]
        /\ UNCHANGED <<health, store>>
    BY <1>6 DEF Begin, NextIndex
  <2> QED BY <1>1, <2>3, <2>4, NoNewCall
<1>7. CASE Restart
  <2>0. stored' \in [Endpoints -> Instant] /\ file \in [Endpoints -> Instant] /\ now \in Nat
    BY <1>7, RestartStep DEF TypeOK
  <2>1. ASSUME NEW e \in Endpoints, Dead(e)'
        PROVE  health'[e].until # NoInstant /\ health'[e].until < stored'[e] + Second
    <3>1. health'[e] = IF stored'[e] = NoInstant THEN FreshHealth
                       ELSE RestoreDeadUntil(now + (stored'[e] - WholeSecond(now)))
      BY <1>7, <2>0 DEF Restart, Restore
    <3>2. stored'[e] # NoInstant /\ health'[e].until = now + (stored'[e] - WholeSecond(now))
      BY <2>1, <3>1, HealthDurations DEF Dead, FreshHealth, RestoreDeadUntil
    <3>3. stored'[e] \in Nat
      BY <2>0, <3>2 DEF Instant
    <3> QED BY <2>0, <3>2, <3>3, WholeSecondBounds DEF NoInstant
  <2>2. \A r \in Requests : req'[r].pc # "await"
    BY <1>7, FinishedType DEF Restart, Active, TypeOK
  <2> QED BY <2>1, <2>2 DEF DeadIsStored, DiedInFlight, Awaiting
<1>8. CASE UNCHANGED vars \/ Tick \/ (\E e \in Endpoints, c \in LearntCoverages : ProbeFinds(e, c))
  BY <1>1, <1>8 DEF vars, Tick, ProbeFinds, Awaiting, FewerCalls
<1> QED BY <1>4, <1>5, <1>6, <1>7, <1>8 DEF Next

(***************************************************************************)
(* Every death reaches the store, for any number of concurrent requests    *)
(* and any order of their replies: 24 h outlasts a call plus a rate limit, *)
(* so no late 429 moves the memory's instant past the entry, and only a    *)
(* reset that overtakes the death takes the entry out.                     *)
(***************************************************************************)
THEOREM DeathsAreStored == Spec => []DeadIsStored
<1>1. ASSUME Init
      PROVE  DeadIsStored /\ DiedInFlight
  <2>1. stored \in [Endpoints -> Instant] /\ health = Restore(stored) /\ now = 0
    BY <1>1, TypeAndTimeInit DEF TypeOK, Init
  <2>2. ASSUME NEW e \in Endpoints, Dead(e)
        PROVE  health[e].until # NoInstant /\ health[e].until < stored[e] + Second
    <3>1. /\ stored[e] # NoInstant /\ stored[e] \in Nat
          /\ health[e].until = now + (stored[e] - WholeSecond(now))
      BY <2>1, <2>2, HealthDurations
         DEF Dead, Restore, FreshHealth, RestoreDeadUntil, Instant, NoInstant
    <3> QED BY <2>1, <3>1, WholeSecondBounds DEF NoInstant
  <2>3. DiedInFlight
    BY <1>1 DEF Init, DiedInFlight, Awaiting, NoRequest
  <2> QED BY <2>2, <2>3 DEF DeadIsStored
<1>2. Spec => [](TypeOK /\ OnTime /\ DeadIsStored /\ DiedInFlight)
  BY <1>1, TypeAndTimeInit, TypeAndTimeStep, DeathStep, PTL DEF Spec
<1> QED BY <1>2, PTL

\* A reply that revives the endpoint it comes from is an answer, ...
LEMMA ReplyRevives ==
    ASSUME TypeOK, OnTime, NEW r \in Requests, NEW e \in Endpoints, Reply(r, e),
           NEW f \in Endpoints, Quarantined(f), ~Quarantined(f)'
    PROVE  ByAnAnswer(r, f)
<1>1. now' = now /\ now \in Nat
  BY ReplyStep DEF TypeOK
<1>2. health'[f] # health[f]
  BY <1>1 DEF Quarantined, Dead
<1>3. f = e
  BY <1>2, ReplyEffects DEF HardFailure, Answers, AnswersRateLimited, RateLimits, TypeOK
<1>4. ~HardFailure(e)
  <2>0. SUFFICES ASSUME HardFailure(e)
                 PROVE  FALSE
    OBVIOUS
  <2>1. health'[e] = MarkHardFailure(health[e], now)
    BY <2>0 DEF HardFailure, TypeOK
  <2>2. ReachesThreshold(health[e].failures + 1) /\ health[e].failures + 1 >= HardFailureThreshold
    BY <1>3, HealthTyped, HealthDurations DEF Quarantined, Dead, ReachesThreshold
  <2>3. /\ health'[e].failures >= HardFailureThreshold
        /\ health'[e].until = now + HardFailureCooldown
    BY <2>1, <2>2 DEF MarkHardFailure
  <2>4. Quarantined(f)'
    BY <1>1, <1>3, <2>3, HealthDurations DEF Quarantined, Dead, CoolingDown, NoInstant
  <2> QED BY <2>4
<1>5. ~RateLimits(e)
  <2>0. SUFFICES ASSUME RateLimits(e)
                 PROVE  FALSE
    OBVIOUS
  <2>1. /\ health'[e].failures = health[e].failures
        /\ health'[e].until = now + RateLimitCooldown
    BY <2>0, HealthTyped DEF RateLimits, MarkRateLimited, TypeOK, Health
  <2>2. RateLimitCooldown \in Nat /\ RateLimitCooldown > 0
    BY HealthAssumption DEF HealthAssumption
  <2>3. Quarantined(f)'
    BY <1>1, <1>3, <2>1, <2>2 DEF Quarantined, Dead, CoolingDown, NoInstant
  <2> QED BY <2>3
<1>6. health' # health
  BY <1>2
<1>7. ByAnAnswer(r, e)
  BY <1>4, <1>5, <1>6
  DEF Reply, TransportFailure, BrokenReply, ErrorStatusMissingState,
      ErrorStatusRateLimited, TooManyRequests, UnexpectedStatus, ByAnAnswer
<1> QED BY <1>3, <1>7

\* ... looking at an endpoint wipes no cooldown that still runs, ...
LEMMA PassRevivesNobody ==
    ASSUME TypeOK, NEW r \in Requests, NEW e \in Endpoints, Skip(r, e) \/ Attempt(r, e),
           NEW f \in Endpoints, Quarantined(f)
    PROVE  Quarantined(f)'
<1>1. now' = now /\ now \in Nat
  BY DEF Skip, Attempt, TypeOK
<1>2. Refresh(health[f], now) = health[f]
  BY <1>1, HealthTyped DEF Quarantined, CoolingDown, Refresh
<1>3. \/ health' = health
      \/ health' = [health EXCEPT ![e] = Refresh(health[e], now)]
  BY DEF Skip, Attempt
<1>4. health'[f] = health[f]
  BY <1>2, <1>3 DEF TypeOK
<1> QED BY <1>1, <1>4 DEF Quarantined, Dead

\* ... a reset revives only the endpoint whose answer began it, ...
LEMMA ResetRevives ==
    ASSUME TypeOK, NEW r \in Requests, NEW e \in Endpoints,
           ResetUntil(r, e) \/ ResetStore(r, e),
           NEW f \in Endpoints, Quarantined(f), ~Quarantined(f)'
    PROVE  ByAnAnswer(r, f)
<1>1. now' = now
  BY DEF ResetUntil, ResetStore, Becomes
<1>2. health'[f] # health[f]
  BY <1>1 DEF Quarantined, Dead
<1>3. ResetUntil(r, e) /\ f = e
  BY <1>2 DEF ResetUntil, ResetStore, TypeOK
<1> QED BY <1>3 DEF ByAnAnswer

\* ... and a restart that finds the entry in the file revives nobody.
LEMMA OnlyForgettingRevives ==
    ASSUME TypeOK, Restart, NEW f \in Endpoints, file[f] > WholeSecond(now)
    PROVE  Quarantined(f)'
<1>1. /\ now' = now /\ now \in Nat /\ file[f] \in Int
      /\ WholeSecond(now) \in Nat
  BY WholeSecondBounds DEF Restart, TypeOK, Instant, NoInstant
<1>2. stored'[f] = file[f] /\ file[f] # NoInstant
  BY <1>1 DEF Restart, Stores, Unexpired, NoInstant
<1> DEFINE instant == now + (file[f] - WholeSecond(now))
<1>3. health'[f] = RestoreDeadUntil(instant)
  BY <1>2 DEF Restart, Restore
<1>4. instant \in Int /\ instant > now
  BY <1>1
<1> HIDE DEF instant
<1>5. health'[f].failures = HardFailureThreshold /\ health'[f].until = instant
  BY <1>3 DEF RestoreDeadUntil
<1> QED BY <1>1, <1>4, <1>5, HealthDurations
     DEF Quarantined, Dead, CoolingDown, NoInstant

\* Until its instant, only an answer of the endpoint itself, or a restart
\* whose file has lost the death, ends the quarantine of a dead endpoint,
\* whatever overlaps, hangs up, fails to be written or crashes.
THEOREM QuarantineHolds == Spec => OnlyAnswersRevive
<1>1. ASSUME TypeOK, OnTime, Next, NEW f \in Endpoints,
             Quarantined(f), ~Quarantined(f)', now' = now
      PROVE  (\E r \in Requests : ByAnAnswer(r, f)) \/ ByForgetting(f)
  <2>1. ~UNCHANGED <<now, health>>
    BY <1>1 DEF Quarantined, Dead
  <2>2. CASE Restart
    <3>1. file[f] \in Int /\ WholeSecond(now) \in Nat
      BY <1>1, WholeSecondBounds DEF TypeOK, Instant, NoInstant
    <3> QED BY <1>1, <2>2, <3>1, OnlyForgettingRevives DEF ByForgetting
  <2>3. CASE ~Restart
    <3>1. ASSUME NEW r \in Requests, ClientGone(r) \/ \E kind \in Kinds : Begin(r, kind)
          PROVE  FALSE
      BY <2>1, <3>1 DEF ClientGone, Moves, Becomes, Begin, NextIndex
    <3>2. ~Tick /\ ~\E e \in Endpoints, c \in LearntCoverages : ProbeFinds(e, c)
      BY <1>1, <2>1 DEF Tick, ProbeFinds, TypeOK
    <3>3. PICK r \in Requests : Serve(r)
      BY <1>1, <2>3, <3>1, <3>2 DEF Next
    <3>4. ~EndOfPass(r)
      BY <2>1 DEF EndOfPass, DeadlinePassed, NextPass, EnterLastResort, ReturnLastError,
                  Cool, GiveUp, WakeFromNap, WakeFromCooldown, Moves, Becomes
    <3>5. PICK e \in Endpoints : Reply(r, e) \/ ResetUntil(r, e) \/ ResetStore(r, e)
      BY <1>1, <3>3, <3>4, PassRevivesNobody DEF Serve
    <3> QED BY <1>1, <3>5, ReplyRevives, ResetRevives
  <2> QED BY <2>2, <2>3
<1>2. TypeOK /\ OnTime /\ [Next]_vars
        => [\A e \in Endpoints :
              Quarantined(e) /\ ~Quarantined(e)' /\ now' = now
                => (\E r \in Requests : ByAnAnswer(r, e)) \/ ByForgetting(e)]_vars
  BY <1>1
<1>3. Spec => [](TypeOK /\ OnTime)
  BY TypeAndTimeInit, TypeAndTimeStep, PTL DEF Spec
<1> QED BY <1>2, <1>3, PTL DEF Spec, OnlyAnswersRevive

\* The request that starts a call is the one that found the endpoint eligible.
LEMMA AsksByAttempt ==
    ASSUME TypeOK, OnTime, Next, NEW r \in Requests, NEW e \in Endpoints, Asks(r, e)
    PROVE  Attempt(r, e)
<1>1. ASSUME NEW s \in Requests,
             \E q \in Request : q.pc # "await" /\ req' = [req EXCEPT ![s] = q]
      PROVE  FALSE
  BY <1>1, NoNewCall DEF Asks, Awaiting, FewerCalls
<1>2. ASSUME NEW s \in Requests, EndOfPass(s)
      PROVE  FALSE
  BY <1>1, <1>2, EndOfPassStep
<1>3. ASSUME NEW s \in Requests, NEW f \in Endpoints, Reply(s, f)
      PROVE  FALSE
  BY <1>1, <1>3, ReplyStep
<1>4. ASSUME NEW s \in Requests, NEW f \in Endpoints, Skip(s, f)
      PROVE  FALSE
  <2>1. req[s] \in Request
    BY DEF TypeOK
  <2>2. Skipping(req[s], f) \in Request /\ Skipping(req[s], f).pc # "await"
    BY <1>4, <2>1, SkippingType DEF Skip, Scanning
  <2>3. req' = [req EXCEPT ![s] = Skipping(req[s], f)]
    BY <1>4 DEF Skip
  <2> QED BY <1>1, <2>2, <2>3
<1>11. ASSUME NEW s \in Requests, NEW f \in Endpoints, ResetUntil(s, f) \/ ResetStore(s, f)
       PROVE  FALSE
  BY <1>1, <1>11, ResetStep
<1>5. ASSUME NEW s \in Requests, ClientGone(s)
      PROVE  FALSE
  <2>1. Finished(req[s], "lost") \in Request /\ Finished(req[s], "lost").pc # "await"
    BY FinishedType DEF TypeOK
  <2> QED BY <1>1, <1>5, <2>1 DEF ClientGone, Moves, Becomes
<1>6. ASSUME NEW s \in Requests, NEW kind \in Kinds, Begin(s, kind)
      PROVE  FALSE
  BY <1>6 DEF Begin, NextIndex, Asks, TypeOK, StartPass, Request
<1>7. ~Tick /\ ~Restart /\ ~(\E f \in Endpoints, c \in LearntCoverages : ProbeFinds(f, c))
  BY FinishedType DEF Tick, ProbeFinds, Restart, Asks, TypeOK, Active
<1>8. PICK s \in Requests, f \in Endpoints : Attempt(s, f)
  BY <1>2, <1>3, <1>4, <1>5, <1>6, <1>7, <1>11 DEF Next, Serve
<1>9. s = r
  BY <1>8 DEF Attempt, Asks, TypeOK
<1>10. req'[r].target = f
  BY <1>8, <1>9, AskingType DEF Attempt, TypeOK
<1> QED BY <1>8, <1>9, <1>10 DEF Asks

(***************************************************************************)
(* Routing implements BoundedService: every step is an accepted request,   *)
(* the end of some requests, a passing tick or nothing to the client.      *)
(***************************************************************************)
Due(r) == IF Active(r) THEN req[r].deadline + Overrun ELSE 0

\* One request goes on, or ends.
LEMMA ServiceGoesOn ==
    ASSUME TypeOK, NEW r \in Requests, now' = now,
           NEW q \in Request, Continues(req[r], q), req' = [req EXCEPT ![r] = q]
    PROVE  [Service!Next]_(Service!vars)
<1>1. /\ req \in [Requests -> Request]
      /\ \A c \in Requests : c # r => req'[c] = req[c]
      /\ req'[r] = q
  BY DEF TypeOK
<1>2. CASE q.pc = "done"
  <2>1. Service!Finish({r})
    <3>1. \A c \in {r} : Phase(c) = "served"
      BY DEF Phase, Continues
    <3>2. [c \in Requests |-> Phase(c)]' =
             [c \in Requests |-> IF c \in {r} THEN "over" ELSE Phase(c)]
      BY <1>1, <1>2 DEF Phase
    <3>3. [c \in Requests |-> Due(c)]' =
             [c \in Requests |-> IF c \in {r} THEN 0 ELSE Due(c)]
      BY <1>1, <1>2 DEF Due, Active
    <3> QED BY <3>1, <3>2, <3>3 DEF Service!Finish, Due
  <2> QED BY <2>1 DEF Service!Next
<1>3. CASE q.pc # "done"
  <2>1. [c \in Requests |-> Phase(c)]' = [c \in Requests |-> Phase(c)]
    BY <1>1, <1>3 DEF Phase, Continues
  <2>2. [c \in Requests |-> Due(c)]' = [c \in Requests |-> Due(c)]
    BY <1>1, <1>3 DEF Due, Active, Continues
  <2> QED BY <2>1, <2>2 DEF Service!vars, Due
<1> QED BY <1>2, <1>3

\* Every step of the routing is a step of the bounded service, or a stutter.
LEMMA ServiceStep ==
    ASSUME TypeOK, OnTime, [Next]_vars
    PROVE  [Service!Next]_(Service!vars)
<1>1. ASSUME NEW r \in Requests, Serve(r)
      PROVE  [Service!Next]_(Service!vars)
  BY <1>1, ServeStep, ServiceGoesOn
<1>2. ASSUME NEW r \in Requests, ClientGone(r)
      PROVE  [Service!Next]_(Service!vars)
  <2>1. /\ Finished(req[r], "lost") \in Request
        /\ Continues(req[r], Finished(req[r], "lost"))
    BY <1>2, FinishedType DEF TypeOK, ClientGone, Waiting, Continues
  <2> QED BY <1>2, <2>1, ServiceGoesOn DEF ClientGone, Moves, Becomes
<1>3. ASSUME NEW r \in Requests, NEW kind \in Kinds, Begin(r, kind)
      PROVE  [Service!Next]_(Service!vars)
  <2> DEFINE p == [NoRequest EXCEPT !.kind = kind, !.deadline = now + OverallDeadline]
             q == StartPass(p, current)
  <2>1. kind \in AllKinds /\ now + OverallDeadline \in Nat /\ current \in Endpoints /\ now \in Nat
    BY RoutingAssumption, Durations, TotalPositive DEF RoutingAssumption, TypeOK, Endpoints
  <2>2. p \in Request /\ p.deadline = now + OverallDeadline
    BY <2>1, NewRequestType
  <2>3. req' = [req EXCEPT ![r] = q] /\ now' = now /\ req[r].pc = "idle"
    BY <1>3 DEF Begin, NextIndex
  <2> HIDE DEF p
  <2>4. q.pc = "scan" /\ q.deadline = now + OverallDeadline
    BY <2>1, <2>2, StartPassType
  <2> HIDE DEF q
  <2>5. /\ req'[r] = q
        /\ \A c \in Requests : c # r => req'[c] = req[c]
    BY <2>3 DEF TypeOK
  <2>6. [c \in Requests |-> Phase(c)]' =
           [[c \in Requests |-> Phase(c)] EXCEPT ![r] = "served"]
    BY <2>4, <2>5 DEF Phase
  <2>7. (now + OverallDeadline) + Overrun = now + (OverallDeadline + Overrun)
    BY <2>1, Durations
  <2>8. [c \in Requests |-> Due(c)]' =
           [[c \in Requests |-> Due(c)] EXCEPT ![r] = now + (OverallDeadline + Overrun)]
    BY <2>4, <2>5, <2>7 DEF Due, Active
  <2>9. Phase(r) = "waiting"
    BY <2>3 DEF Phase
  <2>10. Service!Accept(r)
    BY <2>3, <2>6, <2>8, <2>9 DEF Service!Accept, Due
  <2> QED BY <2>10 DEF Service!Next
<1>4. CASE Restart
  <2>0. PICK ended \in SUBSET Requests : \A c \in Requests : c \in ended <=> Active(c)
    <3> WITNESS {c \in Requests : Active(c)} \in SUBSET Requests
    <3> QED OBVIOUS
  <2>1. /\ now' = now
        /\ \A c \in Requests : req'[c] = IF Active(c) THEN Finished(req[c], "lost") ELSE req[c]
    BY <1>4 DEF Restart
  <2>2. \A c \in Requests : Active(c) => req'[c].pc = "done"
    BY <2>1, FinishedType DEF TypeOK
  <2>3. \A c \in ended : Phase(c) = "served"
    BY <2>0 DEF Phase, Active
  <2>4. [c \in Requests |-> Phase(c)]' =
           [c \in Requests |-> IF c \in ended THEN "over" ELSE Phase(c)]
    BY <2>0, <2>1, <2>2 DEF Phase
  <2>5. [c \in Requests |-> Due(c)]' =
           [c \in Requests |-> IF c \in ended THEN 0 ELSE Due(c)]
    BY <2>0, <2>1, <2>2 DEF Due, Active
  <2>6. Service!Finish(ended)
    BY <2>1, <2>3, <2>4, <2>5 DEF Service!Finish, Due
  <2> QED BY <2>6 DEF Service!Next
<1>5. CASE Tick
  <2>1. /\ now' = now + 1 /\ req' = req
        /\ \A c \in Requests : Active(c) => Waiting(c) /\ now < req[c].timer
    BY <1>5 DEF Tick
  <2>2. ASSUME NEW c \in Requests, Phase(c) = "served"
        PROVE  Active(c) /\ now + 1 < req[c].deadline + Overrun
    <3>1. req[c] \in Request /\ now \in Nat /\ InTime(req[c]) /\ Active(c)
      BY <2>2 DEF TypeOK, OnTime, Phase, Active
    <3>2. req[c].timer \in Nat /\ req[c].deadline \in Nat
      BY <3>1 DEF Request
    <3>3. req[c].pc \in {"await", "nap", "cool"} /\ now < req[c].timer
      BY <2>1, <3>1 DEF Waiting
    <3>4. req[c].timer < req[c].deadline + Overrun
      BY <3>1, <3>2, <3>3, Durations DEF InTime
    <3> QED BY <3>1, <3>2, <3>3, <3>4, Durations
  <2>3. \A c \in Requests : Phase(c) = "served" => now + 1 < Due(c)
    BY <2>2 DEF Due
  <2>4. [c \in Requests |-> Phase(c)]' = [c \in Requests |-> Phase(c)]
    BY <2>1 DEF Phase
  <2>5. [c \in Requests |-> Due(c)]' = [c \in Requests |-> Due(c)]
    BY <2>1 DEF Due, Active
  <2>6. Service!Pass
    BY <2>1, <2>3, <2>4, <2>5 DEF Service!Pass, Due
  <2> QED BY <2>6 DEF Service!Next
<1>6. CASE UNCHANGED vars \/ (\E e \in Endpoints, c \in LearntCoverages : ProbeFinds(e, c))
  <2>1. now' = now /\ req' = req
    BY <1>6 DEF vars, ProbeFinds
  <2>2. [c \in Requests |-> Phase(c)]' = [c \in Requests |-> Phase(c)]
    BY <2>1 DEF Phase
  <2>3. [c \in Requests |-> Due(c)]' = [c \in Requests |-> Due(c)]
    BY <2>1 DEF Due, Active
  <2> QED BY <2>1, <2>2, <2>3 DEF Service!vars, Due
<1> QED BY <1>1, <1>2, <1>3, <1>4, <1>5, <1>6 DEF Next

\* The routing implements BoundedService: a request under way is answered
\* or given up by its deadline plus one bounded overrun.
THEOREM RoutingServesInTime == Spec => ServesInTime
<1>1. Init => Service!Init
  BY DEF Init, Service!Init, Phase, Active, NoRequest
<1>2. Spec => [](TypeOK /\ OnTime)
  BY TypeAndTimeInit, TypeAndTimeStep, PTL DEF Spec
<1> QED BY <1>1, <1>2, ServiceStep, PTL DEF Spec, ServesInTime, Service!Spec

(***************************************************************************)
(* No request is stuck, the part of EveryRequestAnswered that is not about *)
(* fairness: in a pass, exactly one of the endpoints left is next, and at  *)
(* its end there is a way to go on, whatever latencies, replies, probes    *)
(* and crashes have made of the state.                                     *)
(***************************************************************************)
\* Different endpoints have different places in the rotation.
LEMMA OffsetsDiffer ==
    ASSUME NEW q \in Request, NEW e \in Endpoints, NEW f \in Endpoints
    PROVE  /\ Offset(q, e) \in Nat
           /\ Offset(q, e) = Offset(q, f) => e = f
<1> DEFINE n == Total
           s == q.start
<1>1. n \in Nat /\ n > 0 /\ s \in 0 .. n - 1 /\ e \in 0 .. n - 1 /\ f \in 0 .. n - 1
  BY TotalPositive DEF Request, Endpoints
<1> HIDE DEF n, s
<1>2. \A x \in 0 .. n - 1 :
        (x + n - s) % n = IF x + n - s < n THEN x + n - s ELSE x - s
  BY <1>1
<1>3. /\ (e + n - s) % n = IF e + n - s < n THEN e + n - s ELSE e - s
      /\ (f + n - s) % n = IF f + n - s < n THEN f + n - s ELSE f - s
  BY <1>1, <1>2
<1>4. (e + n - s) % n \in Nat /\ ((e + n - s) % n = (f + n - s) % n => e = f)
  BY <1>1, <1>3
<1> QED BY <1>4 DEF Offset, n, s

\* The order of a pass has a first endpoint, and only one.
LEMMA OneIsNext ==
    ASSUME NEW q \in Request, q.pending # {}
    PROVE  \E e \in Endpoints : IsNext(q, e) /\ \A f \in Endpoints : IsNext(q, f) => f = e
<1>1. /\ q.pending \subseteq Endpoints
      /\ \A e \in Endpoints : Latency[e] \in Nat /\ Offset(q, e) \in Nat
  BY RoutingAssumption, OffsetsDiffer DEF RoutingAssumption, Request
<1> DEFINE Covered == q.pending \cap q.preferred
           offset == [e \in Endpoints |-> Offset(q, e)]
<1>2. \E e \in q.pending : IsNext(q, e)
  <2>1. CASE Covered = {}
    <3>1. PICK e \in q.pending : \A f \in q.pending : offset[e] <= offset[f]
      <4>1. \A e \in q.pending : offset[e] \in Nat
        BY <1>1
      <4> HIDE DEF offset
      <4> QED BY <4>1, LeastBy
    <3> QED BY <1>1, <2>1, <3>1 DEF IsNext, Precedes
  <2>2. CASE Covered # {}
    <3>1. PICK m \in Covered : \A f \in Covered : Latency[m] <= Latency[f]
      <4>1. \A e \in Covered : Latency[e] \in Nat
        BY <1>1
      <4> HIDE DEF Covered
      <4> QED BY <2>2, <4>1, LeastBy
    <3> DEFINE Fastest == {e \in Covered : Latency[e] = Latency[m]}
    <3>2. PICK e \in Fastest : \A f \in Fastest : offset[e] <= offset[f]
      <4>1. Fastest # {} /\ \A x \in Fastest : offset[x] \in Nat
        BY <1>1
      <4> HIDE DEF Fastest, offset
      <4> QED BY <4>1, LeastBy
    <3>3. ASSUME NEW f \in q.pending, f \in q.preferred
          PROVE  Precedes(q, e, f)
      <4>1. Latency[e] < Latency[f] \/ f \in Fastest
        BY <1>1, <3>1, <3>3
      <4>2. f \in Fastest => Latency[e] = Latency[f] /\ Offset(q, e) <= Offset(q, f)
        BY <1>1, <3>2
      <4> QED BY <4>1, <4>2 DEF Precedes
    <3>4. \A f \in q.pending : f \notin q.preferred => Precedes(q, e, f)
      BY DEF Precedes
    <3> QED BY <3>3, <3>4 DEF IsNext
  <2> QED BY <2>1, <2>2
<1>3. ASSUME NEW e \in Endpoints, NEW f \in Endpoints, IsNext(q, e), IsNext(q, f)
      PROVE  e = f
  <2>1. Precedes(q, e, f) /\ Precedes(q, f, e)
    BY <1>3 DEF IsNext
  <2>2. Offset(q, e) = Offset(q, f)
    BY <1>1, <2>1 DEF Precedes
  <2> QED BY <2>2, OffsetsDiffer
<1> QED BY <1>1, <1>2, <1>3

\* The guards of Skip and Attempt, and of the actions of EndOfPass, in a scan.
WayOn(q) ==
    \/ Expired(q)
    \/ ~Expired(q) /\ \E e \in Endpoints :
          IsNext(q, e) /\ \A f \in Endpoints : IsNext(q, f) => f = e
    \/ ~Expired(q) /\ q.pending = {} /\ (q.attempted \/ ~q.lastResort \/ q.errBody)
    \/ ~Expired(q) /\ q.pending = {} /\ \E wait \in Waits :
          EndsInTime(q, wait) /\ \A other \in Waits : wait <= other
    \/ ~Expired(q) /\ q.pending = {} /\ \A wait \in Waits : ~EndsInTime(q, wait)

\* Whatever has become of endpoints and deadlines, a request in a pass has one
\* endpoint to look at next, or a way to end the pass; it is never stuck.
THEOREM NeverStuck == Spec => [](\A r \in Requests : req[r].pc = "scan" => WayOn(req[r]))
<1>1. ASSUME TypeOK, NEW r \in Requests
      PROVE  WayOn(req[r])
  <2> DEFINE q == req[r]
  <2>1. q \in Request /\ now \in Nat /\ q.deadline \in Nat
    BY <1>1 DEF TypeOK, Request
  <2>2. Waits \subseteq Nat
    BY <1>1, <2>1, HealthTyped DEF Waits, Cooling, CooldownRemaining
  <2>3. CASE q.pending # {}
    BY <2>1, <2>3, OneIsNext DEF WayOn
  <2>4. CASE q.pending = {} /\ Waits # {}
    <3>1. PICK wait \in Waits : \A other \in Waits : wait <= other
      BY <2>2, <2>4, LeastExists
    <3>2. CASE EndsInTime(q, wait)
      BY <2>4, <3>1, <3>2 DEF WayOn
    <3>3. CASE ~EndsInTime(q, wait)
      <4>1. \A other \in Waits : ~EndsInTime(q, other)
        BY <2>1, <2>2, <3>1, <3>3 DEF EndsInTime
      <4> QED BY <2>4, <4>1 DEF WayOn
    <3> QED BY <3>2, <3>3
  <2>5. CASE q.pending = {} /\ Waits = {}
    BY <2>5 DEF WayOn
  <2> QED BY <2>3, <2>4, <2>5
<1>2. TypeOK => \A r \in Requests : req[r].pc = "scan" => WayOn(req[r])
  BY <1>1
<1> QED BY <1>2, TypeCorrect, PTL

=============================================================================
