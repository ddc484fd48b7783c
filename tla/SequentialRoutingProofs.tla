---------------------- MODULE SequentialRoutingProofs ----------------------
(***************************************************************************)
(* Theorems about RequestRouting when clients keep one request open at a   *)
(* time, for any number of requests and endpoints: the properties that     *)
(* replies of overlapping requests break (README, section 4).              *)
(***************************************************************************)
EXTENDS RequestRoutingProofs, FiniteSetTheorems

OneAtATime == \A r, s \in Requests : Active(r) /\ Active(s) => r = s

(***************************************************************************)
(* DeathLasts is not inductive: an endpoint held dead must also look dead  *)
(* to the last resort, or it would be asked, and an answer would revive    *)
(* it; and no call may be under way to it.                                 *)
(***************************************************************************)
DeathHolds ==
    \A e \in Endpoints : stored[e] > now => Dead(e) /\ health[e].until >= stored[e]

CalledAlive ==
    \A r \in Requests, e \in Endpoints :
        Awaiting(r, e) \/ Resetting(r, e) => stored[e] <= now

\* Nobody fails an endpoint while its answer resets it.
ResetAlone ==
    /\ robbed = {}
    /\ \A r \in Requests, e \in Endpoints : Resetting(r, e) => ~Dead(e)

SequentialInv == OneAtATime /\ DeathHolds /\ CalledAlive /\ ResetAlone

\* A request arrives only when none is being served.
LEMMA BeginsAlone ==
    ASSUME MaxInFlight = 1, OneAtATime,
           NEW r \in Requests, NEW kind \in Kinds, Begin(r, kind)
    PROVE  \A s \in Requests : ~Active(s)
<1> SUFFICES ASSUME NEW s \in Requests, Active(s)
             PROVE  FALSE
  OBVIOUS
<1>1. {t \in Requests : Active(t)} = {s}
  BY DEF OneAtATime
<1>2. Cardinality({s}) = 1
  BY FS_Singleton
<1>3. Cardinality({t \in Requests : Active(t)}) < 1
  BY DEF Begin
<1> QED BY <1>1, <1>2, <1>3

\* Serving a request starts no other.
LEMMA ServesOnlyOne ==
    ASSUME TypeOK, OnTime, OneAtATime, NEW r \in Requests, Serve(r)
    PROVE  OneAtATime' /\ \A s \in Requests : s # r => ~Active(s) /\ req'[s] = req[s]
<1>1. PICK q \in Request : Continues(req[r], q) /\ req' = [req EXCEPT ![r] = q]
  BY ServeStep
<1>2. Active(r)
  BY <1>1 DEF Continues, Active
<1>3. \A s \in Requests : s # r => ~Active(s) /\ req'[s] = req[s]
  BY <1>1, <1>2 DEF OneAtATime, TypeOK
<1> QED BY <1>3 DEF OneAtATime, Active

\* What a reply that does not end the pass leaves of the request, ...
GoesOn(p, q, e) ==
    /\ q.pc \in {"scan", "nap"}
    /\ q.attempted = p.attempted /\ q.lastResort = p.lastResort
    /\ q.answered \in {p.answered, p.answered \cup {e}}

\* ... by the operators that the outcomes are made of, ...
LEMMA GoesOnBy ==
    ASSUME NEW p \in Request, NEW e \in Endpoints, now \in Nat
    PROVE  /\ \A q \in {p, Refused(p)} : GoesOn(p, Nap(q), e) /\ Nap(q).answered = p.answered
           /\ GoesOn(p, Resume(p), e) /\ Resume(p).answered = p.answered
           /\ \A q \in {AnsweredWithError(p, e), Refused(AnsweredWithError(p, e))} :
                 /\ GoesOn(p, Resume(q), e) /\ e \in Resume(q).answered
                 /\ GoesOn(p, [Resume(q) EXCEPT !.soft = @ + 1], e)
                 /\ e \in [Resume(q) EXCEPT !.soft = @ + 1].answered
BY DEF GoesOn, Nap, Resume, Refused, AnsweredWithError, Request

\* ... and what it has counted against the endpoint.
LEMMA ReplyGoesOn ==
    ASSUME TypeOK, NEW r \in Requests, NEW e \in Endpoints, Reply(r, e)
    PROVE  \/ req'[r].pc = "done"
           \/ UsableReply(r, e) /\ req'[r] = [req[r] EXCEPT !.pc = "reset"]
           \/ /\ GoesOn(req[r], req'[r], e)
              /\ e \in req'[r].answered \/ HardFailure(e) \/ RateLimits(e)
<1> DEFINE p == req[r]
           Good(q) == \/ q.pc = "done"
                      \/ UsableReply(r, e) /\ q = [p EXCEPT !.pc = "reset"]
                      \/ GoesOn(p, q, e) /\ (e \in q.answered \/ HardFailure(e) \/ RateLimits(e))
<1>1. p \in Request /\ now \in Nat
  BY DEF TypeOK
<1>2. ASSUME NEW result \in {"ok", "rpcError", "failed", "lost"}
      PROVE  Good(Finished(p, result))
  BY <1>1, FinishedType
<1>3. \E q : Good(q) /\ Becomes(r, q)
  <2>1. CASE TransportFailure(r, e) \/ BrokenReply(r, e)
    BY <1>1, <2>1, GoesOnBy DEF TransportFailure, BrokenReply
  <2>2. CASE SubmissionRefused(r, e) \/ BadRequest(r, e)
    <3> HIDE DEF Good
    <3> QED BY <1>2, <2>2 DEF SubmissionRefused, BadRequest
  <2>7. CASE UsableReply(r, e)
    <3>1. Becomes(r, [p EXCEPT !.pc = "reset"])
      BY <2>7 DEF UsableReply
    <3> QED BY <2>7, <3>1
  <2>3. CASE MissingState(r, e) \/ RateLimited(r, e)
    BY <1>1, <2>3, GoesOnBy DEF MissingState, RateLimited
  <2>4. CASE Transient(r, e)
    <3>1. Good([Resume(AnsweredWithError(p, e)) EXCEPT !.soft = @ + 1])
      BY <1>1, GoesOnBy
    <3> HIDE DEF Good
    <3> QED BY <1>2, <2>4, <3>1 DEF Transient
  <2>5. CASE ErrorStatusMissingState(r, e) \/ ErrorStatusRateLimited(r, e)
    BY <1>1, <2>5, GoesOnBy DEF ErrorStatusMissingState, ErrorStatusRateLimited
  <2>6. CASE TooManyRequests(r, e) \/ UnexpectedStatus(r, e)
    <3>1. \A q \in {p, Refused(p)} : GoesOn(p, Nap(q), e)
      BY <1>1, GoesOnBy
    <3> QED BY <2>6, <3>1 DEF TooManyRequests, UnexpectedStatus
  <2> QED BY <2>1, <2>2, <2>3, <2>4, <2>5, <2>6, <2>7 DEF Reply
<1>4. PICK q : Good(q) /\ req' = [req EXCEPT ![r] = q]
  BY <1>3 DEF Becomes
<1> QED BY <1>4 DEF TypeOK

\* A reply of an endpoint that is not held dead leaves every death as it is, ...
LEMMA DeathsHoldAtReply ==
    ASSUME TypeOK, OnTime, SequentialInv,
           NEW r \in Requests, NEW e \in Endpoints, Reply(r, e)
    PROVE  DeathHolds'
<1>1. now' = now /\ now \in Nat
  BY ReplyStep DEF TypeOK
<1>2. stored[e] <= now
  BY ReplyEffects DEF SequentialInv, CalledAlive
<1>3. ASSUME NEW f \in Endpoints, stored'[f] > now
      PROVE  Dead(f)' /\ health'[f].until >= stored'[f]
  <2>1. CASE f # e \/ UNCHANGED <<health, store>>
    <3>1. health'[f] = health[f] /\ stored'[f] = stored[f]
      BY <2>1, ReplyEffects
         DEF HardFailure, MarkDead, Stores, Answers, AnswersRateLimited, RateLimits,
             store, TypeOK
    <3> QED BY <1>3, <3>1 DEF SequentialInv, DeathHolds, Dead
  <2>2. CASE f = e /\ HardFailure(e)
    <3>1. ReachesThreshold(health[e].failures + 1)
      BY <1>1, <1>2, <1>3, <2>2, HealthTyped DEF HardFailure, store
    <3>2. /\ health'[e] = MarkHardFailure(health[e], now)
          /\ stored'[e] = WholeSecond(now) + HardFailureCooldown
      BY <2>2, <3>1 DEF HardFailure, MarkDead, Stores, TypeOK
    <3> QED BY <1>1, <2>2, <3>1, <3>2, HealthDurations, WholeSecondBounds
         DEF MarkHardFailure, ReachesThreshold, Dead
  <2>3. CASE f = e /\ (Answers(e) \/ AnswersRateLimited(e) \/ RateLimits(e))
    <3>1. stored'[e] = stored[e]
      BY <2>3 DEF Answers, AnswersRateLimited, RateLimits, store
    <3> QED BY <1>1, <1>2, <1>3, <2>3, <3>1, HealthTyped
  <2> QED BY <2>1, <2>2, <2>3, ReplyEffects
<1> QED BY <1>1, <1>3 DEF DeathHolds

\* ... and so does the rest of its reset, ...
LEMMA DeathsHoldAtReset ==
    ASSUME TypeOK, SequentialInv, NEW r \in Requests, NEW e \in Endpoints,
           ResetUntil(r, e) \/ ResetStore(r, e)
    PROVE  DeathHolds' /\ robbed' = {}
<1>1. now' = now /\ now \in Nat
  BY DEF ResetUntil, ResetStore, Becomes, TypeOK
<1>2. Resetting(r, e) /\ Rob(e)
  BY DEF ResetUntil, ResetStore, Resetting
<1>3. stored[e] <= now /\ ~Dead(e)
  BY <1>2 DEF SequentialInv, CalledAlive, ResetAlone
<1>4. ASSUME NEW f \in Endpoints, stored'[f] > now
      PROVE  health'[f] = health[f] /\ stored'[f] = stored[f]
  <2>1. stored'[e] = stored[e] \/ stored'[e] = NoInstant
    BY DEF ResetUntil, ResetStore, Stores, TypeOK
  <2>2. f # e
    BY <1>1, <1>3, <1>4, <2>1, HealthTyped DEF NoInstant
  <2> QED BY <2>2 DEF ResetUntil, ResetStore, Stores, TypeOK
<1>5. robbed' = {}
  BY <1>2, <1>3 DEF Rob, SequentialInv, ResetAlone
<1> QED BY <1>1, <1>4, <1>5 DEF SequentialInv, DeathHolds, Dead

\* ... and looking at the endpoints of a pass: no wipe comes too early.
LEMMA DeathsHoldInPass ==
    ASSUME TypeOK, OnTime, SequentialInv,
           NEW r \in Requests, NEW e \in Endpoints, Skip(r, e) \/ Attempt(r, e)
    PROVE  DeathHolds'
<1>1. stored' = stored /\ now' = now /\ now \in Nat
  BY DEF Skip, Attempt, TypeOK, store
<1>2. ASSUME NEW f \in Endpoints, stored[f] > now
      PROVE  health'[f] = health[f]
  <2>1. health[f].until > now /\ health[f].until \in Int
    BY <1>1, <1>2, HealthTyped DEF SequentialInv, DeathHolds
  <2>2. Refresh(health[f], now) = health[f]
    BY <1>1, <2>1 DEF Refresh
  <2>3. \/ health' = health
        \/ health' = [health EXCEPT ![e] = Refresh(health[e], now)]
    BY DEF Skip, Attempt
  <2> QED BY <2>2, <2>3 DEF TypeOK
<1> QED BY <1>1, <1>2 DEF SequentialInv, DeathHolds, Dead

\* An endpoint held dead is not eligible, not even as the last resort.
LEMMA HeldDeadNotEligible ==
    ASSUME TypeOK, DeathHolds, NEW q, NEW e \in Endpoints, Eligible(q, e)
    PROVE  stored[e] <= now
<1> SUFFICES ASSUME stored[e] > now
             PROVE  FALSE
  BY HealthTyped DEF TypeOK
<1>1. Dead(e) /\ health[e].until >= stored[e]
  BY DEF DeathHolds
<1>2. now \in Nat
  BY DEF TypeOK
<1>3. CoolingDown(health[e], now)
  BY <1>1, <1>2, HealthTyped DEF CoolingDown, NoInstant
<1>4. ~IsRateLimitedOnly(health[e])
  BY <1>1, HealthTyped, HealthDurations DEF IsRateLimitedOnly, Dead
<1> QED BY <1>3, <1>4 DEF Eligible, Admits, IsHealthy

\* The end of a pass leads to a pass, to a sleep, or to the request's end.
LEMMA EndOfPassGoesTo ==
    ASSUME TypeOK, NEW r \in Requests, EndOfPass(r)
    PROVE  req'[r].pc \in {"scan", "cool", "done"}
<1> DEFINE p == req[r]
<1>1. p \in Request /\ p.start \in Endpoints /\ req \in [Requests -> Request]
  BY DEF TypeOK, Request
<1>2. CASE DeadlinePassed(r) \/ ReturnLastError(r) \/ GiveUp(r)
  <2>1. \E result \in {"failed", "rpcError"} : req'[r] = Finished(p, result)
    BY <1>1, <1>2 DEF DeadlinePassed, ReturnLastError, GiveUp, Moves, Becomes
  <2> QED BY <1>1, <2>1, FinishedType
<1>3. ASSUME NEW q, NEW start, req'[r] = StartPass(q, start), q \in Request
      PROVE  req'[r].pc = "scan"
  BY <1>3 DEF StartPass, Request
<1>4. CASE NextPass(r)
  BY <1>1, <1>3, <1>4 DEF NextPass, Moves, Becomes
<1>5. CASE EnterLastResort(r)
  <2> DEFINE q == [p EXCEPT !.lastResort = TRUE]
  <2>1. q \in Request
    BY <1>1 DEF Request
  <2>2. req'[r] = StartPass(q, p.start)
    BY <1>1, <1>5 DEF EnterLastResort, Moves, Becomes
  <2> HIDE DEF q
  <2> QED BY <1>3, <2>1, <2>2
<1>6. CASE Cool(r)
  <2>1. PICK t : req'[r] = [p EXCEPT !.pc = "cool", !.timer = t]
    BY <1>1, <1>6 DEF Cool, Moves, Becomes
  <2> QED BY <1>1, <2>1 DEF Request
<1>7. CASE WakeFromNap(r)
  BY <1>1, <1>7, ResumeType DEF WakeFromNap, Moves, Becomes
<1>8. CASE WakeFromCooldown(r)
  BY <1>1, <1>3, <1>8, ResumeType DEF WakeFromCooldown, Moves, Becomes
<1> QED BY <1>2, <1>4, <1>5, <1>6, <1>7, <1>8 DEF EndOfPass

\* Serving a request calls no endpoint that is held dead, and resets none.
LEMMA CallsStayAlive ==
    ASSUME TypeOK, OnTime, SequentialInv, NEW r \in Requests, Serve(r)
    PROVE  CalledAlive' /\ ResetAlone'
<1>1. \A s \in Requests, f \in Endpoints : (Awaiting(s, f) \/ Resetting(s, f))' => s = r
  BY ServesOnlyOne DEF SequentialInv, Awaiting, Resetting, Active
<1>0. req \in [Requests -> Request] /\ req[r] \in Request
  BY DEF TypeOK
<1>6. robbed' = {}
  <2>1. robbed' \subseteq robbed
    <3>1. ASSUME NEW e \in Endpoints, Skip(r, e) \/ Attempt(r, e) \/ EndOfPass(r)
          PROVE  robbed' = robbed
      BY <3>1 DEF Skip, Attempt, EndOfPass, DeadlinePassed, NextPass, EnterLastResort,
                  ReturnLastError, Cool, GiveUp, WakeFromNap, WakeFromCooldown, Moves, store
    <3>2. ASSUME NEW e \in Endpoints, Reply(r, e)
          PROVE  robbed' \subseteq robbed
      BY <3>2, ReplyEffects
         DEF HardFailure, MarkDead, Answers, AnswersRateLimited, RateLimits, store
    <3>3. ASSUME NEW e \in Endpoints, ResetUntil(r, e) \/ ResetStore(r, e)
          PROVE  robbed' \subseteq robbed
      BY <3>3, DeathsHoldAtReset
    <3> QED BY <3>1, <3>2, <3>3, TotalPositive DEF Serve
  <2> QED BY <2>1 DEF SequentialInv, ResetAlone
<1>7. ASSUME req'[r].pc \notin {"await", "reset", "clear"}
      PROVE  CalledAlive' /\ ResetAlone'
  BY <1>1, <1>6, <1>7 DEF CalledAlive, ResetAlone, Awaiting, Resetting
<1>2. ASSUME NEW e \in Endpoints, Attempt(r, e)
      PROVE  CalledAlive' /\ ResetAlone'
  <2>1. stored[e] <= now
    BY <1>2, HeldDeadNotEligible DEF Attempt, SequentialInv
  <2>2. stored' = stored /\ now' = now
    BY <1>2 DEF Attempt, store
  <2>3. req'[r].target = e /\ req'[r].pc = "await"
    BY <1>2, AskingType DEF Attempt, TypeOK
  <2> QED BY <1>1, <1>6, <2>1, <2>2, <2>3 DEF CalledAlive, ResetAlone, Awaiting, Resetting
<1>3. ASSUME NEW e \in Endpoints, Skip(r, e)
      PROVE  CalledAlive' /\ ResetAlone'
  <2>1. Skipping(req[r], e).pc = "scan"
    BY <1>0, <1>3, SkippingType DEF Skip, Scanning
  <2>2. req'[r].pc = "scan"
    BY <1>0, <1>3, <2>1 DEF Skip
  <2> QED BY <1>7, <2>2
<1>4. ASSUME NEW e \in Endpoints, Reply(r, e)
      PROVE  CalledAlive' /\ ResetAlone'
  <2>1. CASE req'[r].pc \in {"done", "scan", "nap"}
    BY <1>7, <2>1
  <2>2. CASE UsableReply(r, e) /\ req'[r] = [req[r] EXCEPT !.pc = "reset"]
    <3>1. Awaiting(r, e) /\ Answers(e) /\ now' = now
      BY <2>2 DEF UsableReply, Becomes
    <3>2. req'[r].pc = "reset" /\ req'[r].target = e
      BY <1>0, <2>2, <3>1 DEF Awaiting, Request
    <3>3. stored' = stored /\ stored[e] <= now
      BY <3>1 DEF Answers, store, SequentialInv, CalledAlive
    <3>4. health'[e] = ClearFailures(health[e]) /\ health[e] \in Health
      BY <3>1 DEF Answers, TypeOK
    <3>5. health'[e].failures = 0
      BY <3>4 DEF ClearFailures, Health
    <3>6. ~Dead(e)'
      BY <3>5, HealthDurations DEF Dead
    <3> QED BY <1>1, <1>6, <3>1, <3>2, <3>3, <3>6
         DEF CalledAlive, ResetAlone, Awaiting, Resetting
  <2> QED BY <1>4, <2>1, <2>2, ReplyGoesOn DEF GoesOn
<1>5. CASE EndOfPass(r)
  <2>1. req'[r].pc \in {"scan", "cool", "done"}
    BY <1>5, EndOfPassGoesTo
  <2> QED BY <1>7, <2>1
<1>8. ASSUME NEW e \in Endpoints, ResetUntil(r, e)
      PROVE  CalledAlive' /\ ResetAlone'
  <2>1. req'[r].pc = "clear" /\ req'[r].target = e
    BY <1>0, <1>8 DEF ResetUntil, Becomes, Request
  <2>2. stored' = stored /\ now' = now /\ (Dead(e)' <=> Dead(e))
    BY <1>8 DEF ResetUntil, Becomes, Dead, TypeOK, Health
  <2>3. stored[e] <= now /\ ~Dead(e)
    BY <1>8 DEF ResetUntil, Resetting, SequentialInv, CalledAlive, ResetAlone
  <2> QED BY <1>1, <1>6, <2>1, <2>2, <2>3 DEF CalledAlive, ResetAlone, Awaiting, Resetting
<1>9. ASSUME NEW e \in Endpoints, ResetStore(r, e)
      PROVE  CalledAlive' /\ ResetAlone'
  <2>1. req'[r].pc = "done"
    BY <1>0, <1>9, FinishedType DEF ResetStore, Becomes
  <2> QED BY <1>7, <2>1
<1> QED BY <1>2, <1>3, <1>4, <1>5, <1>8, <1>9 DEF Serve

\* SequentialInv is kept by every step, ...
LEMMA SequentialStep ==
    ASSUME MaxInFlight = 1, TypeOK, OnTime, SequentialInv, [Next]_vars
    PROVE  SequentialInv'
<1> USE DEF SequentialInv
<1>1. ASSUME NEW r \in Requests, Serve(r)
      PROVE  SequentialInv'
  <2>1. DeathHolds'
    <3>1. CASE EndOfPass(r)
      <4>1. UNCHANGED <<now, health, stored>>
        BY <3>1 DEF EndOfPass, DeadlinePassed, NextPass, EnterLastResort, ReturnLastError,
                    Cool, GiveUp, WakeFromNap, WakeFromCooldown, Moves, Becomes, store
      <4> QED BY <4>1 DEF DeathHolds, Dead
    <3> QED BY <1>1, <3>1, DeathsHoldInPass, DeathsHoldAtReply, DeathsHoldAtReset DEF Serve
  <2> QED BY <1>1, <2>1, ServesOnlyOne, CallsStayAlive
<1>7. ASSUME UNCHANGED <<now, health, store>>, OneAtATime',
             \A s \in Requests : req'[s] = req[s] \/ req'[s].pc \in {"idle", "scan", "done"}
      PROVE  SequentialInv'
  BY <1>7 DEF DeathHolds, CalledAlive, ResetAlone, Awaiting, Resetting, Dead, store
<1>2. ASSUME NEW r \in Requests, ClientGone(r)
      PROVE  SequentialInv'
  <2>1. UNCHANGED <<now, health, store>> /\ req' = [req EXCEPT ![r] = Finished(req[r], "lost")]
    BY <1>2 DEF ClientGone, Moves, Becomes
  <2>2. /\ req'[r].pc = "done"
        /\ \A s \in Requests : s # r => req'[s] = req[s]
    BY <2>1, FinishedType DEF TypeOK
  <2>3. OneAtATime'
    BY <2>2 DEF OneAtATime, Active
  <2> QED BY <1>7, <2>1, <2>2, <2>3
<1>3. ASSUME NEW r \in Requests, NEW kind \in Kinds, Begin(r, kind)
      PROVE  SequentialInv'
  <2>1. UNCHANGED <<now, health, store>> /\ \A s \in Requests : s # r => req'[s] = req[s]
    BY <1>3 DEF Begin, NextIndex
  <2>2. \A s \in Requests : ~Active(s)
    BY <1>3, BeginsAlone
  <2>3. req'[r].pc = "scan"
    BY <1>3 DEF Begin, NextIndex, StartPass, TypeOK, Request
  <2>4. OneAtATime'
    BY <2>1, <2>2, <2>3 DEF OneAtATime, Active
  <2> QED BY <1>7, <2>1, <2>3, <2>4
<1>4. CASE Restart
  <2>1. \A r \in Requests : ~Active(r)'
    BY <1>4, FinishedType DEF Restart, Active, TypeOK
  <2>2. ASSUME NEW e \in Endpoints, stored'[e] > now
        PROVE  Dead(e)' /\ health'[e].until >= stored'[e]
    <3>1. stored'[e] \in Int /\ now \in Nat /\ WholeSecond(now) \in Nat /\ WholeSecond(now) <= now
      BY <1>4, RestartStep, WholeSecondBounds DEF TypeOK, Instant, NoInstant
    <3>2. health'[e] = RestoreDeadUntil(now + (stored'[e] - WholeSecond(now)))
      BY <1>4, <2>2, <3>1 DEF Restart, Restore, NoInstant
    <3> QED BY <3>1, <3>2, HealthDurations DEF RestoreDeadUntil, Dead
  <2>3. now' = now /\ robbed' = {}
    BY <1>4 DEF Restart
  <2> QED BY <2>1, <2>2, <2>3
       DEF OneAtATime, DeathHolds, CalledAlive, ResetAlone, Active, Awaiting, Resetting
<1>5. CASE Tick
  <2>1. /\ UNCHANGED <<health, stored, robbed, req>> /\ now' = now + 1 /\ now \in Nat
        /\ \A e \in Endpoints : stored[e] \in Int
    BY <1>5, HealthTyped DEF Tick, TypeOK, store
  <2>2. DeathHolds' /\ CalledAlive'
    BY <2>1 DEF DeathHolds, CalledAlive, Awaiting, Resetting, Dead
  <2> QED BY <2>1, <2>2 DEF OneAtATime, ResetAlone, Active, Resetting, Dead
<1>6. CASE UNCHANGED vars \/ (\E e \in Endpoints, c \in LearntCoverages : ProbeFinds(e, c))
  <2>1. UNCHANGED <<now, health, store, req>>
    BY <1>6 DEF vars, ProbeFinds
  <2> QED BY <1>7, <2>1 DEF OneAtATime, Active
<1> QED BY <1>1, <1>2, <1>3, <1>4, <1>5, <1>6 DEF Next

\* ... and holds of a new process: what it restores is held dead.
LEMMA SequentialInit ==
    ASSUME Init
    PROVE  SequentialInv
<1>1. /\ TypeOK /\ now = 0 /\ health = Restore(stored) /\ robbed = {}
      /\ \A r \in Requests : ~Active(r)
  BY TypeAndTimeInit DEF Init, NoRequest, Active
<1>2. ASSUME NEW e \in Endpoints, stored[e] > now
      PROVE  Dead(e) /\ health[e].until >= stored[e]
  <2>1. health[e] = RestoreDeadUntil(now + (stored[e] - WholeSecond(now)))
    BY <1>1, <1>2 DEF Restore, NoInstant
  <2>2. WholeSecond(now) \in Nat /\ WholeSecond(now) <= now
    BY <1>1, WholeSecondBounds
  <2> QED BY <1>1, <2>1, <2>2, HealthTyped, HealthDurations DEF RestoreDeadUntil, Dead
<1> QED BY <1>1, <1>2
     DEF SequentialInv, OneAtATime, DeathHolds, CalledAlive, ResetAlone, Active, Awaiting, Resetting

\* With one request at a time, what the health store holds dead the memory holds
\* dead for as long, through any replies, time-outs, hang-ups, lost writes and
\* crashes.
THEOREM DeathsLastOneAtATime ==
    ASSUME MaxInFlight = 1
    PROVE  Spec => []DeathLasts
<1>1. SequentialInv => DeathLasts
  BY DEF SequentialInv, DeathHolds, DeathLasts
<1>2. Spec => [](TypeOK /\ OnTime /\ SequentialInv)
  BY TypeAndTimeInit, TypeAndTimeStep, SequentialInit, SequentialStep, PTL DEF Spec
<1> QED BY <1>1, <1>2, PTL

\* With one request at a time, no request asks an endpoint that memory and store
\* hold dead, not even as its last resort.
THEOREM DeadAreNotAskedOneAtATime ==
    ASSUME MaxInFlight = 1
    PROVE  Spec => DeadAreNotAsked
<1>1. ASSUME TypeOK, OnTime, SequentialInv, Next
      PROVE  \A r \in Requests, e \in Endpoints :
                Asks(r, e) => ~(stored[e] > now /\ health[e].until >= stored[e])
  <2> TAKE r \in Requests, e \in Endpoints
  <2> HAVE Asks(r, e)
  <2>1. stored[e] <= now
    BY <1>1, AsksByAttempt, HeldDeadNotEligible DEF Attempt, SequentialInv
  <2> QED BY <1>1, <2>1, HealthTyped DEF TypeOK
<1>2. TypeOK /\ OnTime /\ SequentialInv /\ [Next]_vars
        => [\A r \in Requests, e \in Endpoints :
              Asks(r, e) => ~(stored[e] > now /\ health[e].until >= stored[e])]_vars
  BY <1>1
<1>3. Spec => [](TypeOK /\ OnTime /\ SequentialInv)
  BY TypeAndTimeInit, TypeAndTimeStep, SequentialInit, SequentialStep, PTL DEF Spec
<1> QED BY <1>2, <1>3, PTL DEF Spec, DeadAreNotAsked

(***************************************************************************)
(* NoEarlySurrender looks at the end of a pass only.  The strengthening:   *)
(* in a pass of the last resort that has asked nobody yet, each endpoint   *)
(* already passed, or never planned, is out of reach; and whoever the      *)
(* request no longer asks has answered it or has had its final attempt.    *)
(* It stays so, since no time passes within a pass and no other request is *)
(* served.                                                                 *)
(***************************************************************************)
OutOfReach(q, e) ==
    \/ e \in q.heard
    \/ e \in q.finals
    \/ e \in q.lacking
    \/ Dead(e) /\ CoolingDown(health[e], now)

Unasked(q) == q.pc = "scan" /\ q.lastResort /\ ~q.attempted

Surveyed ==
    \A r \in Requests : Unasked(req[r]) =>
        \A e \in Endpoints \ req[r].pending : OutOfReach(req[r], e)

CallsAreAttempts ==
    \A r \in Requests : req[r].pc \in {"await", "nap"} => req[r].attempted

Accounted(q) == q.answered \subseteq q.heard \cup q.finals

NoVerdictYet ==
    \A r \in Requests : Active(r) => req[r].result = "none" /\ Accounted(req[r])

SurveyInv == Surveyed /\ CallsAreAttempts /\ NoVerdictYet

\* What a request is like after a step that does not end it.
Same(p, q) == q.result = p.result /\ (Accounted(p) => Accounted(q))

Underway(p, q) ==
    /\ q \in Request /\ Same(p, q)
    /\ q.attempted /\ q.pc \in {"scan", "nap", "await", "reset"}

\* The request operators account for whom they rule out and give no verdict.
LEMMA SameRequest ==
    ASSUME NEW q \in Request, NEW e \in Endpoints, now \in Nat
    PROVE  /\ Same(q, Drop(q, e)) /\ Drop(q, e).lastResort = q.lastResort
           /\ Drop(q, e).attempted = q.attempted /\ Drop(q, e).answered = q.answered
           /\ Drop(q, e).pending = q.pending \ {e}
           /\ Same(q, Resume(q)) /\ Resume(q).attempted = q.attempted
           /\ Same(q, Nap(q)) /\ Nap(q).attempted = q.attempted
           /\ Same(q, AnsweredWithError(q, e))
           /\ AnsweredWithError(q, e).attempted = q.attempted
           /\ Same(q, Refused(q)) /\ Refused(q).attempted = q.attempted
BY DEF Same, Accounted, Drop, Resume, Nap, AnsweredWithError, Refused, Request

\* Passing over an endpoint rules nobody else out.
LEMMA SkippingIs ==
    ASSUME NEW q \in Request, NEW e \in Endpoints
    PROVE  /\ Same(q, Skipping(q, e))
           /\ Skipping(q, e).lastResort = q.lastResort
           /\ Skipping(q, e).attempted = q.attempted
           /\ Skipping(q, e).answered = q.answered
           /\ Skipping(q, e).pending = q.pending \ {e}
           /\ Skipping(q, e).heard = q.heard /\ Skipping(q, e).finals = q.finals
           /\ q.lacking \subseteq Skipping(q, e).lacking
           /\ ~Routable(q.kind, e) => e \in Skipping(q, e).lacking
<1> DEFINE d == Drop(q, e)
           lacking == IF Routable(q.kind, e) THEN d.lacking ELSE d.lacking \cup {e}
<1>1. d \in Request
  BY DropType
<1>2. /\ d.lastResort = q.lastResort /\ d.attempted = q.attempted
      /\ d.answered = q.answered /\ d.pending = q.pending \ {e}
      /\ d.heard = q.heard /\ d.finals = q.finals /\ d.lacking = q.lacking
      /\ d.result = q.result
  BY DEF Drop, Request
<1>3. Skipping(q, e) = [d EXCEPT !.lacking = lacking]
  BY DEF Skipping
<1>4. q.lacking \subseteq lacking /\ (~Routable(q.kind, e) => e \in lacking)
  BY <1>2
<1> HIDE DEF d, lacking
<1>5. /\ Skipping(q, e).lacking = lacking
      /\ Skipping(q, e).lastResort = d.lastResort /\ Skipping(q, e).attempted = d.attempted
      /\ Skipping(q, e).answered = d.answered /\ Skipping(q, e).pending = d.pending
      /\ Skipping(q, e).heard = d.heard /\ Skipping(q, e).finals = d.finals
      /\ Skipping(q, e).result = d.result
  BY <1>1, <1>3 DEF Request
<1> QED BY <1>2, <1>4, <1>5 DEF Same, Accounted

\* A pass that starts leaves out only endpoints that lack the state.
LEMMA StartPassSurveys ==
    ASSUME NEW q \in Request, NEW start \in Endpoints,
           NEW e \in Endpoints \ StartPass(q, start).pending
    PROVE  e \in StartPass(q, start).lacking
BY DEF StartPass, Request

\* It keeps the verdict and the account, and whether it is the last resort.
LEMMA SameStartPass ==
    ASSUME NEW q \in Request, NEW start \in Endpoints
    PROVE  Same(q, StartPass(q, start)) /\ StartPass(q, start).lastResort = q.lastResort
BY DEF Same, Accounted, StartPass, Request

\* After a call is begun, its pass counts as attempted, ...
LEMMA AskingIsAttempt ==
    ASSUME NEW q \in Request, NEW e \in Endpoints, now \in Nat
    PROVE  Underway(q, Asking(q, e))
<1> DEFINE d == Drop(q, e)
           answered == IF q.lastResort THEN d.answered \cup {e} ELSE d.answered
           finals == IF q.lastResort THEN d.finals \cup {e} ELSE d.finals
           t == now + RequestTimeout
<1>1. d \in Request /\ Same(q, d)
  BY DropType, SameRequest
<1>2. Asking(q, e) = [d EXCEPT !.pc = "await", !.target = e, !.timer = t,
                               !.attempted = TRUE, !.answered = answered,
                               !.finals = finals]
  BY DEF Asking
<1>3. Asking(q, e) \in Request
  BY AskingType
<1>5. Accounted(d) => answered \subseteq d.heard \cup finals
  BY DEF Accounted
<1> HIDE DEF d, answered, finals, t
<1>4. /\ Asking(q, e).attempted /\ Asking(q, e).pc = "await"
      /\ Asking(q, e).result = d.result /\ Asking(q, e).answered = answered
      /\ Asking(q, e).heard = d.heard /\ Asking(q, e).finals = finals
  BY <1>1, <1>2 DEF Request
<1>6. Accounted(d) => Accounted(Asking(q, e))
  BY <1>4, <1>5 DEF Accounted
<1> QED BY <1>1, <1>3, <1>4, <1>6 DEF Underway, Same

\* ... and its reply ends the request or leaves that as it is.
LEMMA ReplyUnderway ==
    ASSUME TypeOK, NEW r \in Requests, NEW e \in Endpoints, Reply(r, e), req[r].attempted
    PROVE  req'[r].pc = "done" \/ Underway(req[r], req'[r])
<1> DEFINE p == req[r]
           Good(q) == q.pc = "done" \/ Underway(p, q)
<1>1. p \in Request /\ now \in Nat
  BY DEF TypeOK
<1>2. ASSUME NEW q \in Request, Same(p, q), q.attempted
      PROVE  Good(Resume(q)) /\ Good(Nap(q))
  BY <1>1, <1>2, ResumeType, NapType, SameRequest DEF Underway, Same
<1>3. ASSUME NEW result \in {"ok", "rpcError", "failed", "lost"}
      PROVE  Good(Finished(p, result))
  BY <1>1, FinishedType
<1>4. /\ Good(Resume(p)) /\ Good(Nap(p))
      /\ Good(Resume(AnsweredWithError(p, e)))
      /\ Good(Resume(Refused(AnsweredWithError(p, e))))
      /\ Good(Nap(Refused(p)))
  <2>1. p.attempted /\ Same(p, p)
    BY DEF Same
  <2>2. /\ AnsweredWithError(p, e) \in Request /\ Same(p, AnsweredWithError(p, e))
        /\ AnsweredWithError(p, e).attempted
    BY <1>1, <2>1, AnsweredType, SameRequest
  <2>3. /\ Refused(p) \in Request /\ Same(p, Refused(p)) /\ Refused(p).attempted
    BY <1>1, <2>1, RefusedType, SameRequest
  <2>4. /\ Refused(AnsweredWithError(p, e)) \in Request
        /\ Same(p, Refused(AnsweredWithError(p, e)))
        /\ Refused(AnsweredWithError(p, e)).attempted
    BY <1>1, <2>2, RefusedType, SameRequest DEF Same
  <2> HIDE DEF Good
  <2> QED BY <1>1, <1>2, <2>1, <2>2, <2>3, <2>4
<1>5. Good([Resume(AnsweredWithError(p, e)) EXCEPT !.soft = @ + 1])
  <2> DEFINE q == Resume(AnsweredWithError(p, e))
  <2>1. q \in Request /\ q.pc = "scan" /\ Underway(p, q)
    BY <1>1, <1>4, AnsweredType, ResumeType
  <2> HIDE DEF q
  <2>2. q.soft + 1 \in Nat
    BY <2>1 DEF Request
  <2>3. Underway(p, [q EXCEPT !.soft = @ + 1])
    BY <2>1, <2>2 DEF Request, Underway, Same, Accounted
  <2> QED BY <2>3 DEF q
<1>8. Good([p EXCEPT !.pc = "reset"])
  BY <1>1 DEF Underway, Same, Accounted, Request
<1>6. \E q : Good(q) /\ Becomes(r, q)
  <2> HIDE DEF Good
  <2>1. CASE TransportFailure(r, e) \/ BrokenReply(r, e)
    BY <1>4, <2>1 DEF TransportFailure, BrokenReply
  <2>7. CASE UsableReply(r, e)
    BY <1>8, <2>7 DEF UsableReply
  <2>2. CASE SubmissionRefused(r, e) \/ BadRequest(r, e)
    BY <1>3, <2>2 DEF SubmissionRefused, BadRequest
  <2>3. CASE MissingState(r, e) \/ RateLimited(r, e)
    BY <1>4, <2>3 DEF MissingState, RateLimited
  <2>4. CASE Transient(r, e)
    <3>1. CASE p.soft + 1 >= MaxSoftRetries
      BY <1>3, <2>4, <3>1 DEF Transient
    <3>2. CASE ~(p.soft + 1 >= MaxSoftRetries)
      BY <1>5, <2>4, <3>2 DEF Transient
    <3> QED BY <3>1, <3>2
  <2>5. CASE ErrorStatusMissingState(r, e) \/ ErrorStatusRateLimited(r, e)
    BY <1>4, <2>5 DEF ErrorStatusMissingState, ErrorStatusRateLimited
  <2>6. CASE TooManyRequests(r, e) \/ UnexpectedStatus(r, e)
    BY <1>4, <2>6 DEF TooManyRequests, UnexpectedStatus
  <2> QED BY <2>1, <2>2, <2>3, <2>4, <2>5, <2>6, <2>7 DEF Reply
<1>7. PICK q : Good(q) /\ req' = [req EXCEPT ![r] = q]
  BY <1>6 DEF Becomes
<1> QED BY <1>7 DEF TypeOK

\* Within its pass a request that asks nobody passes over nobody in reach.
LEMMA SkipSurveys ==
    ASSUME TypeOK, OnTime, SurveyInv, NEW r \in Requests, NEW e \in Endpoints, Skip(r, e)
    PROVE  /\ req'[r].pc = "scan" /\ Same(req[r], req'[r])
           /\ Unasked(req'[r]) =>
                 \A f \in Endpoints \ req'[r].pending : OutOfReach(req[r], f)'
<1> DEFINE p == req[r]
<1>1. p \in Request /\ now \in Nat /\ p.pc = "scan" /\ Accounted(p)
  BY DEF TypeOK, Skip, Scanning, SurveyInv, NoVerdictYet, Active
<1>2. req'[r] = Skipping(p, e) /\ now' = now
  BY DEF Skip, TypeOK
<1>3. /\ req'[r].pc = "scan" /\ Same(p, req'[r])
      /\ req'[r].lastResort = p.lastResort /\ req'[r].attempted = p.attempted
      /\ req'[r].pending = p.pending \ {e}
      /\ req'[r].heard = p.heard /\ req'[r].finals = p.finals
      /\ p.lacking \subseteq req'[r].lacking
      /\ ~Routable(p.kind, e) => e \in req'[r].lacking
  BY <1>1, <1>2, SkippingType, SkippingIs
<1>4. ASSUME Unasked(req'[r]), NEW f \in Endpoints \ req'[r].pending
      PROVE  OutOfReach(req[r], f)'
  <2>1. Unasked(p)
    BY <1>1, <1>3, <1>4 DEF Unasked
  <2>2. OutOfReach(p, f) \/ f \in req'[r].lacking
    <3>1. CASE f = e
      <4>1. ~Eligible(p, e)
        BY DEF Skip
      <4>2. e \in p.answered => e \in p.heard \/ e \in p.finals
        BY <1>1 DEF Accounted
      <4> QED BY <1>3, <2>1, <3>1, <4>1, <4>2, HealthTyped, HealthDurations
           DEF Eligible, Admits, IsHealthy, IsRateLimitedOnly, OutOfReach, Unasked, Dead
    <3>2. CASE f # e
      BY <1>3, <1>4, <2>1, <3>2 DEF SurveyInv, Surveyed
    <3> QED BY <3>1, <3>2
  <2>3. CoolingDown(health[f], now) => health'[f] = health[f]
    <3>1. CoolingDown(health[f], now) => Refresh(health[f], now) = health[f]
      BY <1>1, HealthTyped DEF CoolingDown, Refresh
    <3>2. \/ health' = health
          \/ health' = [health EXCEPT ![e] = Refresh(health[e], now)]
      BY DEF Skip
    <3> QED BY <3>1, <3>2 DEF TypeOK
  <2> QED BY <1>2, <1>3, <2>2, <2>3 DEF OutOfReach, Dead
<1> QED BY <1>3, <1>4

\* A pass that begins has passed over nobody in reach.
LEMMA EndOfPassSurveys ==
    ASSUME TypeOK, OnTime, SurveyInv, NEW r \in Requests, EndOfPass(r)
    PROVE  \/ req'[r].pc = "done"
           \/ /\ Same(req[r], req'[r]) /\ req'[r].pc \in {"scan", "cool"}
              /\ Unasked(req'[r]) =>
                    \A f \in Endpoints \ req'[r].pending : OutOfReach(req[r], f)'
<1> DEFINE p == req[r]
<1>1. /\ p \in Request /\ now \in Nat /\ p.start \in Endpoints
      /\ req \in [Requests -> Request]
  BY DEF TypeOK, Request
<1>2. UNCHANGED <<now, health>>
  BY DEF EndOfPass, DeadlinePassed, NextPass, EnterLastResort, ReturnLastError,
         Cool, GiveUp, WakeFromNap, WakeFromCooldown, Moves, Becomes
<1>3. ASSUME NEW q \in Request, Same(p, q), NEW start \in Endpoints, req'[r] = StartPass(q, start)
      PROVE  /\ Same(p, req'[r]) /\ req'[r].pc = "scan"
             /\ \A f \in Endpoints \ req'[r].pending : OutOfReach(req[r], f)'
  <2>1. Same(p, req'[r]) /\ req'[r].pc = "scan"
    BY <1>3, SameStartPass, StartPassType DEF Same
  <2>2. \A f \in Endpoints \ req'[r].pending : f \in req'[r].lacking
    BY <1>3, StartPassSurveys
  <2> QED BY <2>1, <2>2 DEF OutOfReach
<1>4. CASE DeadlinePassed(r) \/ ReturnLastError(r) \/ GiveUp(r)
  <2>1. \E result \in {"failed", "rpcError"} : req'[r] = Finished(p, result)
    BY <1>1, <1>4 DEF DeadlinePassed, ReturnLastError, GiveUp, Moves, Becomes
  <2> QED BY <1>1, <2>1, FinishedType
<1>5. CASE NextPass(r)
  <2>1. req'[r] = StartPass(p, NextStart(p))
    BY <1>1, <1>5 DEF NextPass, Moves, Becomes
  <2> QED BY <1>1, <1>3, <2>1, NextStartType DEF Same
<1>6. CASE EnterLastResort(r)
  <2> DEFINE q == [p EXCEPT !.lastResort = TRUE]
  <2>1. q \in Request /\ Same(p, q)
    BY <1>1 DEF Request, Same, Accounted
  <2>2. req'[r] = StartPass(q, p.start)
    BY <1>1, <1>6 DEF EnterLastResort, Moves, Becomes
  <2> HIDE DEF q
  <2> QED BY <1>1, <1>3, <2>1, <2>2
<1>7. CASE Cool(r)
  <2>1. PICK t : req'[r] = [p EXCEPT !.pc = "cool", !.timer = t]
    BY <1>1, <1>7 DEF Cool, Moves, Becomes
  <2>2. req'[r].pc = "cool" /\ Same(p, req'[r])
    BY <1>1, <2>1 DEF Request, Same, Accounted
  <2> QED BY <2>2 DEF Unasked
<1>8. CASE WakeFromNap(r)
  <2>1. req'[r] = Resume(p) /\ p.attempted
    BY <1>1, <1>8 DEF WakeFromNap, Moves, Becomes, SurveyInv, CallsAreAttempts
  <2>2. Resume(p).pc = "scan" /\ Same(p, Resume(p)) /\ Resume(p).attempted = p.attempted
    BY <1>1, ResumeType, SameRequest, TotalPositive
  <2> QED BY <2>1, <2>2 DEF Unasked
<1>9. CASE WakeFromCooldown(r)
  <2>1. req'[r] = StartPass(Resume(p), NextStart(p))
    BY <1>1, <1>9 DEF WakeFromCooldown, Moves, Becomes
  <2>2. Resume(p) \in Request /\ Same(p, Resume(p))
    BY <1>1, ResumeType, SameRequest, TotalPositive
  <2> QED BY <1>1, <1>3, <2>1, <2>2, NextStartType
<1> QED BY <1>4, <1>5, <1>6, <1>7, <1>8, <1>9 DEF EndOfPass

\* Serving a request keeps the survey.
LEMMA ServeSurveys ==
    ASSUME TypeOK, OnTime, OneAtATime, SurveyInv, NEW r \in Requests, Serve(r)
    PROVE  SurveyInv'
<1> DEFINE p == req[r]
           Goes == /\ Same(p, req'[r])
                   /\ req'[r].pc \in {"await", "nap"} => req'[r].attempted
                   /\ Unasked(req'[r]) =>
                         \A f \in Endpoints \ req'[r].pending : OutOfReach(req[r], f)'
<1>1. /\ p \in Request /\ now \in Nat /\ Active(r) /\ req \in [Requests -> Request]
      /\ \A s \in Requests : s # r => ~Active(s) /\ ~Active(s)'
  <2>1. Active(r)
    BY ServeStep DEF Continues, Active
  <2> QED BY <2>1, ServesOnlyOne DEF TypeOK, Active
<1>2. p.result = "none" /\ Accounted(p)
  BY <1>1 DEF SurveyInv, NoVerdictYet
<1>3. req'[r].pc = "done" \/ Goes
  <2>1. CASE EndOfPass(r)
    BY <2>1, EndOfPassSurveys
  <2>2. ASSUME NEW e \in Endpoints, Skip(r, e)
        PROVE  Goes
    BY <2>2, SkipSurveys
  <2>3. ASSUME NEW e \in Endpoints, Attempt(r, e)
        PROVE  Goes
    <3>1. req'[r] = Asking(p, e)
      BY <1>1, <2>3 DEF Attempt
    <3> QED BY <1>1, <3>1, AskingIsAttempt DEF Underway, Unasked
  <2>4. ASSUME NEW e \in Endpoints, Reply(r, e)
        PROVE  req'[r].pc = "done" \/ Goes
    <3>1. p.attempted
      BY <2>4, ReplyEffects DEF Awaiting, SurveyInv, CallsAreAttempts
    <3> QED BY <2>4, <3>1, ReplyUnderway DEF Underway, Unasked
  <2>5. ASSUME NEW e \in Endpoints, ResetUntil(r, e)
        PROVE  Goes
    <3>1. req'[r] = [p EXCEPT !.pc = "clear"]
      BY <1>1, <2>5 DEF ResetUntil, Becomes
    <3>2. req'[r].pc = "clear" /\ Same(p, req'[r])
      BY <1>1, <3>1 DEF Same, Accounted, Request
    <3> QED BY <3>2 DEF Unasked
  <2>6. ASSUME NEW e \in Endpoints, ResetStore(r, e)
        PROVE  req'[r].pc = "done"
    BY <1>1, <2>6, FinishedType DEF ResetStore, Becomes
  <2> QED BY <2>1, <2>2, <2>3, <2>4, <2>5, <2>6 DEF Serve
<1>4. Surveyed'
  BY <1>1, <1>3 DEF Surveyed, Unasked, Active
<1>5. CallsAreAttempts'
  BY <1>1, <1>3 DEF CallsAreAttempts, Active
<1>6. NoVerdictYet'
  BY <1>1, <1>2, <1>3 DEF NoVerdictYet, Active, Same
<1> QED BY <1>4, <1>5, <1>6 DEF SurveyInv

\* The survey is kept by every step, ...
LEMMA SurveyStep ==
    ASSUME MaxInFlight = 1, TypeOK, OnTime, SequentialInv, SurveyInv, [Next]_vars
    PROVE  SurveyInv'
<1>1. ASSUME NEW r \in Requests, Serve(r)
      PROVE  SurveyInv'
  BY <1>1, ServeSurveys DEF SequentialInv
<1>2. ASSUME NEW r \in Requests, ClientGone(r)
      PROVE  SurveyInv'
  <2>1. /\ req' = [req EXCEPT ![r] = Finished(req[r], "lost")]
        /\ UNCHANGED <<now, health>>
    BY <1>2 DEF ClientGone, Moves, Becomes
  <2>2. req'[r].pc = "done" /\ \A s \in Requests : s # r => req'[s] = req[s]
    BY <2>1, FinishedType DEF TypeOK
  <2>3. \A s \in Requests, f \in Endpoints : s # r => (OutOfReach(req[s], f)' <=> OutOfReach(req[s], f))
    BY <2>1, <2>2 DEF OutOfReach, Dead
  <2> QED BY <2>2, <2>3 DEF SurveyInv, Surveyed, Unasked, CallsAreAttempts, NoVerdictYet, Active
<1>3. ASSUME NEW r \in Requests, NEW kind \in Kinds, Begin(r, kind)
      PROVE  SurveyInv'
  <2> DEFINE p == [NoRequest EXCEPT !.kind = kind, !.deadline = now + OverallDeadline]
  <2>1. kind \in AllKinds /\ now + OverallDeadline \in Nat /\ current \in Endpoints
    BY RoutingAssumption, Durations, TotalPositive DEF RoutingAssumption, TypeOK, Endpoints
  <2>2. p \in Request /\ ~p.lastResort /\ Accounted(p) /\ p.result = "none"
    BY <2>1, NewRequestType DEF NoRequest, Accounted
  <2>3. req' = [req EXCEPT ![r] = StartPass(p, current)]
    BY <1>3 DEF Begin, NextIndex
  <2> HIDE DEF p
  <2>4. /\ StartPass(p, current).pc = "scan" /\ ~StartPass(p, current).lastResort
        /\ Accounted(StartPass(p, current)) /\ StartPass(p, current).result = "none"
    BY <2>1, <2>2, StartPassType, SameStartPass DEF Same
  <2>5. \A s \in Requests : s # r => req'[s] = req[s] /\ ~Active(s)
    BY <1>3, <2>3, BeginsAlone DEF SequentialInv
  <2>6. req'[r] = StartPass(p, current)
    BY <2>3 DEF TypeOK
  <2> QED BY <2>4, <2>5, <2>6
       DEF SurveyInv, Surveyed, Unasked, CallsAreAttempts, NoVerdictYet, Active
<1>4. CASE Restart
  <2>1. \A r \in Requests : ~Active(r)'
    BY <1>4, FinishedType DEF Restart, Active, TypeOK
  <2> QED BY <2>1 DEF SurveyInv, Surveyed, Unasked, CallsAreAttempts, NoVerdictYet, Active
<1>5. CASE Tick
  <2>1. req' = req /\ \A r \in Requests : ~Unasked(req[r])
    BY <1>5 DEF Tick, Active, Waiting, Unasked
  <2> QED BY <2>1 DEF SurveyInv, Surveyed, Unasked, CallsAreAttempts, NoVerdictYet, Active
<1>6. CASE UNCHANGED vars \/ (\E e \in Endpoints, c \in LearntCoverages : ProbeFinds(e, c))
  <2>1. UNCHANGED <<now, health, req>>
    BY <1>6 DEF vars, ProbeFinds
  <2> QED BY <2>1 DEF SurveyInv, Surveyed, Unasked, CallsAreAttempts, NoVerdictYet, Active,
                      OutOfReach, Dead
<1> QED BY <1>1, <1>2, <1>3, <1>4, <1>5, <1>6 DEF Next

\* ... and holds of a new process.
LEMMA SurveyInit ==
    ASSUME Init
    PROVE  SurveyInv
BY DEF Init, NoRequest, SurveyInv, Surveyed, Unasked, CallsAreAttempts, NoVerdictYet, Active

\* A step that gives a scanning request its verdict in time ends it.
LEMMA VerdictEndsPass ==
    ASSUME TypeOK, OnTime, OneAtATime, SurveyInv, Next, NEW r \in Requests,
           Scanning(r), req'[r].result \in {"failed", "rpcError"}
    PROVE  ReturnLastError(r) \/ GiveUp(r)
<1> DEFINE p == req[r]
<1>1. p \in Request /\ now \in Nat /\ Active(r) /\ p.result = "none" /\ p.start \in Endpoints
  BY DEF TypeOK, Scanning, SurveyInv, NoVerdictYet, Active, Request
<1>2. req'[r] # p /\ ~Same(p, req'[r])
  BY <1>1 DEF Same
<1>10. req \in [Requests -> Request]
  BY DEF TypeOK
<1>3. ASSUME NEW s \in Requests, Serve(s)
      PROVE  s = r
  BY <1>2, <1>3, ServesOnlyOne
<1>4. \A e \in Endpoints : /\ ~Skip(r, e) /\ ~Attempt(r, e) /\ ~Reply(r, e)
                           /\ ~ResetUntil(r, e) /\ ~ResetStore(r, e)
  <2> TAKE e \in Endpoints
  <2>1. ~Skip(r, e)
    BY <1>2, SkipSurveys
  <2>2. Attempt(r, e) => req'[r] = Asking(p, e)
    BY DEF Attempt, TypeOK
  <2>3. ~Attempt(r, e)
    BY <1>1, <1>2, <2>2, AskingIsAttempt DEF Underway
  <2> QED BY <2>1, <2>3, ReplyEffects DEF Awaiting, Scanning, ResetUntil, ResetStore
<1>5. EndOfPass(r) => ReturnLastError(r) \/ GiveUp(r)
  <2>1. ~DeadlinePassed(r) /\ ~WakeFromNap(r) /\ ~WakeFromCooldown(r)
    BY DEF DeadlinePassed, Scanning, WakeFromNap, WakeFromCooldown
  <2>2. ~NextPass(r)
    BY <1>1, <1>2, SameStartPass, NextStartType DEF NextPass, Moves, Becomes, TypeOK
  <2>3. ~EnterLastResort(r)
    <3> DEFINE q == [p EXCEPT !.lastResort = TRUE]
    <3>1. q \in Request /\ Same(p, q)
      BY <1>1 DEF Request, Same, Accounted
    <3>2. EnterLastResort(r) => req'[r] = StartPass(q, p.start)
      BY DEF EnterLastResort, Moves, Becomes, TypeOK
    <3> HIDE DEF q
    <3> QED BY <1>1, <1>2, <3>1, <3>2, SameStartPass DEF Same
  <2>4. ~Cool(r)
    <3>1. SUFFICES ASSUME Cool(r)
                   PROVE  FALSE
      OBVIOUS
    <3>2. PICK t : req'[r] = [p EXCEPT !.pc = "cool", !.timer = t]
      BY <1>10, <3>1 DEF Cool, Moves, Becomes
    <3>3. req'[r].result = p.result
      BY <1>1, <3>2 DEF Request
    <3> QED BY <1>1, <3>3
  <2> QED BY <2>1, <2>2, <2>3, <2>4 DEF EndOfPass
<1>6. ~ClientGone(r) /\ \A kind \in Kinds : ~Begin(r, kind)
  BY DEF ClientGone, Waiting, Begin, Scanning
<1>7. \A s \in Requests : s # r => ~ClientGone(s) /\ \A kind \in Kinds : ~Begin(s, kind)
  BY <1>2 DEF ClientGone, Moves, Becomes, Begin, NextIndex, TypeOK
<1>8. ~Tick /\ \A e \in Endpoints, c \in LearntCoverages : ~ProbeFinds(e, c)
  BY <1>2 DEF Tick, ProbeFinds
<1>9. ~Restart
  BY <1>1 DEF Restart, Finished, NoRequest
<1> QED BY <1>3, <1>4, <1>5, <1>6, <1>7, <1>8, <1>9 DEF Next, Serve

(***************************************************************************)
(* With one request at a time, a request of any kind that ends before its  *)
(* deadline without an upstream's verdict has nobody left to ask: each     *)
(* endpoint has answered it, has had its final attempt, lacks the state,   *)
(* or is dead.                                                             *)
(***************************************************************************)
THEOREM NobodySurrendersEarly ==
    ASSUME MaxInFlight = 1
    PROVE  Spec => NoEarlySurrender
<1>1. ASSUME TypeOK, OnTime, SequentialInv, SurveyInv, Next, NEW r \in Requests,
             Scanning(r), req'[r].result \in {"failed", "rpcError"}, NEW e \in Endpoints
      PROVE  Hopeless(req[r], e)
  <2>1. /\ ReturnLastError(r) \/ GiveUp(r)
        /\ now \in Nat /\ req[r].deadline \in Nat
    BY <1>1, VerdictEndsPass DEF SequentialInv, TypeOK, Request
  <2>2. Unasked(req[r]) /\ req[r].pending = {}
    BY <2>1 DEF ReturnLastError, GiveUp, Exhausted, PassOver, Scanning, Unasked
  <2>3. OutOfReach(req[r], e)
    BY <1>1, <2>2 DEF SurveyInv, Surveyed
  <2>4. CASE ReturnLastError(r)
    BY <2>3, <2>4 DEF ReturnLastError, OutOfReach, Hopeless
  <2>5. CASE GiveUp(r)
    <3>1. CASE Dead(e) /\ CoolingDown(health[e], now)
      <4>1. health[e].until > now /\ e \in Cooling
        BY <1>1, <2>1, <3>1, HealthTyped DEF CoolingDown, Cooling
      <4>2. CooldownRemaining(health[e], now) = health[e].until - now
        BY <4>1 DEF CooldownRemaining
      <4>3. ~(now + (health[e].until - now) < req[r].deadline)
        BY <2>5, <4>1, <4>2 DEF GiveUp, Waits, EndsInTime
      <4>4. health[e].until >= req[r].deadline
        BY <1>1, <2>1, <4>3, HealthTyped
      <4> QED BY <3>1, <4>4 DEF Hopeless
    <3> QED BY <2>3, <3>1 DEF OutOfReach, Hopeless
  <2> QED BY <2>1, <2>4, <2>5
<1>2. TypeOK /\ OnTime /\ SequentialInv /\ SurveyInv /\ [Next]_vars
        => [\A r \in Requests :
              Scanning(r) /\ req'[r].result \in {"failed", "rpcError"}
                 => \A e \in Endpoints : Hopeless(req[r], e)]_vars
  BY <1>1
<1>3. Spec => [](TypeOK /\ OnTime /\ SequentialInv /\ SurveyInv)
  BY TypeAndTimeInit, TypeAndTimeStep, SequentialInit, SequentialStep,
     SurveyInit, SurveyStep, PTL DEF Spec
<1> QED BY <1>2, <1>3, PTL DEF Spec, NoEarlySurrender

(***************************************************************************)
(* EveryStepCounts needs to know, of a call under way, what it was begun   *)
(* with: its pass counts as attempted, and either it is the endpoint's     *)
(* last resort, already listed as answered, or the endpoint had no         *)
(* cooldown.  One request at a time, nothing changes that until the reply. *)
(***************************************************************************)
CalledWell ==
    \A r \in Requests, e \in Endpoints : Awaiting(r, e) =>
        IF req[r].lastResort THEN e \in req[r].answered
                             ELSE e \notin req[r].answered /\ health[e].until = NoInstant

CallInv == CallsAreAttempts /\ CalledWell

\* The calls that an endpoint's record leaves to a request.
LEMMA CallsLeftIs ==
    ASSUME now \in Nat, NEW q, NEW e \in Endpoints, NEW h \in Health,
           h.failures >= HardFailureThreshold => h.until # NoInstant
    PROVE  /\ CallsLeft(q, e, h) \in Nat
           /\ Spent(q, e) => CallsLeft(q, e, h) = 0
           /\ ~Spent(q, e) /\ CoolingDown(h, now) =>
                 CallsLeft(q, e, h) = IF IsRateLimitedOnly(h) THEN 1 ELSE 0
           /\ ~Spent(q, e) /\ ~CoolingDown(h, now) => CallsLeft(q, e, h) >= 2
           /\ ~Spent(q, e) /\ h.until = NoInstant =>
                 CallsLeft(q, e, h) = 1 + HardFailureThreshold - h.failures
           /\ CallsLeft(q, e, Refresh(h, now)) = CallsLeft(q, e, h)
<1>1. h.failures \in Nat /\ h.until \in Int /\ HardFailureThreshold \in Nat /\ HardFailureThreshold > 0
  BY HealthDurations DEF Health, Instant, NoInstant
<1>2. CASE Spent(q, e)
  BY <1>2 DEF CallsLeft
<1>3. CASE ~Spent(q, e) /\ CoolingDown(h, now)
  <2>1. Refresh(h, now) = h /\ h.until # NoInstant
    BY <1>1, <1>3 DEF Refresh, CoolingDown
  <2> QED BY <1>3, <2>1 DEF CallsLeft
<1>4. CASE ~Spent(q, e) /\ ~CoolingDown(h, now)
  <2> DEFINE fresh == Refresh(h, now)
  <2>1. fresh.until = NoInstant /\ fresh.failures \in Nat /\ fresh.failures < HardFailureThreshold
    BY <1>1, <1>4 DEF Refresh, CoolingDown, FreshHealth, NoInstant
  <2>2. Refresh(fresh, now) = fresh /\ ~CoolingDown(fresh, now)
    BY <2>1 DEF Refresh, CoolingDown
  <2>3. h.until = NoInstant => fresh = h
    BY DEF Refresh
  <2>4. /\ CallsLeft(q, e, h) = 1 + HardFailureThreshold - fresh.failures
        /\ CallsLeft(q, e, fresh) = 1 + HardFailureThreshold - fresh.failures
    BY <1>4, <2>2 DEF CallsLeft
  <2> HIDE DEF fresh
  <2> QED BY <1>1, <1>4, <2>1, <2>3, <2>4 DEF fresh
<1> QED BY <1>2, <1>3, <1>4

\* In reachable states the lemma applies to every endpoint.
LEMMA CallsLeftNow ==
    ASSUME TypeOK, DeadIsStored, robbed = {}, NEW e \in Endpoints
    PROVE  /\ now \in Nat /\ health[e] \in Health
           /\ health[e].failures >= HardFailureThreshold => health[e].until # NoInstant
BY HealthTyped DEF TypeOK, DeadIsStored, Dead

\* An endpoint that is neither asked nor answers keeps the calls it has left.
LEMMA CallsKept ==
    ASSUME TypeOK, DeadIsStored, robbed = {}, NEW r \in Requests, NEW e \in Endpoints,
           Spent(req'[r], e) <=> Spent(req[r], e),
           health'[e] \in {health[e], Refresh(health[e], now)}
    PROVE  /\ CallsLeft(req'[r], e, health'[e]) = CallsLeft(req[r], e, health[e])
           /\ CallsLeft(req[r], e, health[e]) \in Nat
<1>1. CallsLeft(req'[r], e, health'[e]) = CallsLeft(req[r], e, health'[e])
  BY DEF CallsLeft
<1>2. /\ CallsLeft(req[r], e, Refresh(health[e], now)) = CallsLeft(req[r], e, health[e])
      /\ CallsLeft(req[r], e, health[e]) \in Nat
  BY CallsLeftIs, CallsLeftNow
<1> QED BY <1>1, <1>2

\* Skipping an endpoint shortens the pass.
LEMMA SkipCounts ==
    ASSUME TypeOK, DeadIsStored, robbed = {}, NEW r \in Requests, NEW e \in Endpoints, Skip(r, e)
    PROVE  StepCounts(r)
<1> DEFINE p == req[r]
<1>1. /\ p \in Request /\ now \in Nat /\ p.pc = "scan" /\ e \in p.pending
      /\ req'[r] = Skipping(p, e) /\ now' = now
  BY DEF TypeOK, Skip, Scanning, IsNext
<1>2. /\ req'[r].pc = "scan" /\ req'[r].pending = p.pending \ {e}
      /\ req'[r].lastResort = p.lastResort /\ req'[r].attempted = p.attempted
      /\ req'[r].answered = p.answered
  BY <1>1, SkippingType, SkippingIs
<1>3. \A f \in Endpoints : health'[f] \in {health[f], Refresh(health[f], now)}
  BY DEF Skip, TypeOK
<1>4. Closer(p, req'[r])
  BY <1>1, <1>2 DEF Closer, Stage
<1>5. \A f \in Endpoints : /\ CallsLeft(req'[r], f, health'[f]) = CallsLeft(p, f, health[f])
                           /\ CallsLeft(p, f, health[f]) \in Nat
  BY <1>1, <1>2, <1>3, CallsKept DEF Spent
<1> QED BY <1>4, <1>5 DEF StepCounts

\* A call brings the request closer to a reply, or is the endpoint's last resort.
LEMMA AttemptCounts ==
    ASSUME TypeOK, DeadIsStored, robbed = {}, NEW r \in Requests, NEW e \in Endpoints, Attempt(r, e)
    PROVE  /\ StepCounts(r) /\ req'[r].pc = "await" /\ req'[r].target = e /\ req'[r].attempted
           /\ req'[r].lastResort = req[r].lastResort
           /\ IF req[r].lastResort THEN e \in req'[r].answered
              ELSE e \notin req'[r].answered /\ health'[e].until = NoInstant
<1> DEFINE p == req[r]
           d == Drop(p, e)
           answered == IF p.lastResort THEN d.answered \cup {e} ELSE d.answered
           finals == IF p.lastResort THEN d.finals \cup {e} ELSE d.finals
           t == now + RequestTimeout
<1>1. /\ p \in Request /\ now \in Nat /\ p.pc = "scan" /\ e \notin p.answered
      /\ req'[r] = Asking(p, e) /\ now' = now
      /\ health' = [health EXCEPT ![e] = Refresh(health[e], now)]
  BY DEF TypeOK, Attempt, Scanning, Eligible, Admits
<1>2. d \in Request /\ d.answered = p.answered /\ d.lastResort = p.lastResort
  BY <1>1, DropType, SameRequest
<1>3. Asking(p, e) = [d EXCEPT !.pc = "await", !.target = e, !.timer = t,
                               !.attempted = TRUE, !.answered = answered,
                               !.finals = finals]
  BY DEF Asking
<1>4. /\ req'[r].pc = "await" /\ req'[r].target = e /\ req'[r].attempted
      /\ req'[r].lastResort = p.lastResort
      /\ req'[r].answered = IF p.lastResort THEN p.answered \cup {e} ELSE p.answered
  <2> HIDE DEF d, answered, finals, t
  <2>1. /\ req'[r].pc = "await" /\ req'[r].target = e /\ req'[r].attempted
        /\ req'[r].lastResort = d.lastResort /\ req'[r].answered = answered
    BY <1>1, <1>2, <1>3 DEF Request
  <2> QED BY <1>2, <2>1 DEF answered
<1>5. \A f \in Endpoints : health'[f] \in {health[f], Refresh(health[f], now)}
  BY <1>1 DEF TypeOK
<1>6. \A f \in Endpoints : f # e \/ ~p.lastResort =>
         /\ CallsLeft(req'[r], f, health'[f]) = CallsLeft(p, f, health[f])
         /\ CallsLeft(p, f, health[f]) \in Nat
  BY <1>1, <1>4, <1>5, CallsKept DEF Spent
<1>7. CASE p.lastResort
  <2>1. CallsLeft(req'[r], e, health'[e]) = 0
    BY <1>4, <1>7 DEF CallsLeft, Spent
  <2>2. CoolingDown(health[e], now) => IsRateLimitedOnly(health[e])
    BY DEF Attempt, Eligible, Admits, IsHealthy
  <2>3. CallsLeft(p, e, health[e]) \in Nat /\ CallsLeft(p, e, health[e]) > 0
    BY <1>1, <2>2, CallsLeftIs, CallsLeftNow DEF Spent
  <2>4. StepCounts(r)
    BY <1>6, <2>1, <2>3 DEF StepCounts
  <2> QED BY <1>4, <1>7, <2>4
<1>8. CASE ~p.lastResort
  <2>1. Closer(p, req'[r])
    BY <1>1, <1>4, <1>8 DEF Closer, Stage
  <2>2. StepCounts(r)
    BY <1>6, <1>8, <2>1 DEF StepCounts
  <2>3. ~CoolingDown(health[e], now)
    BY <1>8 DEF Attempt, Eligible, Admits, IsHealthy
  <2>4. health'[e].until = NoInstant
    BY <1>1, <2>3, HealthTyped DEF CoolingDown, Refresh, FreshHealth, TypeOK
  <2> QED BY <1>1, <1>4, <1>8, <2>2, <2>4
<1> QED BY <1>7, <1>8

\* A reply after which the request goes on with its endpoints.
LEMMA ReplyCountsOn ==
    ASSUME TypeOK, DeadIsStored, robbed = {},
           NEW r \in Requests, NEW e \in Endpoints, Reply(r, e),
           req[r].pc = "await", req[r].attempted,
           IF req[r].lastResort THEN e \in req[r].answered
           ELSE e \notin req[r].answered /\ health[e].until = NoInstant,
           GoesOn(req[r], req'[r], e),
           e \in req'[r].answered \/ HardFailure(e) \/ RateLimits(e)
    PROVE  StepCounts(r) /\ req'[r].pc \in {"scan", "nap", "reset"} /\ req'[r].attempted
<1> DEFINE p == req[r]
           h == health[e]
<1>1. /\ p \in Request /\ now \in Nat /\ p.pc = "await" /\ p.attempted
      /\ IF p.lastResort THEN e \in p.answered ELSE e \notin p.answered /\ h.until = NoInstant
  BY DEF TypeOK
<1>2. /\ GoesOn(p, req'[r], e)
      /\ e \in req'[r].answered \/ HardFailure(e) \/ RateLimits(e)
  OBVIOUS
<1>0. \A f \in Endpoints : (Spent(p, f) <=> f \in p.answered)
                        /\ (Spent(req'[r], f) <=> f \in req'[r].answered)
  BY <1>1, <1>2 DEF Spent, GoesOn
<1>3. \A f \in Endpoints : f # e => health'[f] = health[f]
  BY ReplyEffects DEF HardFailure, Answers, AnswersRateLimited, RateLimits, TypeOK
<1>4. \A f \in Endpoints : f # e =>
         /\ CallsLeft(req'[r], f, health'[f]) = CallsLeft(p, f, health[f])
         /\ CallsLeft(p, f, health[f]) \in Nat
  BY <1>0, <1>2, <1>3, CallsKept DEF GoesOn
<1>5. CASE p.lastResort
  <2>1. CallsLeft(req'[r], e, health'[e]) = 0 /\ CallsLeft(p, e, h) = 0
    BY <1>0, <1>1, <1>2, <1>5 DEF CallsLeft, GoesOn
  <2>2. Closer(p, req'[r])
    BY <1>1, <1>2, <1>5 DEF Closer, Stage, GoesOn
  <2> QED BY <1>1, <1>2, <1>4, <2>1, <2>2 DEF StepCounts, GoesOn
<1>6. CASE ~p.lastResort
  <2>1. /\ CallsLeft(p, e, h) = 1 + HardFailureThreshold - h.failures
        /\ h.failures \in Nat /\ h.failures < HardFailureThreshold
        /\ HardFailureThreshold \in Nat
    BY <1>0, <1>1, <1>6, CallsLeftIs, CallsLeftNow, HealthTyped, HealthDurations
  <2>2. CASE e \in req'[r].answered
    <3>1. CallsLeft(req'[r], e, health'[e]) = 0
      BY <1>0, <2>2 DEF CallsLeft
    <3> QED BY <1>1, <1>2, <1>4, <2>1, <3>1 DEF StepCounts, GoesOn
  <2>3. CASE HardFailure(e) /\ e \notin req'[r].answered
    <3>1. health'[e] = MarkHardFailure(h, now)
      BY <2>3 DEF HardFailure, TypeOK
    <3>2. CallsLeft(req'[r], e, health'[e]) =
             IF h.failures + 1 >= HardFailureThreshold THEN 0
                                                       ELSE HardFailureThreshold - h.failures
      <4>1. CASE h.failures + 1 >= HardFailureThreshold
        <5>1. /\ CoolingDown(health'[e], now) /\ ~IsRateLimitedOnly(health'[e])
          BY <1>1, <2>1, <3>1, <4>1, HealthDurations
             DEF MarkHardFailure, ReachesThreshold, CoolingDown, IsRateLimitedOnly, NoInstant
        <5> QED BY <1>0, <2>3, <4>1, <5>1 DEF CallsLeft
      <4>2. CASE ~(h.failures + 1 >= HardFailureThreshold)
        <5>1. health'[e].until = NoInstant /\ health'[e].failures = h.failures + 1
          BY <1>1, <1>6, <3>1, <4>2 DEF MarkHardFailure, ReachesThreshold
        <5>2. ~CoolingDown(health'[e], now) /\ Refresh(health'[e], now) = health'[e]
          BY <5>1 DEF CoolingDown, Refresh
        <5> QED BY <1>0, <2>1, <2>3, <4>2, <5>1, <5>2 DEF CallsLeft
      <4> QED BY <4>1, <4>2
    <3> QED BY <1>1, <1>2, <1>4, <2>1, <3>2 DEF StepCounts, GoesOn
  <2>4. CASE RateLimits(e) /\ e \notin req'[r].answered
    <3>1. health'[e].failures = h.failures /\ health'[e].until = now + RateLimitCooldown
      BY <2>4, HealthTyped DEF RateLimits, MarkRateLimited, TypeOK, Health
    <3>2. RateLimitCooldown \in Nat /\ RateLimitCooldown > 0
      BY HealthAssumption DEF HealthAssumption
    <3>3. CoolingDown(health'[e], now) /\ IsRateLimitedOnly(health'[e])
      BY <1>1, <2>1, <3>1, <3>2 DEF CoolingDown, IsRateLimitedOnly, NoInstant
    <3>4. CallsLeft(req'[r], e, health'[e]) = 1
      BY <1>0, <2>4, <3>3 DEF CallsLeft
    <3> QED BY <1>1, <1>2, <1>4, <2>1, <3>4 DEF StepCounts, GoesOn
  <2> QED BY <1>2, <2>2, <2>3, <2>4
<1> QED BY <1>5, <1>6

\* A reply is counted against its endpoint, unless its call already was.
LEMMA ReplyCounts ==
    ASSUME TypeOK, OnTime, DeadIsStored, robbed = {}, CallInv,
           NEW r \in Requests, NEW e \in Endpoints, Reply(r, e), req'[r].pc # "done"
    PROVE  StepCounts(r) /\ req'[r].pc \in {"scan", "nap", "reset"} /\ req'[r].attempted
<1> DEFINE p == req[r]
           h == health[e]
<1>1. /\ p \in Request /\ now \in Nat /\ p.pc = "await" /\ p.attempted
      /\ IF p.lastResort THEN e \in p.answered ELSE e \notin p.answered /\ h.until = NoInstant
  BY ReplyEffects DEF TypeOK, CallInv, CallsAreAttempts, CalledWell, Awaiting
<1>7. CASE UsableReply(r, e) /\ req'[r] = [p EXCEPT !.pc = "reset"]
  <2>1. /\ req'[r].pc = "reset" /\ req'[r].attempted /\ req'[r].lastResort = p.lastResort
    BY <1>1, <1>7 DEF Request
  <2>2. \A f \in Endpoints : /\ CallsLeft(req'[r], f, health'[f]) = 0
                             /\ CallsLeft(p, f, health[f]) \in Nat
    BY <2>1, CallsLeftIs, CallsLeftNow DEF CallsLeft, Spent
  <2>3. CASE p.lastResort
    <3>1. Closer(p, req'[r])
      BY <1>1, <2>1, <2>3 DEF Closer, Stage
    <3> QED BY <2>1, <2>2, <3>1 DEF StepCounts
  <2>4. CASE ~p.lastResort
    <3>1. ~Spent(p, e) /\ ~CoolingDown(h, now)
      BY <1>1, <2>4 DEF Spent, CoolingDown
    <3>2. CallsLeft(p, e, h) >= 2
      BY <3>1, CallsLeftIs, CallsLeftNow
    <3> QED BY <2>1, <2>2, <3>2 DEF StepCounts
  <2> QED BY <2>3, <2>4
<1>8. CASE /\ GoesOn(p, req'[r], e)
           /\ e \in req'[r].answered \/ HardFailure(e) \/ RateLimits(e)
  BY <1>1, <1>8, ReplyCountsOn
<1> QED BY <1>7, <1>8, ReplyGoesOn

\* The end of a pass leads to the next one by fewer and fewer ways, or waits.
LEMMA EndOfPassCounts ==
    ASSUME TypeOK, OnTime, DeadIsStored, robbed = {}, CallInv,
           NEW r \in Requests, EndOfPass(r), req'[r].pc # "done"
    PROVE  StepCounts(r) /\ req'[r].pc \in {"scan", "cool"}
<1> DEFINE p == req[r]
<1>1. /\ p \in Request /\ now \in Nat /\ p.start \in Endpoints /\ NextStart(p) \in Endpoints
      /\ req \in [Requests -> Request]
  BY NextStartType DEF TypeOK, Request
<1>2. UNCHANGED <<now, health>> /\ p.pc \notin {"reset", "clear"}
  BY DEF EndOfPass, DeadlinePassed, NextPass, EnterLastResort, ReturnLastError,
         Cool, GiveUp, WakeFromNap, WakeFromCooldown, Moves, Becomes,
         Exhausted, PassOver, Scanning
<1>3. ASSUME NEW q \in Request, NEW start \in Endpoints, req'[r] = StartPass(q, start)
      PROVE  /\ req'[r].pc = "scan" /\ ~req'[r].attempted
             /\ req'[r].answered = q.answered /\ req'[r].lastResort = q.lastResort
  BY <1>3 DEF StartPass, Request
<1>4. ASSUME req'[r].answered = p.answered, Closer(p, req'[r])
      PROVE  StepCounts(r)
  <2>1. \A f \in Endpoints : /\ CallsLeft(req'[r], f, health'[f]) = CallsLeft(p, f, health[f])
                             /\ CallsLeft(p, f, health[f]) \in Nat
    <3>1. \A f \in Endpoints : Spent(req'[r], f) <=> Spent(p, f)
      BY <1>2, <1>4, EndOfPassGoesTo DEF Spent
    <3> QED BY <1>2, <3>1, CallsKept
  <2> QED BY <1>4, <2>1 DEF StepCounts
<1>5. ~DeadlinePassed(r) /\ ~ReturnLastError(r) /\ ~GiveUp(r)
  BY <1>1, FinishedType DEF DeadlinePassed, ReturnLastError, GiveUp, Moves, Becomes
<1>6. CASE NextPass(r)
  <2>1. req'[r] = StartPass(p, NextStart(p)) /\ p.pc = "scan" /\ p.attempted
    BY <1>1, <1>6 DEF NextPass, PassOver, Scanning, Moves, Becomes
  <2>2. /\ req'[r].pc = "scan" /\ ~req'[r].attempted
        /\ req'[r].answered = p.answered /\ req'[r].lastResort = p.lastResort
    BY <1>1, <1>3, <2>1
  <2>3. Closer(p, req'[r])
    BY <2>1, <2>2 DEF Closer, Stage
  <2> QED BY <1>4, <2>2, <2>3
<1>7. CASE EnterLastResort(r)
  <2> DEFINE q == [p EXCEPT !.lastResort = TRUE]
  <2>1. q \in Request /\ q.answered = p.answered /\ q.lastResort
    BY <1>1 DEF Request
  <2>2. req'[r] = StartPass(q, p.start) /\ ~p.lastResort
    BY <1>1, <1>7 DEF EnterLastResort, Moves, Becomes
  <2> HIDE DEF q
  <2>3. req'[r].pc = "scan" /\ req'[r].answered = p.answered /\ req'[r].lastResort
    BY <1>1, <1>3, <2>1, <2>2
  <2>4. Closer(p, req'[r])
    BY <2>2, <2>3 DEF Closer
  <2> QED BY <1>4, <2>3, <2>4
<1>8. CASE Cool(r)
  <2>1. PICK wait \in Waits : req'[r] = [p EXCEPT !.pc = "cool", !.timer = now + CoolSleep(wait)]
    BY <1>1, <1>8 DEF Cool, Moves, Becomes
  <2>2. wait \in Nat
    BY HealthTyped, <1>1 DEF Waits, Cooling, CooldownRemaining
  <2>3. /\ req'[r].pc = "cool" /\ req'[r].timer = now + CoolSleep(wait)
        /\ req'[r].answered = p.answered /\ req'[r].lastResort = p.lastResort
    BY <1>1, <2>1 DEF Request
  <2>4. CoolSleep(wait) \in Nat /\ CoolSleep(wait) > 0
    BY <2>2, Durations DEF CoolSleep
  <2>5. Stage(req'[r]) = 0
    BY <1>1, <2>3, <2>4 DEF Stage
  <2>6. Stage(p) = 1
    BY <1>8 DEF Stage, Cool, Exhausted, PassOver, Scanning
  <2>7. Closer(p, req'[r])
    BY <2>3, <2>5, <2>6 DEF Closer
  <2> QED BY <1>4, <2>3, <2>7
<1>9. CASE WakeFromNap(r)
  <2>1. req'[r] = Resume(p) /\ p.pc = "nap" /\ p.attempted
    BY <1>1, <1>9 DEF WakeFromNap, Moves, Becomes, CallInv, CallsAreAttempts
  <2>2. /\ req'[r].pc = "scan" /\ req'[r].attempted /\ req'[r].answered = p.answered
        /\ req'[r].lastResort = p.lastResort
    BY <1>1, <2>1 DEF Resume, Request
  <2>3. Closer(p, req'[r])
    BY <2>1, <2>2 DEF Closer, Stage
  <2> QED BY <1>4, <2>2, <2>3
<1>10. CASE WakeFromCooldown(r)
  <2>1. /\ req'[r] = StartPass(Resume(p), NextStart(p)) /\ p.pc = "cool" /\ now >= p.timer
    BY <1>1, <1>10 DEF WakeFromCooldown, Moves, Becomes
  <2>2. /\ Resume(p) \in Request /\ Resume(p).answered = p.answered
        /\ Resume(p).lastResort = p.lastResort
    BY <1>1, ResumeType DEF Resume, Request
  <2>3. /\ req'[r].pc = "scan" /\ ~req'[r].attempted
        /\ req'[r].answered = p.answered /\ req'[r].lastResort = p.lastResort
    BY <1>1, <1>3, <2>1, <2>2
  <2>4. p.timer \in Nat
    BY <1>1 DEF Request
  <2>5. Stage(p) = 5 /\ Stage(req'[r]) = 1
    BY <1>1, <2>1, <2>3, <2>4 DEF Stage
  <2>6. Closer(p, req'[r])
    BY <2>3, <2>5 DEF Closer
  <2> QED BY <1>4, <2>3, <2>6
<1> QED BY <1>5, <1>6, <1>7, <1>8, <1>9, <1>10 DEF EndOfPass

\* What serves a request one at a time knows of its calls, ...
LEMMA ServeCallsWell ==
    ASSUME TypeOK, OnTime, SequentialInv, DeadIsStored, CallInv, NEW r \in Requests, Serve(r)
    PROVE  /\ req'[r].pc # "done" => StepCounts(r)
           /\ CallInv'
<1>1. \A s \in Requests : s # r => ~Active(s) /\ req'[s] = req[s]
  BY ServesOnlyOne DEF SequentialInv
<1>0. robbed = {} /\ req \in [Requests -> Request] /\ req[r] \in Request /\ now \in Nat
  BY DEF SequentialInv, ResetAlone, TypeOK
<1>2. ASSUME NEW e \in Endpoints, Attempt(r, e)
      PROVE  StepCounts(r) /\ CallInv'
  BY <1>0, <1>1, <1>2, AttemptCounts DEF CallInv, CallsAreAttempts, CalledWell, Awaiting, Active
<1>3. ASSUME req'[r].pc \notin {"await", "nap"} \/ (req'[r].pc = "nap" /\ req'[r].attempted)
      PROVE  CallInv'
  BY <1>1, <1>3 DEF CallInv, CallsAreAttempts, CalledWell, Awaiting, Active
<1>4. ASSUME NEW e \in Endpoints, Skip(r, e)
      PROVE  StepCounts(r) /\ CallInv'
  <2>1. req'[r].pc = "scan"
    BY <1>0, <1>4, SkippingType DEF Skip, Scanning
  <2> QED BY <1>0, <1>3, <1>4, <2>1, SkipCounts
<1>5. ASSUME NEW e \in Endpoints, Reply(r, e)
      PROVE  (req'[r].pc # "done" => StepCounts(r)) /\ CallInv'
  BY <1>0, <1>3, <1>5, ReplyCounts
<1>6. CASE EndOfPass(r)
  BY <1>0, <1>3, <1>6, EndOfPassCounts
<1>7. ASSUME NEW e \in Endpoints, ResetUntil(r, e)
      PROVE  StepCounts(r) /\ CallInv'
  <2>1. req[r].pc = "reset" /\ req'[r] = [req[r] EXCEPT !.pc = "clear"]
    BY <1>0, <1>7 DEF ResetUntil, Becomes
  <2>2. req'[r].pc = "clear" /\ req'[r].lastResort = req[r].lastResort
    BY <1>0, <2>1 DEF Request
  <2>3. Closer(req[r], req'[r])
    BY <2>1, <2>2 DEF Closer, Stage
  <2>4. \A f \in Endpoints : /\ CallsLeft(req'[r], f, health'[f]) = 0
                             /\ CallsLeft(req[r], f, health[f]) = 0
    BY <2>1, <2>2 DEF CallsLeft, Spent
  <2> QED BY <1>3, <2>2, <2>3, <2>4 DEF StepCounts
<1>8. ASSUME NEW e \in Endpoints, ResetStore(r, e)
      PROVE  req'[r].pc = "done" /\ CallInv'
  <2>1. req'[r].pc = "done"
    BY <1>0, <1>8, FinishedType DEF ResetStore, Becomes
  <2> QED BY <1>3, <2>1
<1> QED BY <1>2, <1>4, <1>5, <1>6, <1>7, <1>8 DEF Serve

\* ... and every other step leaves calls as they are, or ends them.
LEMMA CallInvStep ==
    ASSUME MaxInFlight = 1, TypeOK, OnTime, SequentialInv, DeadIsStored, CallInv, [Next]_vars
    PROVE  CallInv'
<1> USE DEF CallInv, CallsAreAttempts, CalledWell
<1>1. ASSUME NEW r \in Requests, Serve(r)
      PROVE  CallInv'
  BY <1>1, ServeCallsWell
<1>2. ASSUME NEW r \in Requests, ClientGone(r)
      PROVE  CallInv'
  <2>1. health' = health /\ req' = [req EXCEPT ![r] = Finished(req[r], "lost")]
    BY <1>2 DEF ClientGone, Moves, Becomes
  <2>2. req'[r].pc = "done" /\ \A s \in Requests : s # r => req'[s] = req[s]
    BY <2>1, FinishedType DEF TypeOK
  <2> QED BY <2>1, <2>2 DEF Awaiting
<1>3. ASSUME NEW r \in Requests, NEW kind \in Kinds, Begin(r, kind)
      PROVE  CallInv'
  <2>1. health' = health /\ \A s \in Requests : s # r => req'[s] = req[s]
    BY <1>3 DEF Begin, NextIndex
  <2>2. req'[r].pc = "scan"
    BY <1>3 DEF Begin, NextIndex, StartPass, TypeOK, Request
  <2> QED BY <2>1, <2>2 DEF Awaiting
<1>4. CASE Restart
  <2>1. \A r \in Requests : req'[r].pc \in {"idle", "done"}
    BY <1>4, FinishedType DEF Restart, Active, TypeOK
  <2> QED BY <2>1 DEF Awaiting
<1>5. CASE UNCHANGED vars \/ Tick \/ (\E e \in Endpoints, c \in LearntCoverages : ProbeFinds(e, c))
  BY <1>5 DEF vars, Tick, ProbeFinds, Awaiting
<1> QED BY <1>1, <1>2, <1>3, <1>4, <1>5 DEF Next

\* With one request at a time, of any kind, no request spins: within an instant
\* each of its steps uses up a call it has left, or brings it closer to the next.
THEOREM NobodySpins ==
    ASSUME MaxInFlight = 1
    PROVE  Spec => EveryStepCounts
<1>1. ASSUME TypeOK, OnTime, SequentialInv, DeadIsStored, CallInv, Next,
             NEW r \in Requests, Active(r), Active(r)', req'[r] # req[r], now' = now
      PROVE  StepCounts(r)
  <2>0. req'[r].pc # "done"
    BY <1>1 DEF Active
  <2>1. ~Tick /\ ~\E e \in Endpoints, c \in LearntCoverages : ProbeFinds(e, c)
    BY <1>1 DEF Tick, ProbeFinds
  <2>2. ~Restart
    BY <1>1, FinishedType DEF Restart, Active, TypeOK
  <2>3. ASSUME NEW s \in Requests, NEW kind \in Kinds, Begin(s, kind)
        PROVE  FALSE
    BY <1>1, <2>3, BeginsAlone DEF SequentialInv
  <2>4. ASSUME NEW s \in Requests, ClientGone(s)
        PROVE  FALSE
    <3>1. s = r
      BY <1>1, <2>4 DEF ClientGone, Moves, Becomes, TypeOK
    <3>2. req'[r].pc = "done"
      BY <1>1, <2>4, <3>1, FinishedType DEF ClientGone, Moves, Becomes, TypeOK
    <3> QED BY <2>0, <3>2
  <2>5. PICK s \in Requests : Serve(s)
    BY <1>1, <2>1, <2>2, <2>3, <2>4 DEF Next
  <2>6. s = r
    BY <1>1, <2>5, ServesOnlyOne DEF SequentialInv
  <2> QED BY <1>1, <2>0, <2>5, <2>6, ServeCallsWell
<1>2. TypeOK /\ OnTime /\ SequentialInv /\ DeadIsStored /\ CallInv /\ [Next]_vars
        => [\A r \in Requests :
              Active(r) /\ Active(r)' /\ req'[r] # req[r] /\ now' = now => StepCounts(r)]_vars
  BY <1>1
<1>3. Init => CallInv
  BY DEF Init, CallInv, CallsAreAttempts, CalledWell, Awaiting, NoRequest
<1>4. Spec => [](TypeOK /\ OnTime /\ SequentialInv)
  BY TypeAndTimeInit, TypeAndTimeStep, SequentialInit, SequentialStep, PTL DEF Spec
<1>5. Spec => [](TypeOK /\ OnTime /\ SequentialInv /\ DeadIsStored /\ CallInv)
  BY <1>3, <1>4, DeathsAreStored, CallInvStep, PTL DEF Spec
<1> QED BY <1>2, <1>5, PTL DEF Spec, EveryStepCounts

=============================================================================
