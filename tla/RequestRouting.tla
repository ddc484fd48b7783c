--------------------------- MODULE RequestRouting ---------------------------
(***************************************************************************)
(* How one chain's requests are routed over its upstream endpoints:        *)
(* `RpcProxy::proxy_json_to_chain` of proxy.rs, run by any number of       *)
(* concurrent requests that share the rotation index, the endpoints'       *)
(* health records, the health store and the state-capability cache.        *)
(*                                                                         *)
(* A request's code between two `.await`s reads and writes shared state    *)
(* through whole method calls; each iteration of the pass over the         *)
(* endpoints is an action, split at the upstream call it awaits.  Time     *)
(* advances only while every request is waiting (Tick), so the program's   *)
(* own instructions take no time.                                          *)
(***************************************************************************)
EXTENDS EndpointHealth, FiniteSets

CONSTANTS
    Requests,          \* the client requests
    Kinds,             \* the kinds of request the clients send
    Total,             \* the number of endpoints of the chain
    Latency,           \* the measured latency of each endpoint
    RequestTimeout,    \* --request-timeout of one upstream call
    DeadlineFactor,    \* 6 in overall_deadline
    MinDeadline,       \* 10 s in overall_deadline
    RetrySleep,        \* the 50 ms pause after a failed call
    MinCoolSleep,      \* the 200 ms minimum of a cooldown sleep
    MaxSoftRetries,    \* MAX_SOFT_RETRIES, 4 in the code
    MaxInFlight,       \* bound: requests the clients keep open at once
    MaxTime,           \* bound: the clock's last value
    Second,            \* ticks of one second, the health store's unit
    Disturbances,      \* bound: which of "restart", "hangup", "disk" may happen
    StoredDeaths,      \* bound: the death entries a health file may start with
    LearntCoverages    \* bound: what cache file and probes say of an endpoint

Endpoints == 0 .. Total - 1
Nowhere == -1

Coverages == {"Covered", "Unknown", "Pruned", "Liar"}
AllKinds == {"read", "head", "pinned", "submit"}

ASSUME RoutingAssumption ==
    /\ Total \in Nat \ {0}
    /\ Kinds \subseteq AllKinds
    /\ Latency \in [Endpoints -> Nat]
    /\ RequestTimeout \in Nat \ {0}
    /\ DeadlineFactor \in Nat \ {0}
    /\ MinDeadline \in Nat \ {0}
    /\ RetrySleep \in Nat
    /\ MinCoolSleep \in Nat \ {0}
    /\ MaxSoftRetries \in Nat \ {0}
    /\ MaxInFlight \in Nat
    /\ MaxTime \in Nat
    /\ Second \in Nat \ {0}
    /\ HardFailureCooldown % Second = 0
    /\ Disturbances \subseteq {"restart", "hangup", "disk"}
    /\ StoredDeaths \subseteq {t \in 1 .. HardFailureCooldown : t % Second = 0}
    /\ LearntCoverages \subseteq Coverages
    \* 24 h is longer than a call and a rate limit together
    /\ RequestTimeout + RateLimitCooldown <= HardFailureCooldown

VARIABLES
    now,        \* the clock
    current,    \* ChainState::current_index, modulo Total
    health,     \* each endpoint's failures and unavailable_until
    stored,     \* each endpoint's entry in the health store's map
    file,       \* the entries of health.json; none if it does not parse
    coverage,   \* what the capability cache says of the pinned block
    req,        \* the local state of each request
    robbed      \* history: endpoints whose last death a reset has overtaken

store == <<stored, file, robbed>>
vars == <<now, current, health, coverage, req, store>>

Request == [
    kind       : AllKinds,
    pc         : {"idle", "scan", "await", "reset", "clear", "nap", "cool", "done"},
    deadline   : Nat,
    start      : Endpoints,            \* start_idx of the pass
    pending    : SUBSET Endpoints,     \* the rest of the pass's routing_order
    preferred  : SUBSET Endpoints,     \* those of it that cover the block
    attempted  : BOOLEAN,
    answered   : SUBSET Endpoints,     \* answered_with_error
    soft       : Nat,                  \* soft_retries
    errBody    : BOOLEAN,              \* last_error_body.is_some()
    lastResort : BOOLEAN,
    target     : Endpoints \cup {Nowhere},
    timer      : Nat,                  \* when the call, nap or sleep ends
    refused    : BOOLEAN,              \* history: an upstream answered a
                                       \* submission with a JSON-RPC error,
    heard      : SUBSET Endpoints,     \* who answered with a retryable one,
    finals     : SUBSET Endpoints,     \* who was asked as a last resort,
    lacking    : SUBSET Endpoints,     \* whom this pass left out for its state
    result     : {"none", "ok", "rpcError", "failed", "lost"}]

NoRequest == [
    kind |-> "read", pc |-> "idle", deadline |-> 0, start |-> 0, pending |-> {},
    preferred |-> {}, attempted |-> FALSE, answered |-> {}, soft |-> 0,
    errBody |-> FALSE, lastResort |-> FALSE, target |-> Nowhere, timer |-> 0,
    refused |-> FALSE, heard |-> {}, finals |-> {}, lacking |-> {}, result |-> "none"]

OverallDeadline ==
    IF DeadlineFactor * RequestTimeout > MinDeadline
    THEN DeadlineFactor * RequestTimeout ELSE MinDeadline

\* The longest a request can outlive its deadline: a call begun just before it,
\* with the pause that follows, or a cooldown sleep.
Overrun ==
    IF RequestTimeout + RetrySleep > MinCoolSleep
    THEN RequestTimeout + RetrySleep ELSE MinCoolSleep

Active(r) == req[r].pc \notin {"idle", "done"}
Waiting(r) == req[r].pc \in {"await", "nap", "cool"}

(***************************************************************************)
(* The health store counts whole seconds.  Each persist replaces the file  *)
(* by the map's entries; "disk" is all that may come of it instead: the    *)
(* write fails or a persist with an older snapshot follows (the file stays *)
(* as it was), or it is cut off (the file does not parse).  Only a restart *)
(* reads the file, so the write is taken at the step that owes it;         *)
(* StoreFiles has its parts.                                               *)
(***************************************************************************)
WholeSecond(t) == t - (t % Second)

NoEntries == [e \in Endpoints |-> NoInstant]

Written(entries) ==
    {entries} \cup IF "disk" \in Disturbances THEN {file, NoEntries} ELSE {}

(***************************************************************************)
(* The start of a process: dead endpoints come back from the health file.  *)
(***************************************************************************)
Unexpired(entry) == IF entry > WholeSecond(now) THEN entry ELSE NoInstant

\* The rest of the cooldown, in whole seconds, starts now.
Restore(entries) ==
    [e \in Endpoints |->
        IF entries[e] = NoInstant THEN FreshHealth
        ELSE RestoreDeadUntil(now + (entries[e] - WholeSecond(now)))]

Init ==
    /\ now = 0
    /\ current = 0
    /\ stored \in [Endpoints -> StoredDeaths \cup {NoInstant}]
    /\ file = stored
    /\ robbed = {}
    /\ health = Restore(stored)
    /\ coverage \in [Endpoints -> LearntCoverages]
    /\ req = [r \in Requests |-> NoRequest]

(***************************************************************************)
(* routing_order: the endpoints of one pass.  Only a request pinned to a   *)
(* block distinguishes covered and pruned endpoints; nobody asks a liar.   *)
(***************************************************************************)
CoverageFor(kind, e) ==
    IF kind = "pinned" \/ coverage[e] = "Liar" THEN coverage[e] ELSE "Unknown"

Routable(kind, e) == CoverageFor(kind, e) \notin {"Liar", "Pruned"}

StartPass(q, start) ==
    LET order == {e \in Endpoints : Routable(q.kind, e)}
    IN  [q EXCEPT !.pc = "scan", !.start = start, !.attempted = FALSE,
                  !.pending = order, !.lacking = Endpoints \ order,
                  !.preferred = {e \in order : CoverageFor(q.kind, e) = "Covered"}]

Offset(q, e) == (e + Total - q.start) % Total

\* covered endpoints first, fastest first, then the others; ties in rotation
Precedes(q, e, f) ==
    IF e \in q.preferred
    THEN \/ f \notin q.preferred
         \/ Latency[e] < Latency[f]
         \/ Latency[e] = Latency[f] /\ Offset(q, e) <= Offset(q, f)
    ELSE f \notin q.preferred /\ Offset(q, e) <= Offset(q, f)

IsNext(q, e) == e \in q.pending /\ \A f \in q.pending : Precedes(q, e, f)

NextStart(q) == (q.start + 1) % Total

(***************************************************************************)
(* A request arrives.                                                      *)
(***************************************************************************)
NextIndexUnwrapped == current + 1   \* faulty variant

NextIndex == (current + 1) % Total

Begin(r, kind) ==
    /\ req[r].pc = "idle"
    /\ Cardinality({s \in Requests : Active(s)}) < MaxInFlight
    /\ now + OverallDeadline + Overrun <= MaxTime
    /\ req' = [req EXCEPT ![r] =
                 StartPass([NoRequest EXCEPT !.kind = kind,
                                             !.deadline = now + OverallDeadline], current)]
    /\ current' = NextIndex
    /\ UNCHANGED <<now, health, coverage, store>>

(***************************************************************************)
(* One iteration of the pass, up to the upstream call.                     *)
(***************************************************************************)
ExpiredTooLate(q) == now > q.deadline   \* faulty variant

Expired(q) == now >= q.deadline

Scanning(r) == req[r].pc = "scan" /\ ~Expired(req[r])

\* Faulty variant: the last resort asks every endpoint.
AdmitsAny(q, e) ==
    /\ e \notin q.answered
    /\ IsHealthy(health[e], now) \/ q.lastResort

Admits(q, e) ==
    /\ e \notin q.answered
    /\ \/ IsHealthy(health[e], now)
       \/ q.lastResort /\ IsRateLimitedOnly(health[e])

Eligible(q, e) == Admits(q, e) /\ Routable(q.kind, e)

Drop(q, e) == [q EXCEPT !.pending = @ \ {e}, !.preferred = @ \ {e}]

Skipping(q, e) ==
    [Drop(q, e) EXCEPT !.lacking = IF Routable(q.kind, e) THEN @ ELSE @ \cup {e}]

Skip(r, e) ==
    /\ Scanning(r) /\ IsNext(req[r], e)
    /\ ~Eligible(req[r], e)
    /\ req' = [req EXCEPT ![r] = Skipping(@, e)]
    /\ health' = IF e \in req[r].answered THEN health
                                          ELSE [health EXCEPT ![e] = Refresh(@, now)]
    /\ UNCHANGED <<now, current, coverage, store>>

\* Faulty variant: every attempt is the last one.
AskingOnce(q, e) ==
    [Drop(q, e) EXCEPT
        !.pc = "await", !.target = e, !.timer = now + RequestTimeout,
        !.attempted = TRUE, !.answered = @ \cup {e},
        !.finals = IF q.lastResort THEN @ \cup {e} ELSE @]

Asking(q, e) ==
    [Drop(q, e) EXCEPT
        !.pc = "await", !.target = e, !.timer = now + RequestTimeout,
        !.attempted = TRUE,
        !.answered = IF q.lastResort THEN @ \cup {e} ELSE @,
        !.finals = IF q.lastResort THEN @ \cup {e} ELSE @]

Attempt(r, e) ==
    /\ Scanning(r) /\ IsNext(req[r], e)
    /\ Eligible(req[r], e)
    /\ req' = [req EXCEPT ![r] = Asking(@, e)]
    /\ health' = [health EXCEPT ![e] = Refresh(@, now)]
    /\ UNCHANGED <<now, current, coverage, store>>

(***************************************************************************)
(* What a reply does to the request, ...                                   *)
(***************************************************************************)
Awaiting(r, e) == req[r].pc = "await" /\ req[r].target = e

Resume(q) == [q EXCEPT !.pc = "scan", !.target = Nowhere, !.timer = 0]

Nap(q) == [q EXCEPT !.pc = "nap", !.target = Nowhere, !.timer = now + RetrySleep]

Finished(q, result) ==
    [NoRequest EXCEPT !.kind = q.kind, !.pc = "done", !.result = result]

AnsweredWithError(q, e) ==
    [q EXCEPT !.answered = @ \cup {e}, !.errBody = TRUE, !.heard = @ \cup {e}]

Refused(q) == [q EXCEPT !.refused = (q.kind = "submit")]

(***************************************************************************)
(* ... to the endpoint's health and its stored entry, ...                  *)
(***************************************************************************)
Dead(e) == health[e].failures >= HardFailureThreshold

Stores(entries) == stored' = entries /\ file' \in Written(entries)

MarkDead(e) ==
    /\ Stores([stored EXCEPT ![e] = WholeSecond(now) + HardFailureCooldown])
    /\ robbed' = robbed \ {e}

\* Faulty variant: the store hears only of the failure that kills.
HardFailureStoredOnce(e) ==
    /\ health' = [health EXCEPT ![e] = MarkHardFailure(@, now)]
    /\ IF health[e].failures + 1 = HardFailureThreshold
       THEN MarkDead(e) ELSE UNCHANGED store

HardFailure(e) ==
    /\ health' = [health EXCEPT ![e] = MarkHardFailure(@, now)]
    /\ IF ReachesThreshold(health[e].failures + 1)
       THEN MarkDead(e) ELSE UNCHANGED store

\* The endpoint answered: its failures are forgotten, its cooldown stays.
Answers(e) ==
    /\ health' = [health EXCEPT ![e] = ClearFailures(@)]
    /\ UNCHANGED store

AnswersRateLimited(e) ==
    /\ health' = [health EXCEPT ![e] = MarkRateLimited(ClearFailures(@), now)]
    /\ UNCHANGED store

RateLimits(e) ==
    /\ health' = [health EXCEPT ![e] = MarkRateLimited(@, now)]
    /\ UNCHANGED store

(***************************************************************************)
(* ... and to what is known of its state.                                  *)
(***************************************************************************)
LearnsPruned(kind, e) ==
    coverage' = IF kind = "pinned" /\ coverage[e] # "Liar"
                THEN [coverage EXCEPT ![e] = "Pruned"] ELSE coverage

\* A different head changes the depth of the block, never a liar's record.
HeadMoves ==
    \E c \in [Endpoints -> LearntCoverages \cup {"Pruned"}] :
        /\ \A e \in Endpoints : (c[e] = "Liar") <=> (coverage[e] = "Liar")
        /\ coverage' = c

(***************************************************************************)
(* The outcomes of an upstream call.  The answer may come at any time      *)
(* until the call's timeout; at the timeout the call fails.                *)
(***************************************************************************)
Becomes(r, q) == req' = [req EXCEPT ![r] = q] /\ UNCHANGED <<now, current>>

TransportFailure(r, e) ==
    /\ Awaiting(r, e)
    /\ HardFailure(e) /\ UNCHANGED coverage
    /\ Becomes(r, Nap(req[r]))

\* Faulty variant: the reply that cannot be read is not held against anybody.
BrokenReplyUnmarked(r, e) ==
    /\ Awaiting(r, e)
    /\ UNCHANGED <<health, coverage, store>>
    /\ Becomes(r, Resume(req[r]))

\* The body cannot be read, or a 2xx body is not JSON-RPC.
BrokenReply(r, e) ==
    /\ Awaiting(r, e)
    /\ HardFailure(e) /\ UNCHANGED coverage
    /\ Becomes(r, Resume(req[r]))

\* 2xx with a result, or with an error every endpoint would give: the first
\* of the three sections of `reset`.
UsableReply(r, e) ==
    /\ Awaiting(r, e)
    /\ Answers(e) /\ UNCHANGED coverage
    /\ Becomes(r, [req[r] EXCEPT !.pc = "reset"])

\* 2xx with a retryable error, for a transaction submission.
SubmissionRefused(r, e) ==
    /\ Awaiting(r, e) /\ req[r].kind = "submit"
    /\ Answers(e) /\ UNCHANGED coverage
    /\ Becomes(r, Finished(req[r], "rpcError"))

\* 2xx with a retryable error, for any other request.
MissingState(r, e) ==
    /\ Awaiting(r, e) /\ req[r].kind # "submit"
    /\ Answers(e) /\ LearnsPruned(req[r].kind, e)
    /\ Becomes(r, Resume(AnsweredWithError(req[r], e)))

RateLimited(r, e) ==
    /\ Awaiting(r, e) /\ req[r].kind # "submit"
    /\ AnswersRateLimited(e) /\ UNCHANGED coverage
    /\ Becomes(r, Resume(AnsweredWithError(req[r], e)))

Transient(r, e) ==
    /\ Awaiting(r, e) /\ req[r].kind # "submit"
    /\ Answers(e) /\ UNCHANGED coverage
    /\ Becomes(r, IF req[r].soft + 1 >= MaxSoftRetries
                  THEN Finished(req[r], "rpcError")
                  ELSE [Resume(AnsweredWithError(req[r], e)) EXCEPT !.soft = @ + 1])

\* Neither 2xx nor 429, with a JSON-RPC error that says why.
ErrorStatusMissingState(r, e) ==
    /\ Awaiting(r, e)
    /\ LearnsPruned(req[r].kind, e) /\ UNCHANGED <<health, store>>
    /\ Becomes(r, Resume(Refused(AnsweredWithError(req[r], e))))

ErrorStatusRateLimited(r, e) ==
    /\ Awaiting(r, e)
    /\ RateLimits(e) /\ UNCHANGED coverage
    /\ Becomes(r, Resume(Refused(AnsweredWithError(req[r], e))))

\* HTTP 400 with an error every endpoint would give.
BadRequest(r, e) ==
    /\ Awaiting(r, e)
    /\ Answers(e) /\ UNCHANGED coverage
    /\ Becomes(r, Finished(req[r], "rpcError"))

\* Any other status, whose body may or may not be a JSON-RPC error.
TooManyRequests(r, e) ==
    /\ Awaiting(r, e)
    /\ RateLimits(e) /\ UNCHANGED coverage
    /\ \E q \in {req[r], Refused(req[r])} : Becomes(r, Nap(q))

UnexpectedStatus(r, e) ==
    /\ Awaiting(r, e)
    /\ HardFailure(e) /\ UNCHANGED coverage
    /\ \E q \in {req[r], Refused(req[r])} : Becomes(r, Nap(q))

Reply(r, e) ==
    \/ TransportFailure(r, e)
    \/ BrokenReply(r, e)
    \/ UsableReply(r, e)
    \/ SubmissionRefused(r, e)
    \/ MissingState(r, e)
    \/ RateLimited(r, e)
    \/ Transient(r, e)
    \/ ErrorStatusMissingState(r, e)
    \/ ErrorStatusRateLimited(r, e)
    \/ BadRequest(r, e)
    \/ TooManyRequests(r, e)
    \/ UnexpectedStatus(r, e)

(***************************************************************************)
(* The rest of `reset` and of the reply.  The endpoint may die of another  *)
(* call between its sections; they then rob the death of its cooldown or   *)
(* of its entry.                                                           *)
(***************************************************************************)
Resetting(r, e) == req[r].pc \in {"reset", "clear"} /\ req[r].target = e

Rob(e) == robbed' = IF Dead(e) THEN robbed \cup {e} ELSE robbed

ResetUntil(r, e) ==
    /\ req[r].pc = "reset" /\ req[r].target = e
    /\ health' = [health EXCEPT ![e] = [@ EXCEPT !.until = NoInstant]]
    /\ Rob(e)
    /\ Becomes(r, [req[r] EXCEPT !.pc = "clear"])
    /\ UNCHANGED <<stored, file, coverage>>

ResetStore(r, e) ==
    /\ req[r].pc = "clear" /\ req[r].target = e
    /\ IF stored[e] = NoInstant THEN UNCHANGED <<stored, file>>
                               ELSE Stores([stored EXCEPT ![e] = NoInstant])
    /\ Rob(e)
    /\ IF req[r].kind = "head" THEN HeadMoves ELSE UNCHANGED coverage
    /\ Becomes(r, Finished(req[r], "ok"))
    /\ UNCHANGED health

(***************************************************************************)
(* The end of a pass.                                                      *)
(***************************************************************************)
Moves(r, q) == Becomes(r, q) /\ UNCHANGED <<health, coverage, store>>

DeadlinePassed(r) ==
    /\ req[r].pc = "scan" /\ Expired(req[r])
    /\ Moves(r, Finished(req[r], IF req[r].errBody THEN "rpcError" ELSE "failed"))

PassOver(r) == Scanning(r) /\ req[r].pending = {}

\* Faulty variant: every pass has a deadline of its own.
NextPassAnew(r) ==
    /\ PassOver(r) /\ req[r].attempted
    /\ Moves(r, [StartPass(req[r], NextStart(req[r])) EXCEPT !.deadline = now + OverallDeadline])

NextPass(r) ==
    /\ PassOver(r) /\ req[r].attempted
    /\ Moves(r, StartPass(req[r], NextStart(req[r])))

\* Faulty variant: the flag is not set.
RepeatPass(r) ==
    /\ PassOver(r) /\ ~req[r].attempted /\ ~req[r].lastResort
    /\ Moves(r, StartPass(req[r], req[r].start))

\* Nobody could be asked: rate-limited endpoints get one more chance.
EnterLastResort(r) ==
    /\ PassOver(r) /\ ~req[r].attempted /\ ~req[r].lastResort
    /\ Moves(r, StartPass([req[r] EXCEPT !.lastResort = TRUE], req[r].start))

ExhaustedAtOnce(r) == PassOver(r) /\ ~req[r].attempted   \* faulty variant

\* Nobody could be asked, not even as a last resort.
Exhausted(r) == PassOver(r) /\ ~req[r].attempted /\ req[r].lastResort

ReturnLastError(r) ==
    /\ Exhausted(r) /\ req[r].errBody
    /\ Moves(r, Finished(req[r], "rpcError"))

\* The sleep lasts until the soonest end of a cooldown; one that is over but
\* was not wiped by is_healthy counts as zero.
Cooling == {e \in Endpoints : health[e].until # NoInstant}

Waits == {CooldownRemaining(health[e], now) : e \in Cooling}

EndsInTime(q, wait) == now + wait < q.deadline

CoolSleep(wait) == IF wait > MinCoolSleep THEN wait ELSE MinCoolSleep

Cool(r) ==
    /\ Exhausted(r) /\ ~req[r].errBody
    /\ \E wait \in Waits :
          /\ EndsInTime(req[r], wait) /\ \A other \in Waits : wait <= other
          /\ Moves(r, [req[r] EXCEPT !.pc = "cool", !.timer = now + CoolSleep(wait)])

GiveUp(r) ==
    /\ Exhausted(r) /\ ~req[r].errBody
    /\ \A wait \in Waits : ~EndsInTime(req[r], wait)
    /\ Moves(r, Finished(req[r], "failed"))

WakeFromNap(r) ==
    /\ req[r].pc = "nap" /\ now >= req[r].timer
    /\ Moves(r, Resume(req[r]))

WakeFromCooldown(r) ==
    /\ req[r].pc = "cool" /\ now >= req[r].timer
    /\ Moves(r, StartPass(Resume(req[r]), NextStart(req[r])))

EndOfPass(r) ==
    \/ DeadlinePassed(r)
    \/ NextPass(r)
    \/ EnterLastResort(r)
    \/ ReturnLastError(r)
    \/ Cool(r)
    \/ GiveUp(r)
    \/ WakeFromNap(r)
    \/ WakeFromCooldown(r)

(***************************************************************************)
(* The surroundings: the clock, the client that hangs up (hyper drops the  *)
(* handler at its await), a probe's finding, a crash with a restart.       *)
(***************************************************************************)
Tick ==
    /\ now < MaxTime
    /\ \A r \in Requests : Active(r) => Waiting(r) /\ now < req[r].timer
    /\ now' = now + 1
    /\ UNCHANGED <<current, health, coverage, req, store>>

ClientGone(r) ==
    /\ "hangup" \in Disturbances
    /\ Waiting(r)
    /\ Moves(r, Finished(req[r], "lost"))

ProbeFinds(e, finding) ==
    /\ coverage[e] # "Liar" /\ coverage[e] # finding
    /\ coverage' = [coverage EXCEPT ![e] = finding]
    /\ UNCHANGED <<now, current, health, req, store>>

Restart ==
    /\ "restart" \in Disturbances
    /\ Stores([e \in Endpoints |-> Unexpired(file[e])])
    /\ health' = Restore(stored')
    /\ robbed' = {}
    /\ current' = 0
    /\ HeadMoves   \* the live head is kept in memory only
    /\ req' = [r \in Requests |->
                 IF Active(r) THEN Finished(req[r], "lost") ELSE req[r]]
    /\ UNCHANGED now

\* What the program does for a request it has accepted.
Serve(r) ==
    \/ \E e \in Endpoints :
          Skip(r, e) \/ Attempt(r, e) \/ Reply(r, e) \/ ResetUntil(r, e) \/ ResetStore(r, e)
    \/ EndOfPass(r)

Next ==
    \/ \E r \in Requests : Serve(r) \/ ClientGone(r) \/ \E k \in Kinds : Begin(r, k)
    \/ \E e \in Endpoints, c \in LearntCoverages : ProbeFinds(e, c)
    \/ Tick
    \/ Restart

Spec == Init /\ [][Next]_vars

\* The runtime polls every ready task and time passes; nothing else is owed.
Fairness == WF_vars(Tick) /\ \A r \in Requests : WF_vars(Serve(r))

FairSpec == Spec /\ Fairness

-----------------------------------------------------------------------------

TypeOK ==
    /\ now \in Nat
    /\ current \in Endpoints
    /\ health \in [Endpoints -> Health]
    /\ stored \in [Endpoints -> Instant]
    /\ file \in [Endpoints -> Instant]
    /\ robbed \subseteq Endpoints
    /\ coverage \in [Endpoints -> Coverages]
    /\ req \in [Requests -> Request]

(***************************************************************************)
(* Retries are bounded: no request is still being served when a call and   *)
(* its pause, or a minimal cooldown sleep, begun at the deadline would be  *)
(* over (deadline of overall_deadline, tested before each call and after   *)
(* each pass only).                                                        *)
(***************************************************************************)
BoundedRetries ==
    \A r \in Requests : Active(r) => now < req[r].deadline + Overrun

(***************************************************************************)
(* The same promise as an abstract machine, in which a request is only     *)
(* accepted and over: routing implements it, crashes and hang-ups included *)
(* (handle_request awaiting proxy_json_to_chain).                          *)
(***************************************************************************)
Phase(r) == CASE req[r].pc = "idle" -> "waiting" [] req[r].pc = "done" -> "over" [] OTHER -> "served"

Service == INSTANCE BoundedService WITH
    Clients <- Requests,
    Limit   <- OverallDeadline + Overrun,
    phase   <- [r \in Requests |-> Phase(r)],
    due     <- [r \in Requests |-> IF Active(r) THEN req[r].deadline + Overrun ELSE 0]

ServesInTime == Service!Spec

(***************************************************************************)
(* Every death reaches the store: its map holds a dead endpoint for as     *)
(* long as the memory does, to the second, whatever replies were under way *)
(* when it died; only a reset that overtakes the death takes it out        *)
(* (mark_hard_failure, mark_rate_limited and reset against mark_dead and   *)
(* clear).                                                                 *)
(***************************************************************************)
DeadIsStored ==
    \A e \in Endpoints :
        Dead(e) /\ e \notin robbed
            => health[e].until # NoInstant /\ health[e].until < stored[e] + Second

(***************************************************************************)
(* Quarantine ends by time, by the endpoint's own answer to a call begun   *)
(* before it died, or by a restart whose health file has lost the death -  *)
(* and by nothing else: no hang-up, no wipe of is_healthy, no failed call, *)
(* no 429 and no restart with the entry in the file lets requests back to  *)
(* a dead endpoint before its instant (is_healthy, is_rate_limited_only,   *)
(* restore_dead_until).                                                    *)
(***************************************************************************)
Quarantined(e) == Dead(e) /\ CoolingDown(health[e], now)

ByAnAnswer(r, e) ==
    \/ UsableReply(r, e) \/ ResetUntil(r, e)
    \/ SubmissionRefused(r, e) \/ MissingState(r, e) \/ RateLimited(r, e)
    \/ Transient(r, e) \/ BadRequest(r, e)

ByForgetting(e) == Restart /\ file[e] <= WholeSecond(now)

OnlyAnswersRevive ==
    [][\A e \in Endpoints :
         Quarantined(e) /\ ~Quarantined(e)' /\ now' = now
            => (\E r \in Requests : ByAnAnswer(r, e)) \/ ByForgetting(e)]_vars

(***************************************************************************)
(* A death lasts: while the health store holds an endpoint dead, so does   *)
(* the memory, for as long (true of requests served one at a time).        *)
(***************************************************************************)
DeathLasts ==
    \A e \in Endpoints :
        stored[e] > now => health[e].until >= stored[e]

(***************************************************************************)
(* An endpoint that memory and store both hold dead is asked by no         *)
(* request, not even as its last resort (true of requests served one at a  *)
(* time).                                                                  *)
(***************************************************************************)
Asks(r, e) == req[r].pc = "scan" /\ req'[r].pc = "await" /\ req'[r].target = e

DeadAreNotAsked ==
    [][\A r \in Requests, e \in Endpoints :
         Asks(r, e) => ~(stored[e] > now /\ health[e].until >= stored[e])]_vars

(***************************************************************************)
(* No early surrender: a request that ends before its deadline without an  *)
(* upstream's verdict has nobody left to ask.  Each endpoint has answered  *)
(* this very request with an error, has had the one final attempt of the   *)
(* last resort, was found by the last pass to lack the state, or is dead - *)
(* and, when there is not even an error to hand back, stays dead past the  *)
(* deadline (true of requests served one at a time, while probes find and  *)
(* lose the block).                                                        *)
(***************************************************************************)
Hopeless(q, e) ==
    \/ e \in q.heard
    \/ e \in q.finals
    \/ e \in q.lacking
    \/ Dead(e) /\ CoolingDown(health[e], now) /\ (q.errBody \/ health[e].until >= q.deadline)

NoEarlySurrender ==
    [][\A r \in Requests :
         Scanning(r) /\ req'[r].result \in {"failed", "rpcError"}
            => \A e \in Endpoints : Hopeless(req[r], e)]_vars

(***************************************************************************)
(* No spinning: each step that a request takes without time passing uses   *)
(* up one of the calls that its endpoints' failures, cooldowns and answers *)
(* leave it, or brings it closer to the next call or to its end; so within *)
(* an instant it takes finitely many steps (requests served one at a time; *)
(* the loop of proxy.rs has no pause after a broken reply or an answer).   *)
(***************************************************************************)
\* e has answered this request for good, or the request has its answer.
Spent(q, e) == e \in q.answered \/ q.pc \in {"reset", "clear"}

CallsLeft(q, e, h) ==
    CASE Spent(q, e) -> 0
      [] ~Spent(q, e) /\ CoolingDown(h, now) -> IF IsRateLimitedOnly(h) THEN 1 ELSE 0
      [] OTHER -> 1 + HardFailureThreshold - Refresh(h, now).failures

\* How far the request is from its next call, or from its end.
Stage(q) ==
    CASE q.pc = "cool"  -> IF now < q.timer THEN 0 ELSE 5
      [] q.pc = "await" -> IF q.lastResort THEN 4 ELSE 0
      [] q.pc = "nap"   -> 3
      [] q.pc = "reset" -> 1
      [] q.pc = "clear" -> 0
      [] OTHER          -> IF q.attempted THEN 2 ELSE 1

Closer(p, q) ==
    \/ q.lastResort /\ ~p.lastResort
    \/ q.lastResort = p.lastResort /\ Stage(q) < Stage(p)
    \/ q.lastResort = p.lastResort /\ Stage(q) = Stage(p)
       /\ q.pending \subseteq p.pending /\ q.pending # p.pending

StepCounts(r) ==
    /\ \A e \in Endpoints :
          CallsLeft(req'[r], e, health'[e]) \in 0 .. CallsLeft(req[r], e, health[e])
    /\ \/ \E e \in Endpoints :
             CallsLeft(req'[r], e, health'[e]) < CallsLeft(req[r], e, health[e])
       \/ Closer(req[r], req'[r])

EveryStepCounts ==
    [][\A r \in Requests :
         Active(r) /\ Active(r)' /\ req'[r] # req[r] /\ now' = now => StepCounts(r)]_vars

(***************************************************************************)
(* A transaction is not sent again once an upstream has answered it with a *)
(* JSON-RPC error.                                                         *)
(***************************************************************************)
NeverResent ==
    [][\A r \in Requests, e \in Endpoints : Asks(r, e) => ~req[r].refused]_vars

(***************************************************************************)
(* A rate-limited endpoint is retried later: a request sleeps through a    *)
(* cooldown only if it may ask some endpoint whose cooldown then ends.     *)
(* The code does not meet this; README, section 4.                         *)
(***************************************************************************)
CoolingIsUseful ==
    [][\A r \in Requests :
         req[r].pc = "scan" /\ req'[r].pc = "cool"
            => \E e \in Cooling : e \notin req[r].answered /\ Routable(req[r].kind, e)]_vars

(***************************************************************************)
(* Every request is answered, unless its client leaves or the process dies *)
(* (which ends it as well).                                                *)
(***************************************************************************)
EveryRequestAnswered ==
    \A r \in Requests : Active(r) ~> req[r].pc = "done"

=============================================================================
