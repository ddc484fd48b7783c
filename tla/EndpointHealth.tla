--------------------------- MODULE EndpointHealth ---------------------------
(***************************************************************************)
(* The health record of one upstream endpoint (`RpcEndpoint` of proxy.rs): *)
(* its consecutive-failure counter and the instant until which it is       *)
(* unavailable, with one operator per method.  Each operator is the whole  *)
(* effect of the method; the mutex steps inside the methods are the        *)
(* subject of EndpointLocks.  Instants and durations are ticks.            *)
(***************************************************************************)
EXTENDS Integers

CONSTANTS
    HardFailureThreshold,  \* HARD_FAILURE_THRESHOLD, 3 in the code
    HardFailureCooldown,   \* HARD_FAILURE_COOLDOWN, 24 hours
    RateLimitCooldown      \* RATE_LIMIT_COOLDOWN, 60 seconds

ASSUME HealthAssumption ==
    /\ HardFailureThreshold \in Nat \ {0}
    /\ HardFailureCooldown \in Nat \ {0}
    /\ RateLimitCooldown \in Nat \ {0}
    /\ RateLimitCooldown <= HardFailureCooldown

NoInstant == -1   \* Option<Instant>::None, and "no entry" in the health store

Instant == Nat \cup {NoInstant}

Health == [failures : Nat, until : Instant]

FreshHealth == [failures |-> 0, until |-> NoInstant]

(***************************************************************************)
(* is_healthy: FALSE while the cooldown runs; once it is over the record   *)
(* is wiped as a side effect (Refresh).                                    *)
(***************************************************************************)
CoolingDown(h, now) == h.until # NoInstant /\ now < h.until

IsHealthy(h, now) == ~CoolingDown(h, now)

Refresh(h, now) ==
    IF h.until # NoInstant /\ h.until <= now THEN FreshHealth ELSE h

IsRateLimitedOnly(h) == h.failures < HardFailureThreshold

CooldownRemaining(h, now) == IF h.until > now THEN h.until - now ELSE 0

(***************************************************************************)
(* The four ways an upstream's behaviour changes its record.               *)
(***************************************************************************)
ReachesThreshold(failures) == failures >= HardFailureThreshold

MarkHardFailure(h, now) ==
    LET failures == h.failures + 1
    IN  [failures |-> failures,
         until    |-> IF ReachesThreshold(failures) THEN now + HardFailureCooldown
                                                    ELSE h.until]

MarkRateLimited(h, now) == [h EXCEPT !.until = now + RateLimitCooldown]

ClearFailures(h) == [h EXCEPT !.failures = 0]

\* Faulty variant: the restored record counts as a rate limit.
RestoreCooldownOnly(instant) == [failures |-> 0, until |-> instant]

\* A record restored from the health store by a new process.
RestoreDeadUntil(instant) == [failures |-> HardFailureThreshold, until |-> instant]

=============================================================================
