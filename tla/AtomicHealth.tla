---------------------------- MODULE AtomicHealth ----------------------------
(***************************************************************************)
(* What the methods of RpcEndpoint promise the requests that share an      *)
(* endpoint: each takes effect at once, on the health record and on the    *)
(* endpoint's entry in the health store together - only `reset` is spread  *)
(* over three moments, one for each thing it clears.                       *)
(***************************************************************************)
EXTENDS EndpointHealth

VARIABLES now, health, stored

atomicVars == <<now, health, stored>>

AtomicInit == now = 0 /\ health = FreshHealth /\ stored = NoInstant

IsHealthyCalled == health' = Refresh(health, now) /\ stored' = stored

MarkHardFailureCalled ==
    /\ health' = MarkHardFailure(health, now)
    /\ stored' = IF ReachesThreshold(health.failures + 1)
                 THEN now + HardFailureCooldown ELSE stored

MarkRateLimitedCalled == health' = MarkRateLimited(health, now) /\ stored' = stored

ClearFailuresCalled == health' = ClearFailures(health) /\ stored' = stored

FailuresReset == health' = [health EXCEPT !.failures = 0] /\ stored' = stored

CooldownReset == health' = [health EXCEPT !.until = NoInstant] /\ stored' = stored

EntryReset == health' = health /\ stored' = NoInstant

Called ==
    \/ IsHealthyCalled
    \/ MarkHardFailureCalled
    \/ MarkRateLimitedCalled
    \/ ClearFailuresCalled
    \/ FailuresReset \/ CooldownReset \/ EntryReset

TimePasses == now' = now + 1 /\ UNCHANGED <<health, stored>>

AtomicNext == (Called /\ now' = now) \/ TimePasses

AtomicSpec == AtomicInit /\ [][AtomicNext]_atomicVars

=============================================================================
