---------------------------- MODULE EndpointLocks ----------------------------
(***************************************************************************)
(* The mutex steps inside the methods of RpcEndpoint (proxy.rs), run by    *)
(* the runtime's worker threads for requests that share one endpoint.  An  *)
(* endpoint has two mutexes, F for `failures` and U for                    *)
(* `unavailable_until`.  A section that takes one lock and lets it go is   *)
(* one step; is_healthy waits for F while it holds U, and                  *)
(* mark_hard_failure waits for U, and writes the store, while it holds F.  *)
(*                                                                         *)
(* As in RequestRouting, time passes only between the methods.             *)
(***************************************************************************)
EXTENDS EndpointHealth

CONSTANTS
    Threads,
    Replies,     \* which methods the endpoint's replies lead to
    MaxTime      \* bound: the clock's last value

Methods == {"fail", "limit", "clear", "reset"}

ASSUME LocksAssumption == Replies \subseteq Methods /\ MaxTime \in Nat

VARIABLES
    now,
    failures,
    until,       \* unavailable_until
    stored,      \* the endpoint's entry in the health store
    pc           \* where each thread is

vars == <<now, failures, until, stored, pc>>

Outside == {"idle", "calling"}

Inside == {"healthy", "wipe", "limitedOnly", "fail", "die", "store",
           "limit", "clear", "reset", "resetUntil", "resetStore"}

Init ==
    /\ now = 0
    /\ failures = 0
    /\ until = NoInstant
    /\ stored = NoInstant
    /\ pc = [t \in Threads |-> "idle"]

HoldsFOnlyToStore(t) == pc[t] = "store"   \* faulty variant

HoldsF(t) == pc[t] \in {"die", "store"}

HoldsU(t) == pc[t] = "wipe"

FreeF == \A t \in Threads : ~HoldsF(t)

FreeU == \A t \in Threads : ~HoldsU(t)

Goes(t, from, to) == pc[t] = from /\ pc' = [pc EXCEPT ![t] = to]

(***************************************************************************)
(* is_healthy, by a request about to ask the endpoint.  Nobody sees the    *)
(* two assignments of the wipe apart, since U is held until both are made. *)
(***************************************************************************)
Check(t) == Goes(t, "idle", "healthy") /\ UNCHANGED <<now, failures, until, stored>>

FindsAvailable(t) ==
    /\ FreeU /\ until = NoInstant
    /\ Goes(t, "healthy", "calling")
    /\ UNCHANGED <<now, failures, until, stored>>

\* The request passes over the endpoint, or it is at its last resort.
FindsCooling(t) ==
    /\ FreeU /\ CoolingDown([failures |-> failures, until |-> until], now)
    /\ Goes(t, "healthy", "idle") \/ Goes(t, "healthy", "limitedOnly")
    /\ UNCHANGED <<now, failures, until, stored>>

FindsCooledDown(t) ==
    /\ FreeU /\ until # NoInstant /\ until <= now
    /\ Goes(t, "healthy", "wipe")
    /\ UNCHANGED <<now, failures, until, stored>>

Wipe(t) ==
    /\ FreeF
    /\ Goes(t, "wipe", "calling")
    /\ until' = NoInstant /\ failures' = 0
    /\ UNCHANGED <<now, stored>>

\* is_rate_limited_only
LimitedOnly(t) ==
    /\ FreeF
    /\ Goes(t, "limitedOnly", IF failures < HardFailureThreshold THEN "calling" ELSE "idle")
    /\ UNCHANGED <<now, failures, until, stored>>

(***************************************************************************)
(* The reply leads to one of the other methods.                            *)
(***************************************************************************)
Replied(t) ==
    /\ \E method \in Replies : Goes(t, "calling", method)
    /\ UNCHANGED <<now, failures, until, stored>>

\* mark_hard_failure
Fail(t) ==
    /\ FreeF
    /\ failures' = failures + 1
    /\ Goes(t, "fail", IF ReachesThreshold(failures') THEN "die" ELSE "idle")
    /\ UNCHANGED <<now, until, stored>>

Die(t) ==
    /\ FreeU
    /\ Goes(t, "die", "store")
    /\ until' = now + HardFailureCooldown
    /\ UNCHANGED <<now, failures, stored>>

\* EndpointHealthStore::mark_dead
Store(t) ==
    /\ Goes(t, "store", "idle")
    /\ stored' = now + HardFailureCooldown
    /\ UNCHANGED <<now, failures, until>>

\* mark_rate_limited
Limit(t) ==
    /\ FreeU
    /\ Goes(t, "limit", "idle")
    /\ until' = now + RateLimitCooldown
    /\ UNCHANGED <<now, failures, stored>>

\* Faulty variant: an answer takes back one failure.
ClearOne(t) ==
    /\ FreeF
    /\ Goes(t, "clear", "idle") \/ Goes(t, "clear", "limit")
    /\ failures' = failures - 1
    /\ UNCHANGED <<now, until, stored>>

\* clear_failures, followed by mark_rate_limited if the answer says so.
Clear(t) ==
    /\ FreeF
    /\ \/ Goes(t, "clear", "idle")
       \/ "limit" \in Replies /\ Goes(t, "clear", "limit")
    /\ failures' = 0
    /\ UNCHANGED <<now, until, stored>>

\* reset: the two fields and the store's entry, one after the other.
ResetFailures(t) ==
    /\ FreeF
    /\ Goes(t, "reset", "resetUntil")
    /\ failures' = 0
    /\ UNCHANGED <<now, until, stored>>

ResetUntil(t) ==
    /\ FreeU
    /\ Goes(t, "resetUntil", "resetStore")
    /\ until' = NoInstant
    /\ UNCHANGED <<now, failures, stored>>

ResetStore(t) ==
    /\ Goes(t, "resetStore", "idle")
    /\ stored' = NoInstant
    /\ UNCHANGED <<now, failures, until>>

InMethod(t) ==
    \/ FindsAvailable(t) \/ FindsCooling(t) \/ FindsCooledDown(t) \/ Wipe(t)
    \/ LimitedOnly(t)
    \/ Fail(t) \/ Die(t) \/ Store(t)
    \/ Limit(t)
    \/ Clear(t)
    \/ ResetFailures(t) \/ ResetUntil(t) \/ ResetStore(t)

Tick ==
    /\ now < MaxTime
    /\ \A t \in Threads : pc[t] \in Outside
    /\ now' = now + 1
    /\ UNCHANGED <<failures, until, stored, pc>>

Next ==
    \/ \E t \in Threads : Check(t) \/ Replied(t) \/ InMethod(t)
    \/ Tick

Spec == Init /\ [][Next]_vars

\* A thread inside a method is run; when requests and replies come is open.
Fairness == \A t \in Threads : WF_vars(InMethod(t))

FairSpec == Spec /\ Fairness

-----------------------------------------------------------------------------

TypeOK ==
    /\ now \in Nat
    /\ failures \in Nat
    /\ until \in Instant
    /\ stored \in Instant
    /\ pc \in [Threads -> Outside \cup Inside]

(***************************************************************************)
(* The methods are atomic, and so is each of the three parts of `reset`:   *)
(* whatever the interleaving of the sections, the requests see a record,   *)
(* and a store, on which whole calls follow each other.  A failure counts  *)
(* once its method has reached U, and a death is stored as soon as it is   *)
(* set (both still under F).                                               *)
(***************************************************************************)
Dying == \E t \in Threads : pc[t] = "die"
Storing == \E t \in Threads : pc[t] = "store"

Atomic == INSTANCE AtomicHealth WITH
    health <- [failures |-> IF Dying THEN failures - 1 ELSE failures, until |-> until],
    stored <- IF Storing THEN now + HardFailureCooldown ELSE stored

MethodsAreAtomic == Atomic!AtomicSpec

(***************************************************************************)
(* A death that memory holds is in the store once nobody is changing it    *)
(* (`reset` running against the failures that kill the endpoint).  The     *)
(* code does not meet this; README, section 4.                             *)
(***************************************************************************)
DeathIsStored ==
    (\A t \in Threads : pc[t] \in Outside)
        => (failures >= HardFailureThreshold /\ until > now => stored >= until)

(***************************************************************************)
(* No request is stuck inside a method: every call returns.                *)
(***************************************************************************)
MethodsReturn == \A t \in Threads : pc[t] \in Inside ~> pc[t] \in Outside

=============================================================================
