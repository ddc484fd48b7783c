------------------------- MODULE EndpointLocksProofs -------------------------
(***************************************************************************)
(* Proofs about EndpointLocks: the methods of RpcEndpoint, and the parts   *)
(* of `reset`, are atomic, for any number of threads and any thresholds.   *)
(***************************************************************************)
EXTENDS EndpointLocks, TLAPS

(***************************************************************************)
(* The inductive invariant: both locks exclude, a thread about to set a    *)
(* death has counted enough failures, and one about to wipe the record has *)
(* seen its cooldown over.                                                 *)
(***************************************************************************)
LocksExclude ==
    /\ \A t, u \in Threads : HoldsF(t) /\ HoldsF(u) => t = u
    /\ \A t, u \in Threads : HoldsU(t) /\ HoldsU(u) => t = u

DyingIsDue == \A t \in Threads : pc[t] = "die" => ReachesThreshold(failures)

WipingIsDue == \A t \in Threads : pc[t] = "wipe" => until # NoInstant /\ until <= now

LocksInv == TypeOK /\ LocksExclude /\ DyingIsDue /\ WipingIsDue

\* The invariant holds at the start and every step keeps it.
LEMMA LocksInitially == Init => LocksInv
  BY HealthAssumption
  DEF Init, LocksInv, TypeOK, LocksExclude, DyingIsDue, WipingIsDue, HoldsF, HoldsU,
      Instant, NoInstant, Outside, Inside

\* Every step of a thread in any of the methods, and of time, keeps LocksInv.
LEMMA LocksPreserved == LocksInv /\ [Next]_vars => LocksInv'
  <1> SUFFICES ASSUME LocksInv, [Next]_vars PROVE LocksInv'
    OBVIOUS
  <1> USE HealthAssumption, LocksAssumption
  <1> USE DEF LocksInv, TypeOK, LocksExclude, DyingIsDue, WipingIsDue, HoldsF, HoldsU,
              Instant, NoInstant, Outside, Inside, Goes, ReachesThreshold
  <1>1. CASE UNCHANGED vars
    BY <1>1 DEF vars
  <1>2. CASE Tick
    BY <1>2 DEF Tick
  <1>3. ASSUME NEW t \in Threads, Check(t) PROVE LocksInv'
    BY <1>3 DEF Check
  <1>4. ASSUME NEW t \in Threads, Replied(t) PROVE LocksInv'
    BY <1>4 DEF Replied, Methods
  <1>5. ASSUME NEW t \in Threads, FindsAvailable(t) PROVE LocksInv'
    BY <1>5 DEF FindsAvailable
  <1>6. ASSUME NEW t \in Threads, FindsCooling(t) PROVE LocksInv'
    BY <1>6 DEF FindsCooling
  <1>7. ASSUME NEW t \in Threads, FindsCooledDown(t) PROVE LocksInv'
    BY <1>7 DEF FindsCooledDown, FreeU
  <1>8. ASSUME NEW t \in Threads, Wipe(t) PROVE LocksInv'
    BY <1>8 DEF Wipe, FreeF
  <1>9. ASSUME NEW t \in Threads, LimitedOnly(t) PROVE LocksInv'
    BY <1>9 DEF LimitedOnly
  <1>10. ASSUME NEW t \in Threads, Fail(t) PROVE LocksInv'
    BY <1>10 DEF Fail, FreeF
  <1>11. ASSUME NEW t \in Threads, Die(t) PROVE LocksInv'
    BY <1>11 DEF Die, FreeU
  <1>12. ASSUME NEW t \in Threads, Store(t) PROVE LocksInv'
    BY <1>12 DEF Store
  <1>13. ASSUME NEW t \in Threads, Limit(t) PROVE LocksInv'
    BY <1>13 DEF Limit, FreeU
  <1>14. ASSUME NEW t \in Threads, Clear(t) PROVE LocksInv'
    BY <1>14 DEF Clear, FreeF
  <1>15. ASSUME NEW t \in Threads, ResetFailures(t) PROVE LocksInv'
    BY <1>15 DEF ResetFailures, FreeF
  <1>16. ASSUME NEW t \in Threads, ResetUntil(t) PROVE LocksInv'
    BY <1>16 DEF ResetUntil, FreeU
  <1>17. ASSUME NEW t \in Threads, ResetStore(t) PROVE LocksInv'
    BY <1>17 DEF ResetStore
  <1> QED
    BY <1>1, <1>2, <1>3, <1>4, <1>5, <1>6, <1>7, <1>8, <1>9, <1>10, <1>11, <1>12,
       <1>13, <1>14, <1>15, <1>16, <1>17
    DEF Next, InMethod

\* The invariant is one of the specification.
THEOREM LocksInvariant == Spec => []LocksInv
  <1>1. Init => LocksInv
    BY LocksInitially
  <1>2. LocksInv /\ [Next]_vars => LocksInv'
    BY LocksPreserved
  <1> QED
    BY <1>1, <1>2, PTL DEF Spec

\* Counter, instant, store and threads keep their types (TypeOK).
THEOREM LocksTyped == Spec => []TypeOK
  <1>1. LocksInv => TypeOK
    BY DEF LocksInv
  <1> QED
    BY <1>1, LocksInvariant, PTL

(***************************************************************************)
(* The record and the store's entry as the abstract machine sees them.     *)
(***************************************************************************)
AbstractHealth ==
    [failures |-> IF Dying THEN failures - 1 ELSE failures, until |-> until]

AbstractStored == IF Storing THEN now + HardFailureCooldown ELSE stored

Stutters == AbstractHealth' = AbstractHealth /\ AbstractStored' = AbstractStored /\ now' = now

\* Steps between methods, and those that only read, change nothing visible.
LEMMA QuietSteps ==
    ASSUME LocksInv, NEW t \in Threads,
           \/ Check(t) \/ Replied(t) \/ LimitedOnly(t)
           \/ FindsAvailable(t) \/ FindsCooling(t) \/ FindsCooledDown(t)
    PROVE  Stutters
  <1>1. UNCHANGED <<now, failures, until, stored>>
    BY DEF Check, Replied, LimitedOnly, FindsAvailable, FindsCooling, FindsCooledDown
  <1>2. PICK from, to : Goes(t, from, to) /\ from \notin {"die", "store"} /\ to \notin {"die", "store"}
    BY LocksAssumption
    DEF Check, Replied, LimitedOnly, FindsAvailable, FindsCooling, FindsCooledDown, Methods, Goes
  <1>3. Dying' = Dying /\ Storing' = Storing
    BY <1>2 DEF Goes, Dying, Storing, LocksInv, TypeOK
  <1> QED
    BY <1>1, <1>3 DEF Stutters, AbstractHealth, AbstractStored

\* A thread that gets F finds nobody dying or storing.
LEMMA FreeFIsQuiet ==
    ASSUME FreeF PROVE ~Dying /\ ~Storing
  BY DEF FreeF, HoldsF, Dying, Storing

(***************************************************************************)
(* The methods of RpcEndpoint are atomic, and so is each part of `reset`   *)
(* (MethodsAreAtomic): whatever the interleaving of the lock sections, the *)
(* record and the store change by whole calls.                             *)
(***************************************************************************)
THEOREM AtomicMethods == Spec => MethodsAreAtomic
  <1>1. Init => Atomic!AtomicInit
    BY DEF Init, Atomic!AtomicInit, Atomic!FreshHealth, Atomic!NoInstant, NoInstant,
           Dying, Storing
  <1>2. ASSUME LocksInv, [Next]_vars
        PROVE  [Atomic!AtomicNext]_(Atomic!atomicVars)
    <2> DEFINE Goal == [Atomic!AtomicNext]_(Atomic!atomicVars)
    <2>1. Stutters => Goal
      BY DEF Stutters, AbstractHealth, AbstractStored, Atomic!atomicVars
    <2>2. CASE UNCHANGED vars
      BY <2>2, <2>1 DEF vars, Stutters, AbstractHealth, AbstractStored, Dying, Storing
    <2>3. CASE Tick
      <3>1. ~Dying /\ ~Storing /\ pc' = pc
        BY <2>3 DEF Tick, Outside, Dying, Storing
      <3>2. ~Dying' /\ ~Storing'
        BY <3>1 DEF Dying, Storing
      <3>3. Atomic!TimePasses
        BY <2>3, <3>1, <3>2 DEF Tick, Atomic!TimePasses
      <3> QED
        BY <3>3 DEF Atomic!AtomicNext
    <2>4. ASSUME NEW t \in Threads,
                 \/ Check(t) \/ Replied(t) \/ LimitedOnly(t)
                 \/ FindsAvailable(t) \/ FindsCooling(t) \/ FindsCooledDown(t)
          PROVE  Goal
      BY <1>2, <2>1, <2>4, QuietSteps
    <2>5. ASSUME NEW t \in Threads, Wipe(t) PROVE Goal
      <3>1. ~Dying /\ ~Storing
        BY <2>5, FreeFIsQuiet DEF Wipe
      <3>2. ~Dying' /\ ~Storing'
        BY <1>2, <2>5, <3>1 DEF Wipe, Goes, Dying, Storing, LocksInv, TypeOK
      <3>3. until # NoInstant /\ until <= now
        BY <1>2, <2>5 DEF Wipe, Goes, LocksInv, WipingIsDue
      <3>4. Atomic!IsHealthyCalled
        BY <2>5, <3>1, <3>2, <3>3
        DEF Wipe, Atomic!IsHealthyCalled, Atomic!Refresh, Atomic!FreshHealth,
            Atomic!NoInstant, NoInstant
      <3> QED
        BY <2>5, <3>4 DEF Wipe, Atomic!AtomicNext, Atomic!Called
    <2>6. ASSUME NEW t \in Threads, Fail(t) PROVE Goal
      <3>1. ~Dying /\ ~Storing /\ failures' = failures + 1 /\ failures \in Nat
        BY <1>2, <2>6, FreeFIsQuiet DEF Fail, LocksInv, TypeOK
      <3>2. CASE ReachesThreshold(failures')
        <4>1. Dying' /\ ~Storing'
          BY <1>2, <2>6, <3>1, <3>2 DEF Fail, Goes, Dying, Storing, LocksInv, TypeOK
        <4> QED
          BY <2>6, <2>1, <3>1, <4>1 DEF Fail, Stutters, AbstractHealth, AbstractStored
      <3>3. CASE ~ReachesThreshold(failures')
        <4>1. ~Dying' /\ ~Storing'
          BY <1>2, <2>6, <3>1, <3>3 DEF Fail, Goes, Dying, Storing, LocksInv, TypeOK
        <4>2. Atomic!MarkHardFailureCalled
          BY <2>6, <3>1, <3>3, <4>1
          DEF Fail, Atomic!MarkHardFailureCalled, Atomic!MarkHardFailure,
              Atomic!ReachesThreshold, ReachesThreshold
        <4> QED
          BY <2>6, <4>2 DEF Fail, Atomic!AtomicNext, Atomic!Called
      <3> QED
        BY <3>2, <3>3
    <2>7. ASSUME NEW t \in Threads, Die(t) PROVE Goal
      <3>1. Dying /\ ~Storing /\ failures \in Nat /\ ReachesThreshold(failures)
        BY <1>2, <2>7
        DEF Die, Goes, Dying, Storing, LocksInv, TypeOK, LocksExclude, HoldsF, DyingIsDue
      <3>2. ~Dying' /\ Storing'
        BY <1>2, <2>7
        DEF Die, Goes, Dying, Storing, LocksInv, TypeOK, LocksExclude, HoldsF
      <3>3. Atomic!MarkHardFailureCalled
        BY <2>7, <3>1, <3>2
        DEF Die, Atomic!MarkHardFailureCalled, Atomic!MarkHardFailure,
            Atomic!ReachesThreshold, ReachesThreshold
      <3> QED
        BY <2>7, <3>3 DEF Die, Atomic!AtomicNext, Atomic!Called
    <2>8. ASSUME NEW t \in Threads, Store(t) PROVE Goal
      <3>1. ~Dying /\ Storing
        BY <1>2, <2>8
        DEF Store, Goes, Dying, Storing, LocksInv, TypeOK, LocksExclude, HoldsF
      <3>2. ~Dying' /\ ~Storing'
        BY <1>2, <2>8
        DEF Store, Goes, Dying, Storing, LocksInv, TypeOK, LocksExclude, HoldsF
      <3> QED
        BY <2>8, <2>1, <3>1, <3>2 DEF Store, Stutters, AbstractHealth, AbstractStored
    <2>9. ASSUME NEW t \in Threads, Limit(t) PROVE Goal
      <3>1. Dying' = Dying /\ Storing' = Storing
        BY <1>2, <2>9 DEF Limit, Goes, Dying, Storing, LocksInv, TypeOK
      <3>2. Atomic!MarkRateLimitedCalled
        BY <2>9, <3>1 DEF Limit, Atomic!MarkRateLimitedCalled, Atomic!MarkRateLimited
      <3> QED
        BY <2>9, <3>2 DEF Limit, Atomic!AtomicNext, Atomic!Called
    <2>10. ASSUME NEW t \in Threads, Clear(t) PROVE Goal
      <3>1. ~Dying /\ ~Storing
        BY <2>10, FreeFIsQuiet DEF Clear
      <3>2. ~Dying' /\ ~Storing'
        BY <1>2, <2>10, <3>1 DEF Clear, Goes, Dying, Storing, LocksInv, TypeOK
      <3>3. Atomic!ClearFailuresCalled
        BY <2>10, <3>1, <3>2 DEF Clear, Atomic!ClearFailuresCalled, Atomic!ClearFailures
      <3> QED
        BY <2>10, <3>3 DEF Clear, Atomic!AtomicNext, Atomic!Called
    <2>11. ASSUME NEW t \in Threads, ResetFailures(t) PROVE Goal
      <3>1. ~Dying /\ ~Storing
        BY <2>11, FreeFIsQuiet DEF ResetFailures
      <3>2. ~Dying' /\ ~Storing'
        BY <1>2, <2>11, <3>1 DEF ResetFailures, Goes, Dying, Storing, LocksInv, TypeOK
      <3>3. Atomic!FailuresReset
        BY <2>11, <3>1, <3>2 DEF ResetFailures, Atomic!FailuresReset
      <3> QED
        BY <2>11, <3>3 DEF ResetFailures, Atomic!AtomicNext, Atomic!Called
    <2>12. ASSUME NEW t \in Threads, ResetUntil(t) PROVE Goal
      <3>1. Dying' = Dying /\ Storing' = Storing
        BY <1>2, <2>12 DEF ResetUntil, Goes, Dying, Storing, LocksInv, TypeOK
      <3>2. Atomic!CooldownReset
        BY <2>12, <3>1 DEF ResetUntil, Atomic!CooldownReset, Atomic!NoInstant, NoInstant
      <3> QED
        BY <2>12, <3>2 DEF ResetUntil, Atomic!AtomicNext, Atomic!Called
    <2>13. ASSUME NEW t \in Threads, ResetStore(t) PROVE Goal
      <3>1. Dying' = Dying /\ Storing' = Storing
        BY <1>2, <2>13 DEF ResetStore, Goes, Dying, Storing, LocksInv, TypeOK
      <3>2. CASE Storing
        BY <2>13, <2>1, <3>1, <3>2 DEF ResetStore, Stutters, AbstractHealth, AbstractStored
      <3>3. CASE ~Storing
        <4>1. Atomic!EntryReset
          BY <2>13, <3>1, <3>3 DEF ResetStore, Atomic!EntryReset, Atomic!NoInstant, NoInstant
        <4> QED
          BY <2>13, <4>1 DEF ResetStore, Atomic!AtomicNext, Atomic!Called
      <3> QED
        BY <3>2, <3>3
    <2> QED
      BY <1>2, <2>2, <2>3, <2>4, <2>5, <2>6, <2>7, <2>8, <2>9, <2>10, <2>11, <2>12,
         <2>13
      DEF Next, InMethod
  <1> QED
    BY <1>1, <1>2, LocksInvariant, PTL DEF Spec, MethodsAreAtomic, Atomic!AtomicSpec

=============================================================================
