------------------------ MODULE StateCapabilityProofs ------------------------
(***************************************************************************)
(* Proofs about StateCapability, for any number of endpoints, any heights  *)
(* of the chain and any lifetimes of the records.                          *)
(***************************************************************************)
EXTENDS StateCapability, TLAPS

\* A record that is well typed and whose marks do not contradict each other.
Sound(c) == c \in Capability /\ Consistent(c)

\* The records of memory and of the file are sound.
SoundStore ==
    /\ TypeOK
    /\ \A e \in Endpoints : Sound(entries[e]) /\ Sound(saved[e])

-----------------------------------------------------------------------------
\* A depth is a natural number if block and head are known.
LEMMA DepthType ==
    ASSUME NEW block \in Option, NEW head \in Option
    PROVE  /\ Depth(block, head) \in Option
           /\ block # None /\ head # None => Depth(block, head) \in Nat
  BY DEF Depth, Option, None

\* The empty record is sound.
LEMMA BlankIsSound == Sound(Blank)
  BY DEF Sound, Capability, Consistent, Blank, Option, None

\* A verification leaves a sound record sound, though the marks it compares
\* may have been made with or without a head.
LEMMA VerifyIsSound ==
    ASSUME NEW c, Sound(c), NEW block \in Nat, NEW head \in Option
    PROVE  Sound(Verify(c, block, head))
  <1>1. Verify(c, block, head) \in Capability
    BY DEF Sound, Capability, Verify, Option
  <1>2. Consistent(Verify(c, block, head))
    BY DEF Sound, Capability, Consistent, Verify, Deeper, ClearsPruned,
           VerifiedDepth, PrunedDepth, Depth, Option, None
  <1> QED
    BY <1>1, <1>2 DEF Sound

\* So does a pruned reply.
LEMMA PruneIsSound ==
    ASSUME NEW c, Sound(c), NEW block \in Nat, NEW head \in Option
    PROVE  Sound(Prune(c, block, head))
  <1>1. Prune(c, block, head) \in Capability
    BY DEF Sound, Capability, Prune, Option
  <1>2. Consistent(Prune(c, block, head))
    BY DEF Sound, Capability, Consistent, Prune, Shallower, Contradicts,
           VerifiedDepth, PrunedDepth, Depth, Option, None
  <1> QED
    BY <1>1, <1>2 DEF Sound

\* So does the accusation of a liar, which drops the verified mark.
LEMMA AccuseIsSound ==
    ASSUME NEW c, Sound(c) PROVE Sound(Accuse(c))
  BY DEF Sound, Capability, Consistent, Accuse, Option, None

-----------------------------------------------------------------------------
\* Neither the lifetime nor the failed probe of a record is one of its marks.
LEMMA MarksOnly ==
    ASSUME NEW c, Sound(c), NEW expiry \in Nat, NEW failed \in Option
    PROVE  /\ Sound([c EXCEPT !.expiresAt = expiry])
           /\ Sound([c EXCEPT !.failedUntil = failed, !.expiresAt = expiry])
  BY DEF Sound, Capability, Consistent, VerifiedDepth, PrunedDepth

\* What is left of a record at some time is sound.
LEMMA FreshIsSound ==
    ASSUME NEW c, Sound(c), NEW time PROVE Sound(FreshAt(c, time))
  BY BlankIsSound DEF FreshAt

\* A revision that keeps records sound keeps the store sound.
LEMMA UpdateIsSound ==
    ASSUME SoundStore, NEW e \in Endpoints, NEW revised, Sound(revised),
           NEW otherwise, Update(e, revised, otherwise)
    PROVE  /\ entries' \in [Endpoints -> Capability]
           /\ \A f \in Endpoints : Sound(entries'[f])
           /\ owing' \in BOOLEAN /\ UNCHANGED <<saved, missed>>
  <1> DEFINE new == [revised EXCEPT !.expiresAt = now + CapabilityTTL]
  <1>1. Sound(new)
    <2>1. now + CapabilityTTL \in Nat
      BY CapabilityAssumption DEF SoundStore, TypeOK
    <2> QED
      BY <2>1, MarksOnly DEF Sound, Capability, Option
  <1>2. entries' = [entries EXCEPT ![e] = new]
    BY DEF Update
  <1>3. \A f \in Endpoints : Sound(entries'[f])
    BY <1>1, <1>2 DEF SoundStore, TypeOK
  <1>4. \A f \in Endpoints : entries'[f] \in Capability
    BY <1>3 DEF Sound
  <1>5. entries' \in [Endpoints -> Capability]
    BY <1>2, <1>4 DEF SoundStore, TypeOK
  <1>6. owing' \in BOOLEAN
    BY Zenon DEF Update
  <1>7. UNCHANGED <<saved, missed>>
    BY DEF Update
  <1> QED
    BY <1>3, <1>5, <1>6, <1>7

\* A head that is noted, or not, is a head.
LEMMA NoteHeadType ==
    ASSUME TypeOK, NEW head \in Nat, NoteHead(head) PROVE live' \in Option
  BY DEF TypeOK, NoteHead, Option

\* The store is sound at the start and every step keeps it so.
LEMMA SoundInitially == Init => SoundStore
  <1> SUFFICES ASSUME Init PROVE SoundStore
    OBVIOUS
  <1>1. Blank \in Capability
    BY BlankIsSound DEF Sound
  <1> QED
    BY <1>1, BlankIsSound DEF Init, SoundStore, TypeOK, Option

\* Every step of the store keeps its records sound.
LEMMA SoundPreserved == SoundStore /\ [Next]_vars => SoundStore'
  <1> SUFFICES ASSUME SoundStore, [Next]_vars PROVE SoundStore'
    OBVIOUS
  <1>f. \A e \in Endpoints : Sound(Fresh(e))
    BY FreshIsSound DEF Fresh, SoundStore
  <1>b. Blocks \subseteq Nat /\ Heads \subseteq Option
    BY CapabilityAssumption DEF Blocks, Option
  <1>1. CASE UNCHANGED vars
    BY <1>1 DEF vars, SoundStore, TypeOK
  <1>2. ASSUME NEW head \in Heads \ {None}, SeeHead(head) PROVE SoundStore'
    <2>1. head \in Nat
      BY <1>b DEF Option
    <2> QED
      BY <1>2, <2>1, NoteHeadType DEF SeeHead, SoundStore, TypeOK
  <1>3. ASSUME NEW e \in Endpoints, NEW block \in Blocks, NEW head \in Heads,
               NEW newLatency \in BOOLEAN, RecordVerified(e, block, head, newLatency)
        PROVE  SoundStore'
    <2>1. Sound(Verify(Fresh(e), block, head))
      BY <1>b, <1>f, VerifyIsSound
    <2>2. live' \in Option
      <3>1. CASE head = None
        BY <1>3, <3>1 DEF RecordVerified, SoundStore, TypeOK
      <3>2. CASE head # None
        BY <1>3, <3>2, NoteHeadType, <1>b DEF RecordVerified, SoundStore, Option
      <3> QED
        BY <3>1, <3>2
    <2> QED
      BY <1>3, <2>1, <2>2, UpdateIsSound DEF RecordVerified, SoundStore, TypeOK
  <1>4. ASSUME NEW e \in Endpoints, NEW block \in Blocks, NEW head \in Heads,
               RecordPruned(e, block, head)
        PROVE  SoundStore'
    <2>1. Sound(Prune(Fresh(e), block, head))
      BY <1>b, <1>f, PruneIsSound
    <2> QED
      BY <1>4, <2>1, UpdateIsSound DEF RecordPruned, SoundStore, TypeOK
  <1>5. ASSUME NEW e \in Endpoints, RecordLiar(e) PROVE SoundStore'
    <2>1. Sound(Accuse(Fresh(e)))
      BY <1>f, AccuseIsSound
    <2> QED
      BY <1>5, <2>1, UpdateIsSound DEF RecordLiar, SoundStore, TypeOK
  <1>6. ASSUME NEW e \in Endpoints, RecordProbeFailure(e) PROVE SoundStore'
    <2> DEFINE until == now + ProbeFailureTTL
               failed == [Fresh(e) EXCEPT !.failedUntil = until,
                                          !.expiresAt = IF @ < until THEN until ELSE @]
    <2>1. until \in Nat /\ until \in Option /\ Fresh(e).expiresAt \in Nat
      BY <1>f, CapabilityAssumption DEF SoundStore, TypeOK, Sound, Capability, Option
    <2>2. Sound(failed)
      <3>1. PICK expiry \in Nat : failed = [Fresh(e) EXCEPT !.failedUntil = until,
                                                            !.expiresAt = expiry]
        BY <2>1
      <3> QED
        BY <1>f, <2>1, <3>1, MarksOnly
    <2>3. entries' = [entries EXCEPT ![e] = failed]
      BY <1>6 DEF RecordProbeFailure, NoteProbeFailure
    <2>4. \A f \in Endpoints : Sound(entries'[f])
      BY <2>2, <2>3 DEF SoundStore, TypeOK
    <2>5. \A f \in Endpoints : entries'[f] \in Capability
      BY <2>4 DEF Sound
    <2> QED
      BY <1>6, <2>3, <2>4, <2>5 DEF RecordProbeFailure, NoteProbeFailure, SoundStore, TypeOK
  <1>7. CASE Restart
    <2>1. \A f \in Endpoints : Sound(entries'[f])
      BY <1>7, FreshIsSound DEF Restart, Saved, SoundStore
    <2>2. \A f \in Endpoints : entries'[f] \in Capability
      BY <2>1 DEF Sound
    <2> QED
      BY <1>7, <2>1, <2>2 DEF Restart, Saved, SoundStore, TypeOK, Option
  <1>8. CASE Tick
    BY <1>8 DEF Tick, SoundStore, TypeOK
  <1>9. CASE Persist
    <2>1. \A f \in Endpoints : Sound(saved'[f])
      BY <1>9, FreshIsSound DEF Persist, Saved, SoundStore
    <2>2. \A f \in Endpoints : saved'[f] \in Capability
      BY <2>1 DEF Sound
    <2> QED
      BY <1>9, <2>1, <2>2 DEF Persist, Saved, SoundStore, TypeOK
  <1>10. CASE PersistFails
    BY <1>10 DEF PersistFails, SoundStore, TypeOK
  <1> QED
    BY <1>1, <1>2, <1>3, <1>4, <1>5, <1>6, <1>7, <1>8, <1>9, <1>10 DEF Next

-----------------------------------------------------------------------------
\* The store's variables keep their types, and its records stay sound.
THEOREM StoreIsSound == Spec => []SoundStore
  <1>1. Init => SoundStore
    BY SoundInitially
  <1>2. SoundStore /\ [Next]_vars => SoundStore'
    BY SoundPreserved
  <1> QED
    BY <1>1, <1>2, PTL DEF Spec

(***************************************************************************)
(* The two marks of a record never contradict each other (MarksConsistent),*)
(* however record_verified and record_pruned alternate and whatever comes  *)
(* back from the file.                                                     *)
(***************************************************************************)
THEOREM MarksReconcile == Spec => []MarksConsistent
  <1>1. SoundStore => MarksConsistent
    BY DEF SoundStore, MarksConsistent, Sound
  <1> QED
    BY <1>1, StoreIsSound, PTL

(***************************************************************************)
(* An observation is honoured at once (ObservationsHonoured): what was     *)
(* just verified is covered, what was just reported as pruned is not asked *)
(* again, whatever the record held before.                                 *)
(***************************************************************************)
THEOREM ObservationsAreHonoured == Spec => []ObservationsHonoured
  <1>1. ASSUME SoundStore, NEW e \in Endpoints, NEW block \in Blocks, NEW head \in Heads
        PROVE  LET c == Fresh(e) IN
               /\ CoverageOf(Verify(c, block, head), block, head) = Unless(c.liar, "Covered")
               /\ CoverageOf(Prune(c, block, head), block, head) = Unless(c.liar, "Pruned")
    <2> DEFINE c == Fresh(e)
    <2>1. Sound(c)
      BY <1>1, FreshIsSound DEF Fresh, SoundStore
    <2>2. block \in Nat /\ head \in Option
      BY CapabilityAssumption DEF Blocks, Option
    <2> HIDE DEF c
    <2>3. CoverageOf(Verify(c, block, head), block, head) = Unless(c.liar, "Covered")
      BY <2>1, <2>2
      DEF Sound, Consistent, Capability, Verify, Deeper, ClearsPruned, VerifiedDepth,
          PrunedDepth, Depth, Option, None, CoverageOf, IsPruned, IsVerified, Unless
    <2>4. CoverageOf(Prune(c, block, head), block, head) = Unless(c.liar, "Pruned")
      BY <2>1, <2>2
      DEF Sound, Capability, Prune, Shallower, VerifiedDepth,
          PrunedDepth, Depth, Option, None, CoverageOf, IsPruned, Unless
    <2> QED
      BY <2>3, <2>4 DEF c
  <1>2. SoundStore => ObservationsHonoured
    BY <1>1 DEF ObservationsHonoured
  <1> QED
    BY <1>2, StoreIsSound, PTL

(***************************************************************************)
(* Newer state is never harder to get (NewerIsNoWorse): `coverage` is      *)
(* monotonic in the block, for every record and head.                      *)
(***************************************************************************)
THEOREM CoverageIsMonotonic == Spec => []NewerIsNoWorse
  <1>1. ASSUME NEW c \in Capability, NEW block \in Nat, NEW newer \in Nat,
               NEW head \in Option, block <= newer
        PROVE  Rank(CoverageOf(c, block, head)) <= Rank(CoverageOf(c, newer, head))
    <2>1. IsPruned(c, newer, head) => IsPruned(c, block, head)
      BY <1>1 DEF Capability, IsPruned, PrunedDepth, Depth, Option, None
    <2>2. IsVerified(c, block, head) => IsVerified(c, newer, head)
      BY <1>1 DEF Capability, IsVerified, VerifiedDepth, Depth, Option, None
    <2> QED
      BY <2>1, <2>2, <1>1 DEF CoverageOf, Rank, Option, None
  <1>2. SoundStore => NewerIsNoWorse
    BY <1>1, CapabilityAssumption
    DEF SoundStore, TypeOK, NewerIsNoWorse, Blocks, Option
  <1> QED
    BY <1>2, StoreIsSound, PTL

-----------------------------------------------------------------------------
\* The records keep their types, and the clock its (TypeOK).
THEOREM RecordsTyped == Spec => []TypeOK
  <1>1. SoundStore => TypeOK
    BY DEF SoundStore
  <1> QED
    BY <1>1, StoreIsSound, PTL

(***************************************************************************)
(* The file is not behind the memory.  It takes one more fact to prove it: *)
(* no record outlives a lifetime that begins now, so that one which is     *)
(* renewed without being written still outlives its copy.                  *)
(***************************************************************************)
LifetimesBounded ==
    \A e \in Endpoints : /\ entries[e].expiresAt <= now + CapabilityTTL
                         /\ saved[e].expiresAt <= now + CapabilityTTL

Follows(copy, record) ==
    /\ record.expiresAt >= copy.expiresAt
    /\ [copy EXCEPT !.expiresAt = record.expiresAt] = record

FileInv == SoundStore /\ LifetimesBounded /\ FileIsNotBehind

\* What persist writes follows memory, and lives no longer.
LEMMA SavedFollows ==
    ASSUME NEW records, records \in [Endpoints -> Capability], now \in Nat,
           NEW e \in Endpoints
    PROVE  /\ Saved(records)[e].expiresAt > now => Follows(Saved(records)[e], records[e])
           /\ records[e].expiresAt <= now + CapabilityTTL
                 => Saved(records)[e].expiresAt <= now + CapabilityTTL
  <1>1. Saved(records)[e] = FreshAt(records[e], now)
    BY DEF Saved
  <1>2. records[e].expiresAt \in Nat /\ records[e] \in Capability
    BY DEF Capability
  <1>3. CASE records[e].expiresAt > now
    <2>1. Saved(records)[e] = records[e]
      BY <1>1, <1>3 DEF FreshAt
    <2> QED
      BY <2>1, <1>2 DEF Follows, Capability
  <1>4. CASE ~(records[e].expiresAt > now)
    <2>1. Saved(records)[e].expiresAt = 0
      BY <1>1, <1>4 DEF FreshAt, Blank
    <2> QED
      BY <2>1, CapabilityAssumption
  <1> QED
    BY <1>3, <1>4

\* A revision owes a write unless the file's copy follows it as it is.
LEMMA UpdateFollows ==
    ASSUME FileInv, NEW e \in Endpoints, NEW revised, Sound(revised),
           NEW otherwise, Update(e, revised, otherwise), now' = now
    PROVE  LifetimesBounded' /\ FileIsNotBehind'
  <1> DEFINE new == [revised EXCEPT !.expiresAt = now + CapabilityTTL]
  <1>t. now \in Nat /\ entries \in [Endpoints -> Capability] /\ saved \in [Endpoints -> Capability]
    BY DEF FileInv, SoundStore, TypeOK
  <1>n. new \in Capability /\ new.expiresAt = now + CapabilityTTL
    BY <1>t, CapabilityAssumption DEF Sound, Capability
  <1>e. entries' = [entries EXCEPT ![e] = new] /\ saved' = saved /\ missed' = missed
    BY DEF Update
  <1>1. LifetimesBounded'
    BY <1>e, <1>n, <1>t, CapabilityAssumption DEF FileInv, LifetimesBounded, Capability
  <1>2. ASSUME ~owing', ~missed', NEW f \in Endpoints, saved[f].expiresAt > now
        PROVE  Follows(saved[f], entries'[f])
    <2>1. ~owing /\ ~WorthWriting(Fresh(e), new)
      BY <1>2, Zenon DEF Update
    <2>2. [Fresh(e) EXCEPT !.expiresAt = new.expiresAt] = new
      BY <2>1 DEF WorthWriting
    <2>3. Follows(saved[f], entries[f])
      BY <1>2, <1>e, <2>1 DEF FileInv, FileIsNotBehind, Follows
    <2>4. CASE f # e
      BY <2>3, <2>4, <1>e, <1>t
    <2>5. CASE f = e
      <3>1. entries[e].expiresAt > now
        BY <1>2, <2>3, <2>5, <1>t DEF Follows, Capability
      <3>2. Fresh(e) = entries[e]
        BY <3>1 DEF Fresh, FreshAt
      <3>3. saved[e].expiresAt <= new.expiresAt
        BY <1>n DEF FileInv, LifetimesBounded
      <3>4. [saved[e] EXCEPT !.expiresAt = new.expiresAt] = new
        BY <2>2, <2>3, <2>5, <3>2, <1>t, <1>n DEF Follows, Capability
      <3>5. entries'[e] = new
        BY <1>e, <1>t
      <3> HIDE DEF new
      <3> QED
        BY <2>5, <3>3, <3>4, <3>5, <1>n, <1>t DEF Follows, Capability
    <2> QED
      BY <2>4, <2>5
  <1> QED
    BY <1>1, <1>2, <1>e DEF FileIsNotBehind, Follows

\* Every step of the store keeps the file from falling behind unnoticed.
LEMMA FilePreserved == FileInv /\ [Next]_vars => FileInv'
  <1> SUFFICES ASSUME FileInv, [Next]_vars PROVE LifetimesBounded' /\ FileIsNotBehind'
    BY SoundPreserved DEF FileInv
  <1>t. now \in Nat /\ entries \in [Endpoints -> Capability] /\ saved \in [Endpoints -> Capability]
    BY DEF FileInv, SoundStore, TypeOK
  <1>f. \A e \in Endpoints : Sound(Fresh(e))
    BY FreshIsSound DEF Fresh, FileInv, SoundStore
  <1>b. Blocks \subseteq Nat /\ Heads \subseteq Option
    BY CapabilityAssumption DEF Blocks, Option
  <1>1. CASE UNCHANGED <<now, entries, saved, owing, missed>>
    BY <1>1 DEF FileInv, LifetimesBounded, FileIsNotBehind
  <1>2. ASSUME NEW e \in Endpoints, NEW block \in Blocks, NEW head \in Heads,
               NEW newLatency \in BOOLEAN, RecordVerified(e, block, head, newLatency)
        PROVE  LifetimesBounded' /\ FileIsNotBehind'
    BY <1>2, <1>b, <1>f, VerifyIsSound, UpdateFollows DEF RecordVerified
  <1>3. ASSUME NEW e \in Endpoints, NEW block \in Blocks, NEW head \in Heads,
               RecordPruned(e, block, head)
        PROVE  LifetimesBounded' /\ FileIsNotBehind'
    BY <1>3, <1>b, <1>f, PruneIsSound, UpdateFollows DEF RecordPruned
  <1>4. ASSUME NEW e \in Endpoints, RecordLiar(e)
        PROVE  LifetimesBounded' /\ FileIsNotBehind'
    BY <1>4, <1>f, AccuseIsSound, UpdateFollows DEF RecordLiar
  <1>5. ASSUME NEW e \in Endpoints, RecordProbeFailure(e)
        PROVE  LifetimesBounded' /\ FileIsNotBehind'
    <2>1. saved' = saved /\ now' = now /\ owing'
      BY <1>5 DEF RecordProbeFailure, NoteProbeFailure
    <2>2. Fresh(e) \in Capability
      BY <1>f DEF Sound
    <2>3. Fresh(e).expiresAt <= now + CapabilityTTL
      <3>1. CASE entries[e].expiresAt > now
        BY <3>1 DEF Fresh, FreshAt, FileInv, LifetimesBounded
      <3>2. CASE ~(entries[e].expiresAt > now)
        BY <3>2, <1>t, CapabilityAssumption DEF Fresh, FreshAt, Blank
      <3> QED
        BY <3>1, <3>2
    <2>4. entries'[e].expiresAt <= now + CapabilityTTL
      BY <1>5, <1>t, <2>2, <2>3, CapabilityAssumption
      DEF RecordProbeFailure, NoteProbeFailure, Capability
    <2>5. \A f \in Endpoints : f # e => entries'[f] = entries[f]
      BY <1>5, <1>t DEF RecordProbeFailure, NoteProbeFailure
    <2> QED
      BY <2>1, <2>4, <2>5 DEF FileInv, LifetimesBounded, FileIsNotBehind
  <1>6. CASE Restart
    <2>1. entries' = Saved(saved) /\ saved' = saved /\ now' = now
      BY <1>6 DEF Restart
    <2>2. \A f \in Endpoints : entries'[f] = FreshAt(saved[f], now)
      BY <2>1 DEF Saved
    <2>3. \A f \in Endpoints : saved[f].expiresAt > now => entries'[f] = saved[f]
      BY <2>2 DEF FreshAt
    <2>4. \A f \in Endpoints : entries'[f].expiresAt <= now + CapabilityTTL
      BY <2>2, <1>t, CapabilityAssumption DEF FreshAt, Blank, FileInv, LifetimesBounded
    <2> QED
      BY <1>t, <2>1, <2>3, <2>4 DEF FileInv, LifetimesBounded, FileIsNotBehind, Capability
  <1>7. CASE Tick
    BY <1>7, <1>t, CapabilityAssumption
    DEF Tick, FileInv, LifetimesBounded, FileIsNotBehind, Capability
  <1>8. CASE Persist
    <2>1. saved' = Saved(entries) /\ entries' = entries /\ now' = now
      BY <1>8 DEF Persist
    <2>2. \A f \in Endpoints :
             /\ saved'[f].expiresAt > now => Follows(saved'[f], entries[f])
             /\ saved'[f].expiresAt <= now + CapabilityTTL
      BY <1>t, <2>1, SavedFollows DEF FileInv, LifetimesBounded
    <2> QED
      BY <2>1, <2>2 DEF FileInv, LifetimesBounded, FileIsNotBehind, Follows
  <1>9. CASE PersistFails
    BY <1>9 DEF PersistFails, FileInv, LifetimesBounded, FileIsNotBehind
  <1> QED
    BY <1>1, <1>2, <1>3, <1>4, <1>5, <1>6, <1>7, <1>8, <1>9 DEF Next, vars, SeeHead

\* A new installation has nothing to fall behind.
LEMMA FileInitially == Init => FileInv
  <1>1. Init => LifetimesBounded /\ FileIsNotBehind
    BY CapabilityAssumption DEF Init, LifetimesBounded, FileIsNotBehind, Blank
  <1> QED
    BY <1>1, SoundInitially DEF FileInv

LEMMA FileInvariant == Spec => []FileInv
  <1> QED
    BY FileInitially, FilePreserved, PTL DEF Spec

(***************************************************************************)
(* Once the writes owed are made, the file's unexpired records are those   *)
(* of memory (FileIsNotBehind): what `update` judges not worth a write     *)
(* really says the same, and a later write makes up for a failed one.      *)
(***************************************************************************)
THEOREM FileFollows == Spec => []FileIsNotBehind
  <1>1. FileInv => FileIsNotBehind
    BY DEF FileInv
  <1> QED
    BY <1>1, FileInvariant, PTL

(***************************************************************************)
(* A liar stays a liar for the lifetime of its record (LiarsStay); only a  *)
(* restart before the flag is in the file, or after the file's record has  *)
(* expired, can clear it.                                                  *)
(***************************************************************************)
THEOREM LiarsStayLiars == Spec => LiarsStay
  <1> DEFINE Stays == \A e \in Endpoints :
                  Fresh(e).liar /\ ~Fresh(e)'.liar
                     => entries[e].expiresAt <= now' \/ ByRestart(e)
  <1>1. ASSUME FileInv, [Next]_vars, NEW e \in Endpoints, Fresh(e).liar,
               ~(entries[e].expiresAt <= now'), ~ByRestart(e)
        PROVE  Fresh(e)'.liar
    <2>t. now \in Nat /\ now' \in Nat /\ entries \in [Endpoints -> Capability]
          /\ saved \in [Endpoints -> Capability]
      BY <1>1, SoundPreserved DEF FileInv, SoundStore, TypeOK
    <2>1. now' >= now
      <3>1. now' = now \/ now' = now + 1
        BY <1>1
        DEF Next, vars, SeeHead, RecordVerified, RecordPruned, RecordLiar,
            RecordProbeFailure, Persist, PersistFails, Restart, Tick
      <3> QED
        BY <3>1, <2>t
    <2>4. entries[e].expiresAt > now' /\ Fresh(e) = entries[e] /\ entries[e].liar
      BY <1>1, <2>t, <2>1 DEF Fresh, FreshAt, Capability
    <2> SUFFICES entries'[e].expiresAt > now' /\ entries'[e].liar
      BY DEF Fresh, FreshAt
    <2>u. ASSUME NEW f \in Endpoints, NEW revised, revised \in Capability, NEW otherwise,
                 Update(f, revised, otherwise), now' = now, f = e => revised.liar
          PROVE  entries'[e].expiresAt > now' /\ entries'[e].liar
      <3>1. CASE f = e
        BY <2>u, <3>1, <2>t, CapabilityAssumption DEF Update, Capability
      <3>2. CASE f # e
        BY <2>u, <3>2, <2>t, <2>4 DEF Update
      <3> QED
        BY <3>1, <3>2
    <2>f. \A f \in Endpoints : Sound(Fresh(f))
      BY <1>1, FreshIsSound DEF Fresh, FileInv, SoundStore
    <2>b. Blocks \subseteq Nat /\ Heads \subseteq Option
      BY CapabilityAssumption DEF Blocks, Option
    <2>5. CASE now' = now /\ entries' = entries
      BY <2>5, <2>4
    <2>6. ASSUME NEW f \in Endpoints, NEW block \in Blocks, NEW head \in Heads,
                 NEW newLatency \in BOOLEAN, RecordVerified(f, block, head, newLatency)
          PROVE  entries'[e].expiresAt > now' /\ entries'[e].liar
      <3>1. Verify(Fresh(f), block, head) \in Capability
        BY <2>b, <2>f, VerifyIsSound DEF Sound
      <3>2. f = e => Verify(Fresh(f), block, head).liar
        BY <2>4, <2>t DEF Verify, Capability
      <3> QED
        BY <2>6, <3>1, <3>2, <2>u DEF RecordVerified
    <2>7. ASSUME NEW f \in Endpoints, NEW block \in Blocks, NEW head \in Heads,
                 RecordPruned(f, block, head)
          PROVE  entries'[e].expiresAt > now' /\ entries'[e].liar
      <3>1. Prune(Fresh(f), block, head) \in Capability
        BY <2>b, <2>f, PruneIsSound DEF Sound
      <3>2. f = e => Prune(Fresh(f), block, head).liar
        BY <2>4, <2>t DEF Prune, Capability
      <3> QED
        BY <2>7, <3>1, <3>2, <2>u DEF RecordPruned
    <2>8. ASSUME NEW f \in Endpoints, RecordLiar(f)
          PROVE  entries'[e].expiresAt > now' /\ entries'[e].liar
      <3>1. Accuse(Fresh(f)) \in Capability /\ Accuse(Fresh(f)).liar
        BY <2>f, AccuseIsSound DEF Sound, Accuse, Capability
      <3> QED
        BY <2>8, <3>1, <2>u DEF RecordLiar
    <2>9. ASSUME NEW f \in Endpoints, RecordProbeFailure(f)
          PROVE  entries'[e].expiresAt > now' /\ entries'[e].liar
      <3>1. CASE f = e
        BY <2>9, <3>1, <2>t, <2>4, CapabilityAssumption
        DEF RecordProbeFailure, NoteProbeFailure, Capability
      <3>2. CASE f # e
        BY <2>9, <3>2, <2>t, <2>4 DEF RecordProbeFailure, NoteProbeFailure
      <3> QED
        BY <3>1, <3>2
    <2>10. CASE Restart
      <3>1. ~owing /\ ~missed /\ saved[e].expiresAt > now
        BY <1>1, <2>10, <2>t DEF ByRestart, Capability
      <3>2. Follows(saved[e], entries[e])
        BY <1>1, <3>1 DEF FileInv, FileIsNotBehind, Follows
      <3>3. saved[e].liar
        BY <3>2, <2>4, <2>t DEF Follows, Capability
      <3> QED
        BY <2>10, <3>1, <3>3 DEF Restart, Saved, FreshAt
    <2>11. CASE Tick
      BY <2>11, <2>4 DEF Tick
    <2> QED
      BY <1>1, <2>5, <2>6, <2>7, <2>8, <2>9, <2>10, <2>11
      DEF Next, vars, SeeHead, Persist, PersistFails
  <1>2. FileInv /\ [Next]_vars => Stays
    BY <1>1
  <1>3. FileInv /\ [Next]_vars => [Stays]_vars
    BY <1>2
  <1> QED
    BY <1>3, FileInvariant, PTL DEF Spec, LiarsStay

=============================================================================
