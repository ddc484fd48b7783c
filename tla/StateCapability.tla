--------------------------- MODULE StateCapability ---------------------------
(***************************************************************************)
(* What the proxy remembers of the historical state an endpoint can serve  *)
(* (capability.rs): the record of one endpoint, its reading by `coverage`, *)
(* and the store that revises it as probes, replies and heads come in and  *)
(* that a new process reads back from its file.  The chain is implicit; of *)
(* the latency only whether it changed is kept.                            *)
(***************************************************************************)
EXTENDS Integers

CONSTANTS
    Endpoints,
    CapabilityTTL,     \* STATE_CAPABILITY_TTL, 7 days
    ProbeFailureTTL,   \* PROBE_FAILURE_TTL, 1 hour
    MaxBlock,          \* bound: the highest block of the instance
    Heads,             \* bound: the heads that observations come with, or None
    MaxTime            \* bound: the clock's last value

None == -1
Option == Nat \cup {None}

ASSUME CapabilityAssumption ==
    /\ CapabilityTTL \in Nat \ {0}
    /\ ProbeFailureTTL \in Nat \ {0}
    /\ ProbeFailureTTL <= CapabilityTTL
    /\ MaxBlock \in Nat
    /\ Heads \subseteq 0 .. MaxBlock \cup {None}
    /\ MaxTime \in Nat

Capability == [
    verifiedBlock : Option,   \* deepest block whose state it served
    verifiedHead  : Option,   \* the head at that time, if known
    prunedBlock   : Option,   \* shallowest block it reported as pruned
    prunedHead    : Option,
    liar          : BOOLEAN,
    failedUntil   : Option,   \* probe_failed_until
    expiresAt     : Nat]      \* 0: no record

Blank == [
    verifiedBlock |-> None, verifiedHead |-> None, prunedBlock |-> None,
    prunedHead |-> None, liar |-> FALSE, failedUntil |-> None, expiresAt |-> 0]

(***************************************************************************)
(* Reading a record.  Depths are compared when both are known, block       *)
(* numbers otherwise.                                                      *)
(***************************************************************************)
Depth(block, head) ==
    IF block = None \/ head = None THEN None
    ELSE IF block <= head THEN head - block ELSE 0

VerifiedDepth(c) == Depth(c.verifiedBlock, c.verifiedHead)
PrunedDepth(c) == Depth(c.prunedBlock, c.prunedHead)

IsPruned(c, block, head) ==
    /\ c.prunedBlock # None
    /\ IF head # None /\ c.prunedHead # None
       THEN Depth(block, head) >= PrunedDepth(c)
       ELSE block <= c.prunedBlock

\* Faulty variant: the depths are compared the wrong way round.
IsVerifiedFlipped(c, block, head) ==
    /\ c.verifiedBlock # None
    /\ IF head # None /\ c.verifiedHead # None
       THEN Depth(block, head) >= VerifiedDepth(c) ELSE block >= c.verifiedBlock

\* A verification at depth d covers its block and newer ones until 2d deep.
IsVerified(c, block, head) ==
    /\ c.verifiedBlock # None
    /\ IF head # None /\ c.verifiedHead # None
       THEN \/ Depth(block, head) <= VerifiedDepth(c)
            \/ block >= c.verifiedBlock /\ Depth(block, head) <= 2 * VerifiedDepth(c)
       ELSE block >= c.verifiedBlock

\* block = None asks for the latest state.
CoverageOf(c, block, head) ==
    CASE c.liar                                           -> "Liar"
      [] ~c.liar /\ block = None                          -> IF c.verifiedBlock # None
                                                             THEN "Covered" ELSE "Unknown"
      [] ~c.liar /\ block # None /\ IsPruned(c, block, head) -> "Pruned"
      [] OTHER -> IF IsVerified(c, block, head) THEN "Covered" ELSE "Unknown"

(***************************************************************************)
(* Revising a record.                                                      *)
(***************************************************************************)
\* Is a verification at (block, head) at least as deep as the recorded one?
Deeper(c, block, head) ==
    \/ c.verifiedBlock = None
    \/ IF head # None /\ c.verifiedHead # None
       THEN Depth(block, head) >= VerifiedDepth(c) ELSE block <= c.verifiedBlock

\* Faulty variant: a verification as deep as the mark leaves the mark.
ClearsDeeperOnly(c, block, head) ==
    IF head # None /\ c.prunedHead # None
    THEN Depth(block, head) > PrunedDepth(c) ELSE block < c.prunedBlock

\* Does it invalidate the pruned mark?
ClearsPruned(c, block, head) ==
    IF head # None /\ c.prunedHead # None
    THEN Depth(block, head) >= PrunedDepth(c) ELSE block <= c.prunedBlock

Verify(c, block, head) ==
    LET deeper == Deeper(c, block, head)
        clears == c.prunedBlock # None /\ ClearsPruned(c, block, head)
    IN  [c EXCEPT !.verifiedBlock = IF deeper THEN block ELSE @,
                  !.verifiedHead  = IF deeper THEN head ELSE @,
                  !.prunedBlock   = IF clears THEN None ELSE @,
                  !.prunedHead    = IF clears THEN None ELSE @,
                  !.failedUntil   = None]

\* Is a pruned reply at (block, head) at most as deep as the recorded one?
Shallower(c, block, head) ==
    \/ c.prunedBlock = None
    \/ IF head # None /\ c.prunedHead # None
       THEN Depth(block, head) <= PrunedDepth(c) ELSE block >= c.prunedBlock

\* Faulty variant: only a pruned reply for a newer block contradicts.
ContradictsNewerOnly(c, block, head) ==
    IF head # None /\ c.verifiedHead # None
    THEN VerifiedDepth(c) > Depth(block, head) ELSE c.verifiedBlock < block

\* Does it contradict the verification?
Contradicts(c, block, head) ==
    IF head # None /\ c.verifiedHead # None
    THEN VerifiedDepth(c) >= Depth(block, head) ELSE c.verifiedBlock <= block

\* Faulty variant: the record keeps the depth where the head belongs.
PruneRelative(c, block, head) ==
    LET shallower   == Shallower(c, block, head)
        contradicts == c.verifiedBlock # None /\ Contradicts(c, block, head)
    IN  [c EXCEPT !.prunedBlock   = IF shallower THEN block ELSE @,
                  !.prunedHead    = IF shallower THEN head - block ELSE @,
                  !.verifiedBlock = IF contradicts THEN None ELSE @,
                  !.verifiedHead  = IF contradicts THEN None ELSE @]

Prune(c, block, head) ==
    LET shallower   == Shallower(c, block, head)
        contradicts == c.verifiedBlock # None /\ Contradicts(c, block, head)
    IN  [c EXCEPT !.prunedBlock   = IF shallower THEN block ELSE @,
                  !.prunedHead    = IF shallower THEN head ELSE @,
                  !.verifiedBlock = IF contradicts THEN None ELSE @,
                  !.verifiedHead  = IF contradicts THEN None ELSE @]

Accuse(c) ==
    [c EXCEPT !.liar = TRUE, !.verifiedBlock = None, !.verifiedHead = None]

(***************************************************************************)
(* The store.  A call changes the memory and then owes a write of the      *)
(* file, which another call, a crash or a failure of the disk may precede. *)
(* A write is one step: it takes its snapshot under its own lock and       *)
(* renames a finished file, so the last of several saves everything.       *)
(***************************************************************************)
VARIABLES
    now,        \* unix_now()
    entries,    \* the records in memory
    live,       \* the highest head seen by this process, or None
    saved,      \* the records in the file
    owing,      \* has some call changed the memory and not yet persisted?
    missed      \* history: did the last write to be made fail?

vars == <<now, entries, live, saved, owing, missed>>

Init ==
    /\ now = 0
    /\ entries = [e \in Endpoints |-> Blank]
    /\ live = None
    /\ saved = [e \in Endpoints |-> Blank]
    /\ owing = FALSE
    /\ missed = FALSE

\* get_at: an expired record is as good as none.
FreshAt(c, time) == IF c.expiresAt > time THEN c ELSE Blank
Fresh(e) == FreshAt(entries[e], now)

\* persist: the fresh records, all of them, replace the file.
Saved(records) == [e \in Endpoints |-> FreshAt(records[e], now)]

\* Other calls may owe their writes still.
Persist ==
    /\ owing
    /\ saved' = Saved(entries)
    /\ owing' \in BOOLEAN
    /\ missed' = FALSE
    /\ UNCHANGED <<now, entries, live>>

\* The directory, the temporary file or the rename fails: it is not retried.
PersistFails ==
    /\ owing
    /\ owing' \in BOOLEAN
    /\ missed' = TRUE
    /\ UNCHANGED <<now, entries, live, saved>>

\* Faulty variant: a revision that only raises the liar flag is not written.
WorthWritingMarks(old, new) ==
    \/ [old EXCEPT !.expiresAt = new.expiresAt, !.liar = new.liar] # new
    \/ old.expiresAt < now + CapabilityTTL \div 2

\* Is a revision worth a write?  Not if it only prolongs a young record.
WorthWriting(old, new) ==
    \/ [old EXCEPT !.expiresAt = new.expiresAt] # new
    \/ old.expiresAt < now + CapabilityTTL \div 2

\* update: the revised record starts its lifetime anew.
Update(e, revised, otherwise) ==
    LET new == [revised EXCEPT !.expiresAt = now + CapabilityTTL]
    IN  /\ entries' = [entries EXCEPT ![e] = new]
        /\ owing' = (owing \/ otherwise \/ WorthWriting(Fresh(e), new))
        /\ UNCHANGED <<saved, missed>>

NoteHead(head) ==
    live' = IF live = None \/ head > live THEN head ELSE live

SeeHead(head) ==
    /\ NoteHead(head)
    /\ UNCHANGED <<now, entries, saved, owing, missed>>

\* newLatency: the measured latency differs from the recorded one.
RecordVerified(e, block, head, newLatency) ==
    /\ IF head = None THEN UNCHANGED live ELSE NoteHead(head)
    /\ Update(e, Verify(Fresh(e), block, head), newLatency)
    /\ UNCHANGED now

RecordPruned(e, block, head) ==
    /\ Update(e, Prune(Fresh(e), block, head), FALSE)
    /\ UNCHANGED <<now, live>>

RecordLiar(e) ==
    /\ Update(e, Accuse(Fresh(e)), FALSE)
    /\ UNCHANGED <<now, live>>

\* Faulty variant: the failure is kept in memory only; no write is owed.
RecordProbeFailureUnsaved(e) ==
    /\ LET until == now + ProbeFailureTTL
       IN  entries' = [entries EXCEPT ![e] =
                         [Fresh(e) EXCEPT
                            !.failedUntil = until,
                            !.expiresAt = IF @ < until THEN until ELSE @]]
    /\ UNCHANGED <<now, live, saved, owing, missed>>

NoteProbeFailure(e) ==
    /\ LET until == now + ProbeFailureTTL
       IN  entries' = [entries EXCEPT ![e] =
                         [Fresh(e) EXCEPT
                            !.failedUntil = until,
                            !.expiresAt = IF @ < until THEN until ELSE @]]
    /\ owing' = TRUE
    /\ UNCHANGED <<saved, missed>>

RecordProbeFailure(e) == NoteProbeFailure(e) /\ UNCHANGED <<now, live>>

\* A new process loads the fresh records and knows no live head.
Restart ==
    /\ entries' = Saved(saved)
    /\ live' = None
    /\ owing' = FALSE
    /\ missed' = FALSE
    /\ UNCHANGED <<now, saved>>

Tick ==
    /\ now < MaxTime
    /\ now' = now + 1
    /\ UNCHANGED <<entries, live, saved, owing, missed>>

Blocks == 0 .. MaxBlock

Next ==
    \/ \E head \in Heads \ {None} : SeeHead(head)
    \/ \E e \in Endpoints, block \in Blocks, head \in Heads :
          \/ \E newLatency \in BOOLEAN : RecordVerified(e, block, head, newLatency)
          \/ RecordPruned(e, block, head)
    \/ \E e \in Endpoints : RecordLiar(e) \/ RecordProbeFailure(e)
    \/ Persist
    \/ PersistFails
    \/ Restart
    \/ Tick

Spec == Init /\ [][Next]_vars

-----------------------------------------------------------------------------

TypeOK ==
    /\ now \in Nat
    /\ entries \in [Endpoints -> Capability]
    /\ live \in Option
    /\ saved \in [Endpoints -> Capability]
    /\ owing \in BOOLEAN
    /\ missed \in BOOLEAN

(***************************************************************************)
(* The two marks of a record never contradict each other: what is verified *)
(* is strictly newer than what is pruned, by depth where both depths are   *)
(* known and by block otherwise, however observations with and without a   *)
(* head alternate (record_verified_at against record_pruned_at).           *)
(***************************************************************************)
Consistent(c) ==
    c.verifiedBlock # None /\ c.prunedBlock # None =>
        IF c.verifiedHead # None /\ c.prunedHead # None
        THEN VerifiedDepth(c) < PrunedDepth(c)
        ELSE c.verifiedBlock > c.prunedBlock

MarksConsistent == \A e \in Endpoints : Consistent(entries[e])

(***************************************************************************)
(* An observation is honoured at once, whatever the record held before:    *)
(* the block just verified is covered, and the block just reported as      *)
(* pruned is routed around (update against coverage).                      *)
(***************************************************************************)
Unless(liar, coverage) == IF liar THEN "Liar" ELSE coverage

ObservationsHonoured ==
    \A e \in Endpoints, block \in Blocks, head \in Heads :
        LET c == Fresh(e)
        IN  /\ CoverageOf(Verify(c, block, head), block, head) = Unless(c.liar, "Covered")
            /\ CoverageOf(Prune(c, block, head), block, head) = Unless(c.liar, "Pruned")

(***************************************************************************)
(* Newer state is never harder to get: what coverage says of a block is at *)
(* least as good for every newer block, under the same head.               *)
(***************************************************************************)
Rank(coverage) ==
    CASE coverage = "Covered" -> 2 [] coverage = "Unknown" -> 1 [] OTHER -> 0

NewerIsNoWorse ==
    \A e \in Endpoints, block \in Blocks, newer \in Blocks, head \in Heads :
        block <= newer => Rank(CoverageOf(entries[e], block, head))
                             <= Rank(CoverageOf(entries[e], newer, head))

(***************************************************************************)
(* A liar is a liar for the lifetime of its record: no later observation   *)
(* or failed probe clears the flag, and a restart only if the write of it  *)
(* was still owed or has failed, or the record last written has expired    *)
(* (update and record_probe_failure against persist and load).             *)
(***************************************************************************)
ByRestart(e) == Restart /\ (owing \/ missed \/ saved[e].expiresAt <= now)

LiarsStay ==
    [][\A e \in Endpoints :
         Fresh(e).liar /\ ~Fresh(e)'.liar => entries[e].expiresAt <= now' \/ ByRestart(e)]_vars

(***************************************************************************)
(* Once no write is owed and the last one has succeeded, the unexpired     *)
(* records of the file are memory's, mark for mark: a restart brings back  *)
(* no observation that a later one has corrected, although update does not *)
(* write every change.                                                     *)
(***************************************************************************)
FileIsNotBehind ==
    ~owing /\ ~missed =>
        \A e \in Endpoints :
            saved[e].expiresAt > now =>
                /\ entries[e].expiresAt >= saved[e].expiresAt
                /\ [saved[e] EXCEPT !.expiresAt = entries[e].expiresAt] = entries[e]

(***************************************************************************)
(* What memory trusts is in the file once it is written, so that a restart *)
(* forgets nothing: an unchanged record is not rewritten, "unless it is    *)
(* getting old".  The code does not meet this; README, section 4.          *)
(***************************************************************************)
TrustIsSaved ==
    ~owing /\ ~missed =>
        \A e \in Endpoints : entries[e].expiresAt > now => saved[e].expiresAt > now

=============================================================================
