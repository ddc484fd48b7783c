------------------------------- MODULE Prober -------------------------------
(***************************************************************************)
(* verified_state_endpoints and the probes behind it (proxy.rs): a call    *)
(* looks its endpoints up in the capability store, probes the unknown ones *)
(* unless enough are known, and returns those that serve the block.        *)
(* Probes of several calls, and of detached background tasks, run at once; *)
(* in_flight keeps two of them from probing the same endpoint.             *)
(*                                                                         *)
(* A probe's dialogue is one step, taken when it ends: dialogues of        *)
(* different probes do not affect each other, and `Dialogues` ranges over  *)
(* the replies a node can give while its head stands.  The nodes and the   *)
(* chain are external.                                                     *)
(***************************************************************************)
EXTENDS StateCapability, ProbeDialogue

CONSTANTS
    Callers,          \* tasks that call verified_state_endpoints
    Background,       \* bound: detached probing tasks at a time
    MinVerified,      \* min_verified_endpoints, 3 by default
    MaxHeadLag,       \* MAX_HEAD_LAG, 32 blocks
    Concurrency,      \* PROBE_CONCURRENCY, 16
    Asked,            \* the blocks that callers ask for, and Latest
    TxBlocks,         \* the blocks with an ordinary transaction of the sender
    MayBe,            \* what each node may do when asked for a block's state
    Window,           \* how many blocks below its head a node has state of
    Lag               \* how far each node is behind the tip

Natures == {"honest", "ignoresBlock", "answersZero"}

ASSUME ProberAssumption ==
    /\ Callers \cap Background = {}
    /\ MinVerified \in Nat /\ MaxHeadLag \in Nat /\ Concurrency \in Nat \ {0}
    /\ WalkBack \in Nat /\ MaxBlock # 0
    /\ Asked \subseteq Blocks \cup {Latest}
    /\ TxBlocks \subseteq Blocks
    /\ MayBe \in [Endpoints -> SUBSET Natures]
    /\ Window \in [Endpoints -> Nat]
    /\ Lag \in [Endpoints -> Nat]

Tasks == Callers \cup Background

VARIABLES
    nature,      \* what each node does
    tip,         \* the chain's newest block
    inFlight,    \* in_flight: the endpoints being probed
    task         \* the calls and the background tasks

proberVars == <<vars, nature, tip, inFlight, task>>

(***************************************************************************)
(* A task: which endpoints it is about to claim, holds and waits to probe, *)
(* and is probing; what it accepted and found; what it returned.           *)
(***************************************************************************)
Task == [
    pc       : {"idle", "claiming", "probing"},
    block    : Asked \cup {Latest},
    toProbe  : SUBSET Endpoints,
    queue    : SUBSET Endpoints,
    running  : SUBSET Endpoints,
    accepted : SUBSET Endpoints,
    verified : [Endpoints -> Option]]   \* the head seen by its verifying probes

NoTask == [
    pc |-> "idle", block |-> Latest, toProbe |-> {}, queue |-> {}, running |-> {},
    accepted |-> {}, verified |-> [e \in Endpoints |-> None]]

ProberInit ==
    /\ Init
    /\ nature \in {n \in [Endpoints -> Natures] : \A e \in Endpoints : n[e] \in MayBe[e]}
    /\ tip = MaxBlock - 1
    /\ inFlight = {}
    /\ task = [t \in Tasks |-> NoTask]

(***************************************************************************)
(* The nodes.                                                              *)
(***************************************************************************)
Count(b) == Cardinality({x \in TxBlocks : x <= b})

HeadOf(e) == Minus(tip, Lag[e])

HasState(e, b, head) == b + Window[e] >= head

CountReply(e, does, b, head) ==
    CASE does = "ignoresBlock" -> Number(Count(head))
      [] does = "answersZero" /\ ~HasState(e, b, head) -> Number(0)
      [] does = "honest" /\ ~HasState(e, b, head) -> NoNumber("MissingState")
      [] OTHER -> Number(Count(b))

StateReply(e, does, b, head) ==
    IF does = "honest" /\ ~HasState(e, b, head) THEN "MissingState" ELSE Good

Usual(e, does, block, head) ==
    LET state  == StateReply(e, does, Target(head, block), head)
        blocks == [b \in Blocks |-> IF b \in TxBlocks THEN "WithTx" ELSE "WithoutTx"]
    IN  [head |-> Number(head), full |-> blocks, ids |-> blocks,
         nonce |-> [b \in Blocks |-> Minus(Count(b), 1)],
         count |-> [b \in Blocks |-> CountReply(e, does, b, head)],
         balance |-> state, code |-> state]

\* A dialogue as usual, with full blocks refused, or with one call that fails.
Dialogues(usual) ==
    LET refused == [usual EXCEPT !.full = [b \in Blocks |-> NoRetry]]
    IN  {usual, refused} \cup UNION {
            {[usual EXCEPT !.head = NoNumber(kind)],
             [usual EXCEPT !.balance = kind], [usual EXCEPT !.code = kind]}
            \cup {[usual EXCEPT !.full[b] = kind] : b \in Blocks}
            \cup {[refused EXCEPT !.ids[b] = kind] : b \in Blocks}
            \cup {[usual EXCEPT !.count[b] = NoNumber(kind)] : b \in Blocks} :
          kind \in {"RateLimited", "Transport"}}

\* What a probe may conclude, and the head it was told if any.
Findings ==
    [e \in Endpoints |-> [does \in Natures |-> [block \in Asked |-> [head \in Blocks |->
        {<<Outcome(d, block), d.head>> : d \in Dialogues(Usual(e, does, block, head))}]]]]

(***************************************************************************)
(* The call.  probe_backed_off keeps an endpoint out altogether; `healthy` *)
(* is what is_healthy says of the endpoints at this moment.                *)
(***************************************************************************)
BackedOff(e) == Fresh(e).failedUntil > now

BestHead ==   \* StateCapabilityStore::head
    LET heads == UNION {{entries[e].verifiedHead, entries[e].prunedHead} : e \in Endpoints}
    IN  IF live # None THEN live ELSE Max(heads \cup {None})

Coverages(block, kind, candidates) ==
    {e \in candidates : CoverageOf(Fresh(e), block, BestHead) = kind}

Look(c, block, healthy) ==
    LET candidates == {e \in healthy : ~BackedOff(e)}
        accepted   == Coverages(block, "Covered", candidates)
        unknown    == Coverages(block, "Unknown", candidates)
        asked      == [NoTask EXCEPT !.pc = "claiming", !.block = block,
                                     !.toProbe = unknown]
    IN  /\ task[c].pc = "idle"
        /\ IF Cardinality(accepted) < Max({MinVerified, 1})
           THEN task' = [task EXCEPT ![c] = [asked EXCEPT !.accepted = accepted]]
           ELSE \/ task' = task                    \* background_probing is off,
                \/ /\ unknown # {}                 \* or a task is spawned
                   /\ \E t \in Background :
                         task[t].pc = "idle" /\ task' = [task EXCEPT ![t] = asked]
        /\ UNCHANGED <<vars, nature, tip, inFlight>>

\* probe_many takes the endpoints that no other task is probing.
Claim(t) ==
    /\ task[t].pc = "claiming"
    /\ inFlight' = inFlight \cup task[t].toProbe
    /\ task' = [task EXCEPT ![t].pc = "probing", ![t].toProbe = {},
                            ![t].queue = task[t].toProbe \ inFlight]
    /\ UNCHANGED <<vars, nature, tip>>

StartProbeAtOnce(t, e) ==   \* faulty variant
    /\ e \in task[t].queue
    /\ task' = [task EXCEPT ![t].queue = @ \ {e}, ![t].running = @ \cup {e}]
    /\ UNCHANGED <<vars, nature, tip, inFlight>>

StartProbeBelow(t, e) ==   \* faulty variant: one slot too few
    /\ e \in task[t].queue
    /\ Cardinality(task[t].running) + 1 < Concurrency
    /\ task' = [task EXCEPT ![t].queue = @ \ {e}, ![t].running = @ \cup {e}]
    /\ UNCHANGED <<vars, nature, tip, inFlight>>

StartProbe(t, e) ==
    /\ e \in task[t].queue
    /\ Cardinality(task[t].running) < Concurrency
    /\ task' = [task EXCEPT ![t].queue = @ \ {e}, ![t].running = @ \cup {e}]
    /\ UNCHANGED <<vars, nature, tip, inFlight>>

\* The guard is dropped when the probe is over.
Ends(t, e) ==
    /\ e \in task[t].running
    /\ inFlight' = inFlight \ {e}
    /\ UNCHANGED <<nature, tip>>

\* Faulty variant: the mark is put at the head.
RecordsAtHead(e, outcome, block, head) ==
    /\ NoteHead(head)
    /\ CASE outcome = "Verified" -> Update(e, Verify(Fresh(e), block, head), TRUE)
         [] outcome = "Pruned"   -> Update(e, Prune(Fresh(e), head, head), FALSE)
         [] outcome = "Liar"     -> Update(e, Accuse(Fresh(e)), FALSE)
         [] OTHER                -> NoteProbeFailure(e)

Records(e, outcome, block, head) ==
    /\ NoteHead(head)
    /\ CASE outcome = "Verified" -> Update(e, Verify(Fresh(e), block, head), TRUE)
         [] outcome = "Pruned"   -> Update(e, Prune(Fresh(e), block, head), FALSE)
         [] outcome = "Liar"     -> Update(e, Accuse(Fresh(e)), FALSE)
         [] OTHER                -> NoteProbeFailure(e)

\* The probe runs to its end, and what it found is recorded.
Conclude(t, e) ==
    /\ Ends(t, e)
    /\ \E finding \in Findings[e][nature[e]][task[t].block][HeadOf(e)] :
          LET block   == task[t].block
              outcome == finding[1]
              head    == finding[2].n
          IN  /\ IF finding[2].is = Good
                 THEN Records(e, outcome, Target(head, block), head)
                 ELSE NoteProbeFailure(e) /\ UNCHANGED live
              /\ task' = [task EXCEPT ![t].running = @ \ {e},
                            ![t].verified[e] = IF outcome = "Verified" THEN head ELSE @]
    /\ UNCHANGED now

\* "probe deadline exceeded"; the head may have been noted before.
Overrun(t, e) ==
    /\ Ends(t, e)
    /\ NoteProbeFailure(e)
    /\ UNCHANGED live \/ NoteHead(HeadOf(e))
    /\ task' = [task EXCEPT ![t].running = @ \ {e}]
    /\ UNCHANGED now

\* For the latest state, endpoints behind the best probed head are left out.
LaggingNone(c) == {}   \* faulty variant: the filter is forgotten

Lagging(c) ==
    LET heads == {task[c].verified[e] : e \in Endpoints} IN
    {e \in Endpoints : task[c].block = Latest
                       /\ task[c].verified[e] + MaxHeadLag < Max(heads)}

Returned(c) ==
    task[c].accepted \cup ({e \in Endpoints : task[c].verified[e] # None} \ Lagging(c))

Done(t) == task[t].pc = "probing" /\ task[t].queue = {} /\ task[t].running = {}

Return(t) ==
    /\ Done(t)
    /\ task' = [task EXCEPT ![t] = NoTask]
    /\ UNCHANGED <<vars, nature, tip, inFlight>>

\* Faulty variant: probes that have not started keep their claim.
AbandonRunning(c) ==
    /\ task[c].pc # "idle"
    /\ inFlight' = inFlight \ task[c].running
    /\ task' = [task EXCEPT ![c] = NoTask]
    /\ UNCHANGED <<vars, nature, tip>>

\* The future of a call is dropped, and the guards it holds with it.
Abandon(c) ==
    /\ task[c].pc # "idle"
    /\ inFlight' = inFlight \ (task[c].queue \cup task[c].running)
    /\ task' = [task EXCEPT ![c] = NoTask]
    /\ UNCHANGED <<vars, nature, tip>>

\* A new process.
Reboot ==
    /\ Restart
    /\ inFlight' = {}
    /\ task' = [t \in Tasks |-> NoTask]
    /\ UNCHANGED <<nature, tip>>

\* The write of the file that recording owes; the task may go on before it.
Write == (Persist \/ PersistFails) /\ UNCHANGED <<nature, tip, inFlight, task>>

\* The chain grows, time passes.
NewBlock ==
    /\ tip < MaxBlock
    /\ tip' = tip + 1
    /\ UNCHANGED <<vars, nature, inFlight, task>>

Wait == Tick /\ UNCHANGED <<nature, tip, inFlight, task>>

Probe(t) ==
    \/ Claim(t) \/ Return(t)
    \/ \E e \in Endpoints : StartProbe(t, e) \/ Conclude(t, e) \/ Overrun(t, e)

ProberNext ==
    \/ \E c \in Callers, block \in Asked, healthy \in SUBSET Endpoints :
          Look(c, block, healthy)
    \/ \E t \in Tasks : Probe(t)
    \/ \E c \in Callers : Abandon(c)
    \/ Write \/ Reboot \/ NewBlock \/ Wait

ProberSpec == ProberInit /\ [][ProberNext]_proberVars

\* The runtime polls every task, and every probe has a deadline.
FairProberSpec == ProberSpec /\ \A t \in Tasks : WF_proberVars(Probe(t))

-----------------------------------------------------------------------------

ProberTypeOK ==
    /\ TypeOK
    /\ nature \in [Endpoints -> Natures]
    /\ tip \in Blocks
    /\ inFlight \subseteq Endpoints
    /\ task \in [Tasks -> Task]
    /\ \A t \in Tasks : /\ Cardinality(task[t].running) <= Concurrency
                        /\ task[t].pc = "idle" => task[t] = NoTask

(***************************************************************************)
(* in_flight is exact: an endpoint is in it if and only if one task holds  *)
(* it, so that no endpoint is probed twice at once and none stays blocked  *)
(* after its probe ended, overran, was dropped before it started, or died  *)
(* with its process (InFlightGuard).                                       *)
(***************************************************************************)
Held(t) == task[t].queue \cup task[t].running

InFlightIsExact ==
    /\ inFlight = UNION {Held(t) : t \in Tasks}
    /\ \A t, u \in Tasks : t # u => Held(t) \cap Held(u) = {}
    /\ \A t \in Tasks : task[t].queue \cap task[t].running = {}

(***************************************************************************)
(* "Returned well-formed but wrong state" (capability.rs:34): no honest    *)
(* node is accused, whatever its window, its lag, its failing calls and    *)
(* the block asked for; and at a block where the walk finds a transaction  *)
(* to test them with, a node that ignores the block tag is not taken for   *)
(* verified, nor one that answers zero for the state it has dropped.       *)
(***************************************************************************)
Testable(b) ==
    LET found == WalkOf(b) \cap TxBlocks IN found # {} /\ Max(found) > 0

LiarsAreTold ==
    \A e \in Endpoints :
        LET c == entries[e] IN
        /\ nature[e] = "honest" => ~c.liar
        /\ nature[e] = "ignoresBlock" /\ c.verifiedBlock # None
              => ~Testable(c.verifiedBlock)
        /\ nature[e] = "answersZero" /\ c.verifiedBlock # None /\ Testable(c.verifiedBlock)
              => HasState(e, c.verifiedBlock, c.verifiedHead)

(***************************************************************************)
(* A call that probes returns what it can: some endpoint if any is known   *)
(* or was verified; of the honest ones it probed only those that had the   *)
(* state of the block then; and for the latest state none that is further  *)
(* than MaxHeadLag behind one it saw (verified_state_endpoints).           *)
(***************************************************************************)
ProbedServe ==
    \A c \in Callers : Done(c) =>
        LET probed == {e \in Endpoints : task[c].verified[e] # None} IN
        /\ task[c].accepted \cup probed # {} => Returned(c) # {}
        /\ \A e \in Returned(c) \cap probed : nature[e] = "honest" =>
              LET head == task[c].verified[e]
              IN  HasState(e, Target(head, task[c].block), head)
        /\ \A e \in Returned(c) \ task[c].accepted, f \in probed :
              task[c].block = Latest
                 => task[c].verified[f] <= task[c].verified[e] + MaxHeadLag

(***************************************************************************)
(* An honest node is marked as pruned close to what it refused: it has     *)
(* dropped the state at most a walk below the mark.  Not at the mark, as   *)
(* capability.rs:30 says, since the block before the sample is asked for   *)
(* too, and its refusal is recorded at the target (probe_endpoint_inner).  *)
(***************************************************************************)
PrunedNearMark ==
    \A e \in Endpoints :
        nature[e] = "honest" /\ entries[e].prunedBlock # None
            => ~HasState(e, Minus(entries[e].prunedBlock, WalkBack + 1), HeadOf(e))

\* Every call that is not dropped returns, and every background task ends: no probe
\* waits for ever behind the concurrency limit or an endpoint probed by another.
CallsReturn == \A t \in Tasks : task[t].pc # "idle" ~> task[t].pc = "idle"

=============================================================================
