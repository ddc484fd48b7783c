# A TLA+ model of singleRPC

singleRPC is a JSON-RPC gateway: one process that offers one address per chain
and forwards each request to one of the chain's upstream endpoints, failing over
when an endpoint is down, rate-limited, or lacks the requested state. It keeps
two pieces of knowledge about its endpoints, in memory and in a file each:
whether they are *alive* (`src/src/proxy.rs`) and *how much history* they serve
(`src/src/capability.rs`). This directory models that logic, checks it with TLC
on small instances, and proves the main results for all instances with TLAPS.

## 1. Inventory

| Component | State | Operations | Correct if |
|---|---|---|---|
| Endpoint health, `RpcEndpoint` | `failures`, `unavailable_until` (a mutex each) | `is_healthy`, `is_rate_limited_only`, `cooldown_remaining`, `mark_hard_failure`, `mark_rate_limited`, `clear_failures`, `reset`, `restore_dead_until` | calls are atomic and return; a death lasts until its instant or the endpoint's own answer |
| Health store, `EndpointHealthStore` | map of deaths, `health.json` | `load`, `remaining_dead_duration`, `mark_dead`, `clear`, `persist` | every death reaches the map and lasts as long there as in memory; a restart lets an endpoint back only if the file has lost its death (writers that race, fail or are cut off do lose deaths, see sections 3 and 4) |
| Request routing, `proxy_json_to_chain` | rotation index; per request: deadline, pass, `answered_with_error`, `soft_retries`, `last_resort` | one pass after the other over `routing_order`, one upstream call per step, sleeps | bounded retries; no early surrender; the dead, liars and pruned nodes are not asked; a transaction is not sent twice |
| Capability store, `StateCapabilityStore` | per endpoint: verified and pruned mark, `liar`, `probe_failed_until`, expiry; live heads; `health.state.json` | `record_verified`, `record_pruned`, `record_liar`, `record_probe_failure`, `coverage`, `note_head`, `head`, `load`, `persist` | marks never contradict each other; observations are honoured; liars stay; trust ends |
| Prober, `Prober`, `verified_state_endpoints` | `in_flight`, `probe_requests` | `probe_many`, `probe_endpoint`, background probing | no endpoint probed twice at once or blocked for ever; honest nodes are not accused, liars are not verified; calls return |
| Reply classification, `classify_response` | none | pure | every body has one verdict, errors that other endpoints share are not retried |
| Contract chains, `handle_contract_chains` | none of its own; shares indices and health | fan-out of `fetch_contract_code` over chains | every chain has one outcome, and fails only if each endpoint was tried or unavailable; it ends |
| Gateway, `handle_request`, `run_server` | token, connections | authorization, validation, dispatch, the decision on each reply, 502 bodies | refused requests change nothing; bodies are judged as a whole |
| Start-up, build, installation | - | command line, configuration, banner, endpoint list, installer | not part of the running service |

Interactions. Every client request is a task that runs `proxy_json_to_chain`;
tasks share the rotation index, the endpoints' health and both stores, through
short critical sections, and await only the upstream call, a 50 ms pause and the
cooldown sleep. The prober runs beside them and changes the capability store. A
client that hangs up makes the server drop its task at the await. A crash keeps
the two files only.

What is hard: replies of overlapping requests change the same health record in
any order, also after the endpoint has died; knowledge read when a pass is planned
is stale when its turn comes; the two mutexes of an endpoint nest in both orders;
what a restart reads from the files is what some write got through, late, partly or
not at all; the deadline is tested at two places only;
the last resort, the error list and the cooldown sleep must together neither give
up early nor go on for ever. Several threads persist the same file; probes of several
calls claim the same endpoints, and may be dropped at any await; nodes answer with
errors, stale heads or wrong state; a batch has its telling answer anywhere.
`PROJECT.json` lists these hazards with their lines.

## 2. Modules

| Module | Models | Composes |
|---|---|---|
| `EndpointHealth` | the methods of `RpcEndpoint` as operators on a record | - |
| `RequestRouting` | `proxy_json_to_chain` for concurrent requests, with the health store's map and file, the clock, hang-ups and crashes | `EndpointHealth` |
| `BoundedService` | abstract: an accepted request is over in time | implemented by `RequestRouting` |
| `EndpointLocks` | the mutex sections inside the methods, run by threads | `EndpointHealth` |
| `AtomicHealth` | abstract: each method takes effect at once, `reset` in three parts | implemented by `EndpointLocks` |
| `StateCapability` | the records of `capability.rs`, their lifetimes, and the file with the writes that are owed, fail or come too late | - |
| `StoreFiles` | the writers of `health.json` and `health.state.json`: snapshot, write in place or rename, failing disk operations, crashes | - |
| `DurableStore` | abstract: the file follows memory, never falls back, holds every change whose call returned | implemented by `StoreFiles` |
| `Classify` | verdicts on replies and what each means for the request; pure | - |
| `ProbeDialogue` | what a probe asks a node and concludes; pure | `Classify` |
| `Prober` | calls, background tasks, claims, probes, nodes, the growing chain | `StateCapability`, `ProbeDialogue` |
| `ContractChains` | the fan-out of concurrent clients over chains and endpoints | `EndpointHealth` |
| `Gateway` | checks, refusals, fan-out and forwarding of concurrent clients | `ContractChains`, `Classify` |
| `*Proofs` | the theorems about the module of that name | |
| `SequentialRoutingProofs` | the theorems about `RequestRouting` when clients keep one request open at a time | `RequestRoutingProofs` |
| `ExtremaProofs` | lemmas on least and greatest elements | |
| `MC*` | constants and symmetry for TLC | |

### RequestRouting

One action is the code between two awaits, or one iteration of a pass where it
awaits nothing. `req[r].pc` says where a request is: `scan` (in the `for` loop or
at its end), `await` (in `send` or `bytes`), `reset` and `clear` (between the three
sections of `reset`), `nap` (the 50 ms pause), `cool` (the cooldown sleep).

| Code (`proxy.rs`) | Model |
|---|---|
| 524-547, entry | `Begin` |
| 796-830, `routing_order` | `StartPass` (who), `Precedes` (in which order); a pass keeps the set still to visit, and the order is recomputed by `IsNext` |
| 549-586, one iteration up to the call | `Skip`, `Attempt` (with the wipe that `is_healthy` makes as a side effect) |
| 588-730, the replies | one action per outcome, joined in `Reply`; the class of the reply is nondeterministic, its effects on health, store, capability and request are the code's |
| 238-244, `reset`; 634-636 | `UsableReply` clears the failures, `ResetUntil` the cooldown, `ResetStore` the entry (with its write) and takes note of the head; other requests step in between |
| 91-118, the store's map; 120-147, its file | `MarkDead`, `ResetStore`, `WholeSecond`; `Stores`, `Written` |
| 732-765, end of a pass | `DeadlinePassed`, `NextPass`, `EnterLastResort`, `ReturnLastError`, `Cool`, `GiveUp` |
| 328-384, a new process | `Init`, `Restart` |
| hyper dropping a task; a probe's result | `ClientGone`, `ProbeFinds` |

Abstractions. Time is a counter of ticks; `Tick` waits until no request can run,
so the program's own instructions take no time, and a call may answer at any tick
up to its timeout. The capability cache is reduced to what it says of one block,
the one that pinned requests ask for; `HeadMoves` lets a new head change it
arbitrarily, except that liars remain liars (expiry within a request's seconds is
left out). Latencies are constants.

`stored` is the health store's map and `file` what `health.json` holds. Both count whole
seconds (`Second` ticks each): a death's instant is truncated when it is stored, and
again when the rest of it is restored, while memory counts on from the moment of the
failure. Each persist may leave the map's entries in the file, or leave the file as it
was (the write fails, or an older snapshot lands after it), or leave it so that it does
not parse (`Written`); only a restart reads it, so the outcome is chosen at the step that
owes the write, and a crash before or during the write is one of those outcomes. How
writers interfere in detail is the subject of `StoreFiles`. Wall-clock steps (an
adjusted system clock moves the stored instants against the `Instant`s in memory) are
not modelled, nor a configuration with the same URL twice in a chain, whose two records
share one entry of the store, nor a proxy without a health file.

History variables, which only properties read: `robbed`, the endpoints whose last death
a `reset` has overtaken; and of a request `refused` (an upstream answered its submission
with an error), `heard` (who answered it with a retryable error), `finals` (who was asked
as a last resort), `lacking` (whom the present pass left out for its state).

### EndpointLocks

Sections that take one lock are one step; `pc` alone says who holds what (`HoldsF`:
between the two halves of `mark_hard_failure`; `HoldsU`: in the wipe of
`is_healthy`). `cooldown_remaining` only reads under one lock and is left out.
The refinement `MethodsAreAtomic` is what entitles `RequestRouting` to take
methods as atomic, and `reset` as three steps; section 4 says what that costs.

### StateCapability

One record per endpoint of one chain, with the code's arithmetic on blocks and
heads. An observation changes the memory and leaves a write `owing`; `Persist` makes it
later, with what memory holds then, `PersistFails` gives it up, and a `Restart` may come
first. A write itself is one step: it takes its snapshot under `write_lock` and renames a
finished file (its parts are the subject of `StoreFiles`). Several calls may owe at once,
so a write may leave others owing. The call that owes is not held up until its write is
done, which allows more interleavings than the code has. `missed` is a history variable:
the last write failed. The latency is reduced to whether it changed, which is what
decides if the file is rewritten.

### StoreFiles and DurableStore

A call changes a store's entries under their mutex (`Change`), then persists:
`NoDirectory`, `Snapshot`, and then `Replace` for the capability store (write lock,
temporary file, rename; capability.rs 403-445), or `Truncate` and `Fill` for the
health store (`fs::write` in place; proxy.rs 120-147). Each disk operation may fail
where the code goes on without it. `Crash` may come at any point, in the middle of a
write too; the new process reads what it finds, takes a file that does not parse for
an empty one, and the health store persists at once. What the entries say is left
out: a content is the number of the last change it holds. `promised` and `alone` are
history variables. A file shared by two processes is not modelled.

### Classify

A message is the set of pattern tables it matches (1205-1274), an error a code and a
message, an answer one of six kinds, a request item its id and whether it names a
block of `eth_getBlockByNumber`, reads or submits; a batch is a sequence of items.
`ClassifyBatch` states as a choice of the first or last telling answer what the loop
of 1347-1360 computes; the loop itself is `IsLoop`, step by step, and `GatewayProofs` shows
that both agree. `Decision` is the cascade of 628-729.

### Prober and ProbeDialogue

| Code (`proxy.rs`) | Model |
|---|---|
| 842-886, look-up and decision to probe | `Look`; the tasks' `healthy` is what `is_healthy` says then |
| 1407-1423, claims | `Claim` |
| 1424-1446, `buffer_unordered`, deadline | `StartProbe`, `Conclude`, `Overrun`, `Done` |
| 1390-1396, dropped guards; dropped futures | `Ends`, `Abandon` |
| 1484-1498, recording | `Records`, through the operations of `StateCapability`; `Write` for what they owe |
| 1500-1647, the dialogue | `Outcome` of `ProbeDialogue`: judgements in their order, the first that is not fine decides |
| 887-909, selection | `Returned`, `Return` |

The nodes are external: honest ones with a window of state and a lag behind the tip,
ones that ignore the block tag, and ones that answer zero for state they dropped, each
with calls that fail. A dialogue is one step, since dialogues do not affect each other;
a node's head stands still during one. There is one chain and one sender of
transactions. Node replies of an invalid form are covered in `ProbeDialogue` (`Bad`)
and the proofs, not in the run.

### ContractChains and Gateway

`call[c].pc` says where client c is: `chain` (between chains of a fan-out), `scan`,
`await`, `nap` (in the loop over one chain's endpoints), `forward`, `answered`.
The order in which the map of chains is listed is arbitrary (`Itineraries`). In
forwarding, `RequestRouting` models who is asked and how often; here any available
endpoint may be next, and the proxy may give up whenever no call is under way, so
that what is shown holds for every routing. Each reply is judged by `Classify`
(`Decision`), has the code's effect on the endpoint (`Marks`) and on the request
(`After`). Answered requests keep their request and body for the properties.
The gateway without a token (every request authorized), and `request_json`, which
forwards without the checks, show nothing new and are left out.

## 3. Runs

Passing runs, with what they show:

| Run | Instance | Shows |
|---|---|---|
| `routing_concurrent` | 3 requests, 2 at a time, 1 endpoint, threshold 2, a death of 4 ticks, seconds of 2, restored deaths, crash, hang-up, failing disk (1.4 million states) | `BoundedRetries`, `DeadIsStored`, `OnlyAnswersRevive`, refinement `ServesInTime` |
| `routing_sequential` | 2 requests one after the other, 2 endpoints, restored deaths, with fairness (0.4 million) | `DeathLasts`, `DeadAreNotAsked`, `NoEarlySurrender`, `EveryStepCounts`, `EveryRequestAnswered` |
| `routing_pinned` | pinned reads, head requests and submissions one after the other, 2 endpoints, probes at any time (4.9 million) | `NoEarlySurrender` while what is known of the endpoints changes under the pass |
| `locks_atomic` | 3 threads, one endpoint, threshold 3, all methods | refinement `MethodsAreAtomic` |
| `store_files` | 3 writers, 4 changes, failing disk, crashes | `StateIsSaved`, refinement `StateFileIsDurable`; `LoneWriteHeals` for the health file |
| `prober` | a caller and a background task, a pruned and a faulty node (either fault), blocks 0-3, walk of 1, one probe at a time (0.8 million) | `InFlightIsExact`, `LiarsAreTold`, `ProbedServe`, `PrunedNearMark`, and with fairness `CallsReturn` |
| `gateway` | a forwarding client (a batch or a submission; replies of three statuses and nine bodies) and one that fans out or is refused; chains with 2, 0 and 0 endpoints | `ReportIsJustified`, `BodiesJudgedWhole`, and with fairness `FanOutsAnswered` |
| `capability_records` | 1 endpoint, blocks 0-2, observations with head 1, 2 or none, lifetimes of 2 and 1 ticks, 2 ticks of time, writes late, failing or cut off by restarts (1.4 million) | `MarksConsistent`, `ObservationsHonoured`, `NewerIsNoWorse`, `FileIsNotBehind`, `LiarsStay` |

Bounds. In the routing the threshold is 2 instead of 3: it still takes more than one
failure, and one from each of two overlapping requests suffices, to kill. A death lasts
longer than a call and a rate limit together, as 24 hours do; two endpoints are enough
for failover, for an order between them, and for one to be cooling while the other is
asked; two requests are enough for a reply that comes after the state it was sent in has
changed. A second of two ticks makes both truncations lose something, at every other
tick. `MaxTime` lets a request run to its deadline and beyond (`Begin` is only allowed
if it fits). Three threads let two fight over a lock while a third sees the result.
Records have two marks with two numbers each; the blocks 0-2 with heads 1, 2 and none
realize all their relative orders, including heads below blocks and the doubled depth,
and two ticks let a record expire in memory and in the file at different times. `VIEW`
leaves out what nothing checked there can tell apart: the live heads in
`capability_records`, the history variable `missed` in `prober`. Three writers let one
overtake another while a third holds the lock; four changes let a snapshot be older than
two others. In the prober two endpoints and one slot make a probe wait behind another
while a second task claims; one block of walk still separates the target from the sample
and the block before it; both faults of a node and a head that lags behind the tip
occur, and the chain grows once. In the gateway two endpoints and two clients suffice
for an index that moves and for health that changes in the middle of a loop; the bodies
have the telling answer first, last, twice, or not at all. `CHECK_DEADLOCK FALSE` is
used where the system rightly stops: all requests are over or the clock is at its bound.

Fairness. `WF(Serve(r))` for each request, because the runtime polls every task
that is ready and every upstream call has the client's timeout; `WF(Tick)`, because
time passes. A pass that awaits nothing and never ends lets no time pass in the
model; that a request spins is therefore seen as one never answered. In
`EndpointLocks` a thread inside a method is weakly fair. In `Prober` every task is
weakly fair in its own steps (`Probe`), since a probe ends by its deadline, and in
`Gateway` every fan-out (`ServeChains`), since each call ends by the client's timeout;
the arrival of requests, hang-ups, crashes and new blocks need not happen.

## 4. Disagreements with comments and docs

Each of these is a run that TLC finds violated; `PROJECT.json` quotes the text.

| Run | What happens |
|---|---|
| `routing_resent` | a transaction refused with a JSON-RPC error under an HTTP error status is sent to the next endpoint; only the 2xx path checks for submissions |
| `routing_death_cut` | the 429 of a call that was under way when its endpoint died replaces the 24 hours by 60 seconds |
| `locks_stuck` | `is_healthy` at the end of a cooldown and a fatal `mark_hard_failure` lock the mutexes in opposite orders and block for ever |
| `store_files_raced` | two threads that store deaths at once leave the older snapshot in `health.json`: a death is not persisted although nothing failed |

The following are violated as well, and TLC shows it with the constants named, but
are not among the runs:

- `DeadAreNotAsked` of `RequestRouting` with two requests in flight on one endpoint
  (the constants of `RoutingDeathCut.cfg`): the JSON-RPC error of a late call clears
  the failures, and the last resort takes the dead endpoint for a rate-limited one
  (against proxy.rs:542-543). `DeathLasts` and `DeadAreNotAsked` hold for requests
  served one at a time, which `routing_sequential` checks and `SequentialRoutingProofs`
  proves.
- `CoolingIsUseful` of `RequestRouting` (one endpoint, `MaxInFlight = 1`,
  `MaxTime = 6`): a request sleeps for the cooldown of endpoints it may not ask
  again, then fails (against README.md:126).
- `DeathIsStored` of `EndpointLocks` (threshold 2, three threads, replies `fail` and
  `reset`): a `reset` overtaken by fatal failures deletes the entry they stored
  (against README.md:127).
- `TrustIsSaved` of `StateCapability` (one endpoint, one block, lifetimes 4 and 1): a
  record refreshed often enough is never rewritten, and its copy in the file expires,
  although every write that was owed has succeeded
  (against capability.rs:253-254).

`NoEarlySurrender` and `EveryStepCounts` are claimed of requests served one at a time,
though no doc is contradicted beyond that: an answer to another request may revive or
kill an endpoint after a last pass has gone by it, an answer to another request gives
calls back, and a late failure of an endpoint already dead uses up none.

Noticed while modelling; the models behave as the code does:

- a JSON-RPC error under a non-2xx status (proxy.rs:681-702), or any body under a
  429 (717-723), does not clear the failures of the endpoint that gave it, so failures
  before and after such an answer count as consecutive (README.md:127);
- a crash, a failing disk or a race of two writers may leave `health.json` without a
  death, and the next process asks the dead endpoint again (README.md:127);
  `OnlyAnswersRevive` says that nothing else does;
- `update` changes a record and persists afterwards, so that a restart in between, or
  after a write that failed, brings back a mark that was corrected, or a liar without
  its flag; a failed write is not tried again before the next change;
- one expiry serves all marks of a record (against capability.rs:16), and a failed
  probe prolongs data that has less than an hour to live (against capability.rs:326);
- a probe refused at the block before its sample is recorded as pruned at the target,
  above the block refused (capability.rs:30); `PrunedNearMark` says how far off it is;
- comments at proxy.rs:1665-1671 say that lagging and failed probes are not cached;
  both are, for an hour, and hide an endpoint that is covered;
- a probe that finds no transaction to test with verifies all the same (SKILL.md:192);
- a fan-out ends a chain at the first JSON-RPC error, where forwarding fails over on
  missing state and rate limits (SKILL.md:239), and does not clear the failures of the
  endpoint that answered, so that failures around the answer count as consecutive
  (README.md:127); it asks the chains one after the other, not in parallel
  (SKILL.md:115), and asks chains of another kind if they are named (SKILL.md:148);
- a batch answered by an empty or shorter array is handed on;
- the right token in a place of lower priority is not looked at if a wrong one stands
  in a higher (README.md:66);
- retries are bounded, not "until one succeeds" (README.md:124).

## 5. Proofs

All proofs are checked by TLAPS (Z3, Zenon, LS4), for any numbers of requests,
endpoints, threads and blocks, and any durations satisfying the assumptions of the
modules: the threshold, cooldowns, timeouts and factors are positive, a rate limit
is no longer than a death, and a call's timeout plus a rate limit is no longer
than a death (24 hours in the code), which lasts a whole number of seconds; the same chain's endpoints are distinct and no
endpoint belongs to two chains; bodies and requests are well formed; the chain of the
prober has a block after the first.

`RequestRoutingProofs`
- `TypeCorrect`, and with it `OnTime`: what a waiting request waits for ends at
  most `Overrun` after its deadline. `BoundedRetries` follows but is not inductive
  by itself, since it says nothing of the timer that lets time pass.
  `RetriesAreBounded`, `RoutingServesInTime` (each step of the routing is a step of
  `BoundedService` or a stutter).
- `DeathsAreStored`. `DeadIsStored` alone is not inductive: a 429 moves the instant of
  a death in memory, and could make memory outlive the map. The strengthening
  `DiedInFlight` says that a call still under way to a dead endpoint was begun before the
  death, so that its timeout ends less than a call's timeout and a second after it, as
  the map dates it; this is where the assumption on the durations is used. The exemption `robbed` is needed: a
  `reset` that other calls' failures overtake takes their death out of the map, as
  section 4 says. What the theorem excludes is any other way to get there.
- `QuarantineHolds`: whatever overlaps, only the endpoint's own answer takes it out of
  quarantine before the instant that memory holds, or a restart whose file has no entry
  for it that is still running (`OnlyForgettingRevives`: if the file has one, the
  restored record is dead and cooling). It does not say that the file has the entry,
  which no write can promise here, nor that the instant is 24 hours after the death; that
  is `DeathLasts`, below.
- `NeverStuck`: in a pass with endpoints left, exactly one is next, since `Precedes`
  orders them totally (`OffsetsDiffer`, with the least element from `ExtremaProofs`);
  with none left, the deadline has passed, another pass begins, or the request ends
  or sleeps. So the cases of 732-765 leave nothing out, and a request cannot block.

`SequentialRoutingProofs`, for requests served one at a time (`MaxInFlight = 1`), as a
client does that waits for each answer, with any numbers of requests and endpoints,
probes, hang-ups, crashes and restored deaths
- `DeathsLastOneAtATime`, `DeadAreNotAskedOneAtATime`. `DeathLasts` is not inductive:
  if a dead endpoint could be asked, its answer would revive it. `SequentialInv` adds
  that one request at most is active (`OneAtATime`), that an endpoint held dead by the
  map also looks dead to the last resort (`DeathHolds`), that no call or reset is under
  way to one (`CalledAlive`), and that no endpoint dies while it is being reset
  (`ResetAlone`).
- `NobodySurrendersEarly`, for requests of every kind. Its invariant `SurveyInv` says
  that the endpoints behind a last pass that has asked nobody have answered, had their
  final attempt, were left out for their state, or are dead and cooling down
  (`Surveyed`), that a call under way or just over counts as an attempt of its pass
  (`CallsAreAttempts`), and that there is no verdict yet and each endpoint listed as
  answered has answered or had its final attempt (`NoVerdictYet`, `Accounted`).
- `NobodySpins`, for requests of any kind. Each step without time passing lowers a
  rank: the calls that failures, cooldowns and answers leave, then `Closer`. The
  invariant `CallInv` says of a call under way that it is either the last resort's, and
  its endpoint already listed as answered, or was made to an endpoint without cooldown.
  With `NeverStuck` and `RetriesAreBounded` this is the safety half of
  `EveryRequestAnswered`: a request always has a step, takes finitely many within an
  instant, and is over at a bounded time; that the steps are taken is fairness.

`EndpointLocksProofs`
- `AtomicMethods`: both locks exclude, a dying thread has counted enough failures, a
  wiping thread has seen its cooldown over, and time stands still in a method
  (`LocksInv`). A failure takes effect, in the abstract machine, when its method
  has finished counting or, at the threshold, when it sets `unavailable_until`.

`StateCapabilityProofs`
- `StoreIsSound`, then `MarksReconcile`, `ObservationsAreHonoured` and
  `CoverageIsMonotonic`. The invariant is `MarksConsistent` for memory *and* file,
  since a restart loads the file. The arithmetic is in the lemmas on `Verify`,
  `Prune` and `Accuse`.
- `FileFollows`. `FileInv` adds that no record outlives a lifetime from now
  (`LifetimesBounded`), so that a record renewed without being written still outlives
  its copy. An update that owes no write has changed nothing but the expiry and the
  latency, and a write brings the file up to memory; between the two, and after a write
  that failed, nothing is claimed.
- `LiarsStayLiars` needs the same invariant for the restart: with nothing owed or
  missed, the file's unexpired record has memory's flag.

`StoreFilesProofs`
- `FilesTyped`, `ReturnedIsSaved`, `StateStoreIsDurable`. The last two are not
  inductive by themselves: they need that a snapshot is no older than the file while
  its writer holds the lock, that only one writer holds it, and that a call that has
  changed but not yet taken its snapshot will find its change in memory.
- `LoneWritesHeal`. Its invariant `AloneInv` says of a call that has met no other that
  nobody else is in the store, that its snapshot is all of memory, and that the
  truncation before its write was its own.

`ProberProofs`
- The invariant `ProberInv` says that every task is in shape and holds what is in
  `inFlight`, that every record in memory *and* file is true of its node (a mark or an
  accusation has a dialogue that justifies it), and that what a task has verified
  served the block then. `NoProbeIsLostOrDoubled`, `AccusationsAreTrue`,
  `MarksAreNear` and `ProbingServes` follow; the last also from `Max` being the greatest
  of the heads seen.
- The records are true because findings are: `HonestIsNotAccused`, `IgnoringIsNoticed`,
  `ZeroIsNoticed` and `HonestRefusesWhatItDropped` are about one dialogue, and rest on
  the counts before and at the block of a transaction (`CountAtTransaction`) and on
  the first judgement that is not fine (`FirstDecides`).

`GatewayProofs`
- `GatewayInv` says of a fan-out that report and remaining chains together are the
  wanted ones, that each entry is justified, and that the loop over endpoints has ruled
  out all those it has passed since its private start (`Looping`); of a forwarded
  request that the kept body is worth a retry. `TurnsReachAll` is the arithmetic: n
  turns from any start reach n endpoints. With `EndOfLoop` it gives
  `ReportsAreJustified`; `StartKeeps` uses that chains share no endpoint.
- `BodiesAreJudgedWhole` rests on `BatchIsJudgedWhole`: a batch is usable if and only
  if each answer is, wherever it stands.
- `BatchLoopVerdict`: on a batch of any length the loop of `classify_response` ends with
  the verdict of `ClassifyBatch`. The induction over the batch is by least
  counterexample, since the library's induction theorems take an operator.

Only model-checked: liveness (`EveryRequestAnswered`, `CallsReturn`,
`FanOutsAnswered`), which TLAPS cannot reason about here, and the properties of the
four runs that the code violates. The properties in section 4 that are neither among
the runs nor true are not claimed.

## 6. State of the plan

Done: `EndpointHealth`, `RequestRouting` with `BoundedService`, `EndpointLocks` with
`AtomicHealth`, `StateCapability`; then `StoreFiles` with `DurableStore` (both files),
`Classify` and `ProbeDialogue`, `Prober` composed with `StateCapability`,
`ContractChains`, `Gateway` composed with `Classify`; and the proofs of each.

Every safety invariant and action property of a passing run is a theorem, those of
the sequential routing under the hypotheses named there.

Open: a version of `DeathLasts` for overlapping requests that says how
much of a death is left; two processes that share the files.

## 7. Not modelled

- The wording of messages, logging, the contents of requests and replies beyond their
  class, the patterns themselves, TLS and HTTP framing, connections.
- Start-up (`main.rs`, `config.rs`, `banner.rs`): reading the command line and the
  configuration, asking for a newer version, running the installer. It is sequential
  I/O before the service exists; what it hands to the service, the restored files
  included, are the initial states of the modules.
- Build and installation (`build.rs`, `install.sh`) and the examples.
- The order of the endpoints that `verified_state_endpoints` returns (by latency), the
  counter of probe requests, and getters.
