--------------------------- MODULE ContractChains ---------------------------
(***************************************************************************)
(* `sr_contract_chains` (handle_contract_chains and fetch_contract_code of *)
(* proxy.rs): for every wanted chain, one after the other, ask the chain's *)
(* endpoints for a contract's code, in rotation, each at most once, until  *)
(* one of them answers.  Any number of clients do so at once; they share   *)
(* the rotation indices and the endpoints' health with each other and with *)
(* the forwarded requests that Gateway adds.                               *)
(*                                                                         *)
(* A call or a pause takes any time: the clock ticks freely.               *)
(***************************************************************************)
EXTENDS EndpointHealth, Sequences, FiniteSets, Functions, SequencesExt

CONSTANTS
    Clients,     \* the client requests, one each
    Keys,        \* the configured chains
    EvmKeys,     \* those whose key is_evm_chain_key
    Upstreams,   \* the endpoints of each chain, in the order of the configuration
    MaxTime      \* bound: the clock's last value

Endpoints == UNION {Range(Upstreams[k]) : k \in Keys}

ASSUME ChainsAssumption ==
    /\ EvmKeys \subseteq Keys /\ IsFiniteSet(EvmKeys)
    /\ \A k \in Keys : Upstreams[k] \in Seq(Range(Upstreams[k]))
    /\ \A k \in Keys : IsInjective(Upstreams[k])
    /\ \A k, l \in Keys : k # l => Range(Upstreams[k]) \cap Range(Upstreams[l]) = {}
    /\ MaxTime \in Nat

VARIABLES
    now,      \* the clock
    current,  \* each chain's current_index, modulo its number of endpoints
    health,   \* each endpoint's failures and unavailable_until
    stored,   \* each endpoint's entry in the health store
    call      \* what each client's request is at

shared == <<now, current, health, stored>>
chainsVars == <<now, current, health, stored, call>>

Outcomes == {"code", "empty", "error", "failed", "noEndpoints", "unconfigured"}

\* `report` is result_map; `ruledOut` is history: the endpoints of the chain's loop
\* that were unavailable at their turn, or asked without giving an answer.
NewCall(list, todo) ==
    [pc |-> "chain", list |-> list, todo |-> todo, start |-> 0, offset |-> 0,
     ruledOut |-> {}, report |-> <<>>]

Idle == [pc |-> "idle"]

ChainsInit ==
    /\ now = 0
    /\ current = [k \in Keys |-> 0]
    /\ health = [e \in Endpoints |-> FreshHealth]
    /\ stored = [e \in Endpoints |-> NoInstant]
    /\ call = [c \in Clients |-> Idle]

(***************************************************************************)
(* What a reply does to an endpoint's health and its stored entry.         *)
(***************************************************************************)
HardFailure(e) ==
    /\ health' = [health EXCEPT ![e] = MarkHardFailure(@, now)]
    /\ stored' = IF ReachesThreshold(health[e].failures + 1)
                 THEN [stored EXCEPT ![e] = now + HardFailureCooldown] ELSE stored

RateLimits(e) ==
    /\ health' = [health EXCEPT ![e] = MarkRateLimited(@, now)]
    /\ UNCHANGED stored

Reset(e) ==
    /\ health' = [health EXCEPT ![e] = FreshHealth]
    /\ stored' = [stored EXCEPT ![e] = NoInstant]

(***************************************************************************)
(* A client's request arrives.  Without a list it concerns every EVM       *)
(* chain, in the order in which the map yields them; a list is taken as it *)
(* is, with unknown, repeated and non-EVM keys.                            *)
(***************************************************************************)
Targets(list) == IF list = <<>> THEN EvmKeys ELSE Range(list)

Itineraries(list) ==
    IF list = <<>> THEN {o \in [1 .. Cardinality(EvmKeys) -> EvmKeys] : Range(o) = EvmKeys}
                   ELSE {list}

AskChains(c, list) ==
    /\ call[c].pc = "idle"
    /\ \E todo \in Itineraries(list) : call' = [call EXCEPT ![c] = NewCall(list, todo)]
    /\ UNCHANGED shared

(***************************************************************************)
(* The loop over the chains.                                               *)
(***************************************************************************)
AtChain(c) == call[c].pc = "chain" /\ call[c].todo # <<>>

Key(c) == Head(call[c].todo)

\* A repeated chain replaces its earlier entry.
Reported(q, outcome) ==
    LET key == Head(q.todo)
    IN  [q EXCEPT !.pc = "chain", !.todo = Tail(@),
                  !.report = [k \in DOMAIN @ \cup {key} |-> IF k = key THEN outcome ELSE @[k]]]

Report(c, outcome) == call' = [call EXCEPT ![c] = Reported(@, outcome)]

NotConfigured(c) ==
    /\ AtChain(c) /\ Key(c) \notin Keys
    /\ Report(c, "unconfigured") /\ UNCHANGED shared

WithoutEndpoints(c) ==
    /\ AtChain(c) /\ Key(c) \in Keys /\ Upstreams[Key(c)] = <<>>
    /\ Report(c, "noEndpoints") /\ UNCHANGED shared

RotateUnwrapped(k) == current' = [current EXCEPT ![k] = @ + 1]   \* faulty variant

Rotate(k) == current' = [current EXCEPT ![k] = (@ + 1) % Len(Upstreams[k])]

StartChain(c) ==
    /\ AtChain(c) /\ Key(c) \in Keys /\ Upstreams[Key(c)] # <<>>
    /\ Rotate(Key(c))
    /\ call' = [call EXCEPT ![c].pc = "scan", ![c].start = current[Key(c)], ![c].offset = 0,
                            ![c].ruledOut = @ \ Range(Upstreams[Key(c)])]
    /\ UNCHANGED <<now, health, stored>>

AnswerChains(c) ==
    /\ call[c].pc = "chain" /\ call[c].todo = <<>>
    /\ call' = [call EXCEPT ![c].pc = "done"]
    /\ UNCHANGED shared

(***************************************************************************)
(* The loop over one chain's endpoints, from the index at its start.       *)
(***************************************************************************)
TurnNow(q) ==   \* faulty variant: the shared index is read again at each turn
    LET upstreams == Upstreams[Head(q.todo)]
    IN  upstreams[((current[Head(q.todo)] + q.offset) % Len(upstreams)) + 1]

Turn(q) ==
    LET upstreams == Upstreams[Head(q.todo)]
    IN  upstreams[((q.start + q.offset) % Len(upstreams)) + 1]

Scanning(c) == call[c].pc = "scan" /\ call[c].offset < Len(Upstreams[Key(c)])

Onward(q, pc) == [q EXCEPT !.pc = pc, !.offset = @ + 1, !.ruledOut = @ \cup {Turn(q)}]

PassOverInPlace(c) ==   \* faulty variant: the loop does not go on
    /\ Scanning(c) /\ ~IsHealthy(health[Turn(call[c])], now)
    /\ UNCHANGED chainsVars

PassOver(c) ==
    /\ Scanning(c) /\ ~IsHealthy(health[Turn(call[c])], now)
    /\ call' = [call EXCEPT ![c] = Onward(@, "scan")]
    /\ UNCHANGED shared

AskCode(c) ==
    /\ Scanning(c) /\ IsHealthy(health[Turn(call[c])], now)
    /\ call' = [call EXCEPT ![c].pc = "await"]
    /\ health' = [health EXCEPT ![Turn(call[c])] = Refresh(@, now)]
    /\ UNCHANGED <<now, current, stored>>

Goes(c, q) == call' = [call EXCEPT ![c] = q] /\ UNCHANGED <<now, current>>

\* 2xx with a result string; code_is_empty tells the two outcomes apart.
CodeReply(c) ==
    /\ call[c].pc = "await"
    /\ Reset(Turn(call[c]))
    /\ \E outcome \in {"code", "empty"} : Goes(c, Reported(call[c], outcome))

\* 2xx with an `error` member, even null: the chain has its outcome, and the
\* endpoint keeps its record.
ErrorReply(c) ==
    /\ call[c].pc = "await"
    /\ Goes(c, Reported(call[c], "error")) /\ UNCHANGED <<health, stored>>

\* 2xx whose body cannot be read, is no JSON or has no result string.
UnusableReply(c) ==
    /\ call[c].pc = "await"
    /\ HardFailure(Turn(call[c]))
    /\ Goes(c, Onward(call[c], "scan"))

TooManyRequests(c) ==
    /\ call[c].pc = "await"
    /\ RateLimits(Turn(call[c]))
    /\ Goes(c, Onward(call[c], "nap"))

\* No reply, or any other status.
FailedReply(c) ==
    /\ call[c].pc = "await"
    /\ HardFailure(Turn(call[c]))
    /\ Goes(c, Onward(call[c], "nap"))

Wake(c) ==
    /\ call[c].pc = "nap"
    /\ Goes(c, [call[c] EXCEPT !.pc = "scan"]) /\ UNCHANGED <<health, stored>>

AllFailed(c) ==
    /\ call[c].pc = "scan" /\ call[c].offset = Len(Upstreams[Key(c)])
    /\ Report(c, "failed") /\ UNCHANGED shared

ServeChains(c) ==
    \/ NotConfigured(c) \/ WithoutEndpoints(c) \/ StartChain(c) \/ AnswerChains(c)
    \/ PassOver(c) \/ AskCode(c)
    \/ CodeReply(c) \/ ErrorReply(c) \/ UnusableReply(c) \/ TooManyRequests(c) \/ FailedReply(c)
    \/ Wake(c) \/ AllFailed(c)

Tick ==
    /\ now < MaxTime
    /\ now' = now + 1
    /\ UNCHANGED <<current, health, stored, call>>

-----------------------------------------------------------------------------

(***************************************************************************)
(* The report is complete and justified: it has an entry for each wanted   *)
(* chain and no other, and says that all endpoints of a chain failed only  *)
(* if, during its loop, each of them was unavailable at its turn or did    *)
(* not answer - although other requests rotate the index and change the    *)
(* endpoints' health meanwhile (handle_contract_chains).                   *)
(***************************************************************************)
FansOut(c) == call[c].pc \in {"chain", "scan", "await", "nap"}

Justified(q, k) ==
    /\ k \notin Keys => q.report[k] = "unconfigured"
    /\ k \in Keys /\ q.report[k] = "failed"
          => Upstreams[k] # <<>> /\ Range(Upstreams[k]) \subseteq q.ruledOut

ReportIsJustified ==
    \A c \in Clients :
        "report" \in DOMAIN call[c] =>
            /\ call[c].pc = "done" => DOMAIN call[c].report = Targets(call[c].list)
            /\ \A k \in DOMAIN call[c].report \ Range(call[c].todo) : Justified(call[c], k)

(***************************************************************************)
(* Every fan-out is answered: each of its calls ends, by the HTTP client's *)
(* timeout at the latest, and no endpoint is asked twice for a chain.      *)
(***************************************************************************)
FanOutsAnswered ==
    \A c \in Clients : FansOut(c) ~> ~FansOut(c)

=============================================================================
