------------------------------ MODULE Gateway ------------------------------
(***************************************************************************)
(* The HTTP side (`handle_request` of proxy.rs): check a request in the    *)
(* order of the code, refuse it, fan it out over chains (ContractChains)   *)
(* or forward it to the endpoints of one chain.  Of forwarding,            *)
(* RequestRouting models the choice of endpoints and the retries; here any *)
(* available endpoint may be next and the proxy may give up at any time,   *)
(* and what matters is what becomes of each reply (Classify).              *)
(***************************************************************************)
EXTENDS ContractChains, Classify

CONSTANTS
    Visits,    \* bound: what each client may send to the gateway
    Statuses,  \* bound: the classes of HTTP status that upstreams reply with
    Bodies     \* bound: the bodies that upstreams reply with

IsRequest(request) ==
    /\ request.batch \in BOOLEAN
    /\ request.batch \/ DOMAIN request.items = {1}

IsBody(body) ==
    /\ body.json \in BOOLEAN
    /\ body.json => /\ body.batch \in BOOLEAN
                    /\ Len(body.items) \in Nat /\ DOMAIN body.items = 1 .. Len(body.items)
                    /\ body.batch \/ Len(body.items) = 1

ASSUME GatewayAssumption ==
    /\ Statuses \subseteq {"ok", "400", "429", "other"}
    /\ \A body \in Bodies : IsBody(body)
    /\ \A c \in Clients : \A visit \in Visits[c] :
          IsRequest(visit.request) /\ visit.list \in Seq(Range(visit.list))

(***************************************************************************)
(* extract_auth_token and is_authorized.  A visit's credentials are those  *)
(* of x-singlerpc-auth, Authorization and ?auth=, in this order: absent or *)
(* blank, the right token, or another.                                     *)
(***************************************************************************)
Credentials == [1 .. 3 -> {"none", "right", "other"}]

ExtractAuthToken(credentials) ==
    LET given == {i \in 1 .. 3 : credentials[i] # "none"}
    IN  IF given = {} THEN "none" ELSE credentials[Min(given)]

IsAuthorized(credentials) == ExtractAuthToken(credentials) = "right"

(***************************************************************************)
(* The checks of handle_request, in their order.  A visit's path is empty, *)
(* names the fan-out, or a chain; its body cannot be read, is empty, is no *)
(* JSON, lacks what a fan-out needs, or is fine.                           *)
(***************************************************************************)
FanOutPath == "sr_contract_chains"

Unusable(visit) == visit.body \in {"empty", "noJson"}

Check(visit) ==
    CASE ~IsAuthorized(visit.credentials) -> "unauthorized"
      [] IsAuthorized(visit.credentials) /\ (visit.path = "" \/ visit.body = "broken") -> "badRequest"
      [] OTHER ->
            CASE visit.path = FanOutPath ->
                    IF Unusable(visit) \/ visit.body = "noAddress" THEN "badRequest" ELSE "fanOut"
              [] visit.path \notin Keys \cup {FanOutPath} -> "notFound"
              [] OTHER -> IF Unusable(visit) THEN "badRequest" ELSE "forward"

Answered(answer) == [pc |-> "answered", answer |-> answer]

Refuse(c, visit) ==
    /\ call[c].pc = "idle"
    /\ Check(visit) \notin {"fanOut", "forward"}
    /\ call' = [call EXCEPT ![c] = Answered(Check(visit))]
    /\ UNCHANGED shared

FanOut(c, visit) == Check(visit) = "fanOut" /\ AskChains(c, visit.list)

(***************************************************************************)
(* Forwarding (proxy_json_to_chain): entry, a call, the end.               *)
(***************************************************************************)
Nobody == "nobody"
NoBody == [json |-> FALSE]

NoEndpoints(c, visit) ==
    /\ call[c].pc = "idle" /\ Check(visit) = "forward" /\ Upstreams[visit.path] = <<>>
    /\ call' = [call EXCEPT ![c] = Answered("badGateway")]
    /\ UNCHANGED shared

Forward(c, visit) ==
    /\ call[c].pc = "idle" /\ Check(visit) = "forward" /\ Upstreams[visit.path] # <<>>
    /\ Rotate(visit.path)
    /\ call' = [call EXCEPT ![c] =
                  [pc |-> "forward", key |-> visit.path, request |-> visit.request,
                   answered |-> {}, kept |-> NoBody, target |-> Nobody]]
    /\ UNCHANGED <<now, health, stored>>

\* As the last resort an endpoint that is not dead is asked during its cooldown.
Available(e) == IsHealthy(health[e], now) \/ IsRateLimitedOnly(health[e])

Send(c, e) ==
    /\ call[c].pc = "forward" /\ call[c].target = Nobody
    /\ e \in Range(Upstreams[call[c].key]) \ call[c].answered
    /\ Available(e)
    /\ call' = [call EXCEPT ![c].target = e]
    /\ health' = [health EXCEPT ![e] = Refresh(@, now)]
    /\ UNCHANGED <<now, current, stored>>

NoReply(c) ==
    /\ call[c].pc = "forward" /\ call[c].target # Nobody
    /\ HardFailure(call[c].target)
    /\ Goes(c, [call[c] EXCEPT !.target = Nobody])

(***************************************************************************)
(* A reply: what it does to the endpoint's health, ...                     *)
(***************************************************************************)
Answers(e) ==
    /\ health' = [health EXCEPT ![e] = ClearFailures(@)]
    /\ UNCHANGED stored

AnswersRateLimited(e) ==
    /\ health' = [health EXCEPT ![e] = MarkRateLimited(ClearFailures(@), now)]
    /\ UNCHANGED stored

Marks(request, status, body, e) ==
    LET verdict  == ClassifyResponse(request, body)
        decision == Decision(request, status, body)
    IN  CASE decision = "return" -> IF status = "ok" /\ verdict = "Usable" THEN Reset(e) ELSE Answers(e)
          [] decision = "keep" /\ status = "ok" ->
                IF verdict = "RateLimited" THEN AnswersRateLimited(e) ELSE Answers(e)
          [] decision = "keep" /\ status # "ok" ->
                IF verdict = "RateLimited" THEN RateLimits(e) ELSE UNCHANGED <<health, stored>>
          [] OTHER -> IF status = "429" THEN RateLimits(e) ELSE HardFailure(e)

(***************************************************************************)
(* ... and to the client's request.  An answer is handed on with its       *)
(* request and body, for the properties.                                   *)
(***************************************************************************)
HandOn(q, answer, body) ==
    [pc |-> "answered", answer |-> answer, request |-> q.request, body |-> body]

After(q, decision, body) ==
    CASE decision = "return" -> HandOn(q, "returned", body)
      [] decision = "keep" -> [q EXCEPT !.target = Nobody, !.kept = body,
                                        !.answered = @ \cup {q.target}]
      [] OTHER -> [q EXCEPT !.target = Nobody]

Replied(c, status, body) ==
    /\ call[c].pc = "forward" /\ call[c].target # Nobody
    /\ Marks(call[c].request, status, body, call[c].target)
    /\ Goes(c, After(call[c], Decision(call[c].request, status, body), body))

\* The last error an upstream gave, or else 502 with upstream_failure_body.
GiveUp(c) ==
    /\ call[c].pc = "forward" /\ call[c].target = Nobody
    /\ Goes(c, IF call[c].kept # NoBody THEN HandOn(call[c], "lastError", call[c].kept)
                                       ELSE Answered("badGateway"))
    /\ UNCHANGED <<health, stored>>

(***************************************************************************)
(* hyper drops the handler of a client that hangs up.                      *)
(***************************************************************************)
Waits(c) ==
    \/ call[c].pc \in {"await", "nap"}
    \/ call[c].pc = "forward" /\ call[c].target # Nobody

HangUp(c) ==
    /\ Waits(c)
    /\ call' = [call EXCEPT ![c] = Answered("lost")]
    /\ UNCHANGED shared

ServeForward(c) ==
    \/ \E e \in Endpoints : Send(c, e)
    \/ NoReply(c)
    \/ \E status \in Statuses, body \in Bodies : Replied(c, status, body)
    \/ GiveUp(c)

Arrive(c) ==
    \E visit \in Visits[c] : Refuse(c, visit) \/ FanOut(c, visit)
                          \/ NoEndpoints(c, visit) \/ Forward(c, visit)

Next ==
    \/ \E c \in Clients : Arrive(c) \/ ServeChains(c) \/ ServeForward(c) \/ HangUp(c)
    \/ Tick

GatewaySpec == ChainsInit /\ [][Next]_chainsVars

\* The runtime polls every ready task, and every call has the client's timeout.
FairGatewaySpec == GatewaySpec /\ \A c \in Clients : WF_chainsVars(ServeChains(c))

-----------------------------------------------------------------------------

TypeOK ==
    /\ now \in 0 .. MaxTime
    /\ DOMAIN current = Keys
    /\ \A k \in Keys : current[k] \in 0 .. (IF Upstreams[k] = <<>> THEN 0 ELSE Len(Upstreams[k]) - 1)
    /\ health \in [Endpoints -> Health]
    /\ stored \in [Endpoints -> Instant]
    /\ \A c \in Clients :
          /\ call[c].pc \in {"idle", "chain", "scan", "await", "nap", "done", "forward", "answered"}
          /\ "report" \in DOMAIN call[c] => Range(call[c].report) \subseteq Outcomes

(***************************************************************************)
(* A body is judged as a whole, wherever in a batch the telling answer     *)
(* stands: the client is handed, as an answer, only bodies none of whose   *)
(* items another endpoint might have answered better, or the reply to a    *)
(* submission; and only bodies with such an item, or the refusal of a      *)
(* batch, are handed on as last error (classify_response, and the replies  *)
(* in proxy_json_to_chain).                                                *)
(***************************************************************************)
WorthRetrying(request, body) ==
    \/ request.batch # body.batch
    \/ \E i \in DOMAIN body.items :
          ClassifySingle(IF request.batch THEN RequestOf(request, body.items[i])
                                          ELSE {request.items[1].kind}, body.items[i]) # "Usable"

BodiesJudgedWhole ==
    \A c \in Clients :
        "body" \in DOMAIN call[c] =>
            LET q == call[c]
            IN  IF q.answer = "returned"
                THEN SubmitsTransaction(q.request) \/ ~WorthRetrying(q.request, q.body)
                ELSE WorthRetrying(q.request, q.body)

=============================================================================
