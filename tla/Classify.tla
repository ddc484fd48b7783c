------------------------------ MODULE Classify ------------------------------
(***************************************************************************)
(* What the proxy makes of an upstream's reply (classify_response and its  *)
(* helpers, proxy.rs): is it an answer for the client, a reason to ask     *)
(* another endpoint, or no JSON-RPC at all.  A message is reduced to the   *)
(* pattern tables it matches, an error to its code and message.            *)
(***************************************************************************)
EXTENDS Integers, Sequences, FiniteSetsExt

NoRetry == "NoRetry"      \* Option<RetryKind>::None
RetryKinds == {"MissingState", "RateLimited", "Transient"}

\* RetryKinds stand for ResponseVerdict::Retryable(kind).
Verdicts == {"Usable", "NotJsonRpc"} \cup RetryKinds

Tables == {"final", "missing", "lagging", "rateLimit", "transient"}

NoCode == 0
FinalCodes == {3, -32002, -32003}
RateLimitCodes == {-32005, -32029, -32090}
TransientCodes == {-32603, -32046}

\* A bare string, or null, in the place of an error has no code.
RpcError(code, phrases) == [code |-> code, phrases |-> phrases]

(***************************************************************************)
(* classify_rpc_error.  What every node would answer alike is final,       *)
(* "whatever else the message contains" (proxy.rs:1259-1261).              *)
(***************************************************************************)
IsFinal(error) == error.code \in FinalCodes \/ "final" \in error.phrases

IsRateLimit(error) == error.code \in RateLimitCodes \/ "rateLimit" \in error.phrases

IsTransient(error) == error.code \in TransientCodes \/ "transient" \in error.phrases

ClassifyRpcError(error) ==
    IF IsFinal(error) THEN NoRetry
    ELSE IF "missing" \in error.phrases THEN "MissingState"
    ELSE IF "lagging" \in error.phrases THEN "Transient"
    ELSE IF IsRateLimit(error) THEN "RateLimited"
    ELSE IF IsTransient(error) THEN "Transient"
    ELSE NoRetry

(***************************************************************************)
(* classify_single: one answer, and the request it belongs to if any.      *)
(*   "error"    it has an `error`                                          *)
(*   "text"     its result is a string that does not start with 0x         *)
(*   "null"     its result is null                                         *)
(*   "value"    any other result                                           *)
(*   "neither"  it has no error and no result                              *)
(*   "other"    it is not an object                                        *)
(***************************************************************************)
AnswerKinds == {"error", "text", "null", "value", "neither", "other"}

\* A request names an explicit block in eth_getBlockByNumber, reads, or submits.
RequestKinds == {"getBlock", "read", "submit"}

ClassifySingle(requests, answer) ==
    LET kind == ClassifyRpcError(answer.error) IN
    CASE answer.kind \in {"other", "neither"} -> "NotJsonRpc"
      [] answer.kind \in {"error", "text"}    -> IF kind = NoRetry THEN "Usable" ELSE kind
      [] answer.kind = "null" /\ "getBlock" \in requests -> "Transient"
      [] OTHER -> "Usable"

(***************************************************************************)
(* classify_response.  A request is a sequence of items, and so is a body; *)
(* `batch` tells whether they came in an array.  A body may also be no     *)
(* JSON at all, and "other" is also a JSON value that is no object.        *)
(***************************************************************************)
\* The kind of the first request item with the id of the answer.
RequestOf(request, answer) ==
    LET same == {i \in DOMAIN request.items : request.items[i].id = answer.id}
    IN  IF same = {} THEN {} ELSE {request.items[Min(same)].kind}

\* The loop leaves at the first answer that is no JSON-RPC or lacks state; of the
\* other reasons to retry the last one counts.
Leaves(verdict) == verdict \in {"NotJsonRpc", "MissingState"}

\* Faulty variant: the verdict of the last answer counts.
ClassifyBatchLast(request, answers) ==
    IF answers = <<>> THEN "Usable"
    ELSE LET last == answers[Len(answers)]
         IN  ClassifySingle(RequestOf(request, last), last)

ClassifyBatch(request, answers) ==
    LET verdict(i) == ClassifySingle(RequestOf(request, answers[i]), answers[i])
        leaving    == {i \in DOMAIN answers : Leaves(verdict(i))}
        retried    == {i \in DOMAIN answers : verdict(i) # "Usable"}
    IN  IF leaving # {} THEN verdict(Min(leaving))
        ELSE IF retried # {} THEN verdict(Max(retried)) ELSE "Usable"

\* The loop itself, which ClassifyBatch sums up: run[i] is its state after i
\* answers with these verdicts, and whether it has left by then.
LoopStart == [left |-> FALSE, verdict |-> "Usable"]

LoopBody(state, verdict) ==
    CASE state.left \/ verdict = "Usable"          -> state
      [] ~state.left /\ Leaves(verdict)            -> [left |-> TRUE, verdict |-> verdict]
      [] OTHER                                     -> [left |-> FALSE, verdict |-> verdict]

IsLoop(run, verdicts) ==
    /\ run[0] = LoopStart
    /\ \A i \in DOMAIN verdicts : run[i] = LoopBody(run[i - 1], verdicts[i])

VerdictsOn(request, answers) ==
    [i \in DOMAIN answers |-> ClassifySingle(RequestOf(request, answers[i]), answers[i])]

\* A single answer to a batch says that batches, or so many requests, are refused.
ClassifyRefusedBatch(answer) ==
    LET verdict == ClassifySingle({}, answer)
    IN  IF verdict = "Usable" THEN "Transient" ELSE verdict

ClassifyResponse(request, body) ==
    CASE ~body.json                    -> "NotJsonRpc"
      [] body.json /\ request.batch /\ body.batch ->
            ClassifyBatch(request, body.items)
      [] body.json /\ request.batch /\ ~body.batch ->
            ClassifyRefusedBatch(body.items[1])
      [] body.json /\ ~request.batch /\ body.batch -> "NotJsonRpc"
      [] OTHER -> ClassifySingle({request.items[1].kind}, body.items[1])

\* submits_transaction.
SubmitsTransaction(request) ==
    \E i \in DOMAIN request.items : request.items[i].kind = "submit"

\* Does the reply carry an error at its top level?  (proxy.rs:709-711)
CarriesError(body) == body.json /\ ~body.batch /\ body.items[1].kind = "error"

(***************************************************************************)
(* What a reply means for the request: hand its body to the client, keep   *)
(* it as the last error and ask the next endpoint, or just ask the next.   *)
(* Status is "ok" for 2xx, 400, 429, or "other".                           *)
(***************************************************************************)
Decision(request, status, body) ==
    LET verdict == ClassifyResponse(request, body) IN
    CASE status = "ok" /\ verdict = "Usable" -> "return"
      [] status = "ok" /\ verdict \in RetryKinds /\ SubmitsTransaction(request) -> "return"
      [] status = "ok" /\ verdict \in RetryKinds /\ ~SubmitsTransaction(request) -> "keep"
      [] status \in {"400", "other"} /\ verdict \in {"MissingState", "RateLimited"} -> "keep"
      [] status = "400" /\ verdict = "Usable" /\ CarriesError(body) -> "return"
      [] OTHER -> "next"

=============================================================================
