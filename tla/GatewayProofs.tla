---------------------------- MODULE GatewayProofs ----------------------------
(***************************************************************************)
(* Proofs about Gateway, for any clients, chains, endpoints, requests,     *)
(* lists of chains and upstream replies.                                   *)
(***************************************************************************)
EXTENDS Gateway, ExtremaProofs, FiniteSetTheorems

(***************************************************************************)
(* Bodies.                                                                 *)
(***************************************************************************)
\* A batch is usable exactly if each of its answers is.
LEMMA BatchIsJudgedWhole ==
    ASSUME NEW request, NEW answers, NEW n \in Nat, DOMAIN answers = 1 .. n
    PROVE  ClassifyBatch(request, answers) = "Usable"
              <=> \A i \in DOMAIN answers :
                     ClassifySingle(RequestOf(request, answers[i]), answers[i]) = "Usable"
  <1> DEFINE Verdict(i) == ClassifySingle(RequestOf(request, answers[i]), answers[i])
             leaving == {i \in DOMAIN answers : Leaves(Verdict(i))}
             retried == {i \in DOMAIN answers : Verdict(i) # "Usable"}
  <1>1. ClassifyBatch(request, answers) =
          IF leaving # {} THEN Verdict(Min(leaving))
          ELSE IF retried # {} THEN Verdict(Max(retried)) ELSE "Usable"
    BY DEF ClassifyBatch
  <1> HIDE DEF Verdict
  <1>2. leaving \subseteq Nat /\ retried \subseteq 0 .. n
    OBVIOUS
  <1>3. CASE leaving # {}
    <2>1. Min(leaving) \in leaving
      BY <1>2, <1>3, MinIsLeast
    <2>2. Verdict(Min(leaving)) # "Usable"
      BY <2>1 DEF Leaves
    <2> QED
      BY <1>1, <1>3, <2>1, <2>2 DEF Verdict
  <1>4. CASE leaving = {} /\ retried # {}
    <2>1. Max(retried) \in retried
      BY <1>2, <1>4, MaxIsGreatest
    <2> QED
      BY <1>1, <1>4, <2>1 DEF Verdict
  <1>5. CASE leaving = {} /\ retried = {}
    BY <1>1, <1>5 DEF Verdict
  <1> QED
    BY <1>3, <1>4, <1>5

(***************************************************************************)
(* The loop over the answers of a batch: what is true after k of them.     *)
(***************************************************************************)
LoopHolds(state, verdicts, k) ==
    IF state.left
    THEN \E m \in 1 .. k : /\ Leaves(verdicts[m]) /\ state.verdict = verdicts[m]
                           /\ \A i \in 1 .. m - 1 : ~Leaves(verdicts[i])
    ELSE /\ \A i \in 1 .. k : ~Leaves(verdicts[i])
         /\ \/ state.verdict = "Usable" /\ \A i \in 1 .. k : verdicts[i] = "Usable"
            \/ \E m \in 1 .. k : /\ verdicts[m] # "Usable" /\ state.verdict = verdicts[m]
                                 /\ \A i \in m + 1 .. k : verdicts[i] = "Usable"

\* One more answer keeps it so.
LEMMA LoopKeeps ==
    ASSUME NEW k \in Nat, NEW verdicts, NEW state, LoopHolds(state, verdicts, k),
           state.left \in BOOLEAN
    PROVE  /\ LoopHolds(LoopBody(state, verdicts[k + 1]), verdicts, k + 1)
           /\ LoopBody(state, verdicts[k + 1]).left \in BOOLEAN
  <1> DEFINE v == verdicts[k + 1]
             after == LoopBody(state, v)
  <1>1. \A i : i \in 1 .. k + 1 <=> i \in 1 .. k \/ i = k + 1
    OBVIOUS
  <1>2. CASE state.left
    <2>1. after = state
      BY <1>2 DEF LoopBody
    <2> QED
      BY <1>1, <1>2, <2>1 DEF LoopHolds
  <1>3. CASE ~state.left /\ v = "Usable"
    <2>1. after = state /\ ~Leaves(v)
      BY <1>3 DEF LoopBody, Leaves
    <2>2. \A i \in 1 .. k + 1 : ~Leaves(verdicts[i])
      BY <1>1, <1>3, <2>1 DEF LoopHolds
    <2>3. CASE \A i \in 1 .. k : verdicts[i] = "Usable"
      <3>1. state.verdict = "Usable"
        BY <1>3, <2>3 DEF LoopHolds
      <3> QED
        BY <1>1, <1>3, <2>1, <2>2, <2>3, <3>1 DEF LoopHolds
    <2>4. CASE ~\A i \in 1 .. k : verdicts[i] = "Usable"
      <3>1. PICK m \in 1 .. k : /\ verdicts[m] # "Usable" /\ state.verdict = verdicts[m]
                                /\ \A i \in m + 1 .. k : verdicts[i] = "Usable"
        BY <1>3, <2>4 DEF LoopHolds
      <3>2. \A i \in m + 1 .. k + 1 : verdicts[i] = "Usable"
        BY <1>3, <3>1
      <3> QED
        BY <1>1, <1>3, <2>1, <2>2, <3>1, <3>2 DEF LoopHolds
    <2> QED
      BY <2>3, <2>4
  <1>4. CASE ~state.left /\ Leaves(v)
    <2>1. after = [left |-> TRUE, verdict |-> v]
      BY <1>4 DEF LoopBody, Leaves
    <2>2. \A i \in 1 .. (k + 1) - 1 : ~Leaves(verdicts[i])
      BY <1>4 DEF LoopHolds
    <2> QED
      BY <1>4, <2>1, <2>2 DEF LoopHolds
  <1>5. CASE ~state.left /\ v # "Usable" /\ ~Leaves(v)
    <2>1. after = [left |-> FALSE, verdict |-> v]
      BY <1>5 DEF LoopBody
    <2>2. \A i \in 1 .. k + 1 : ~Leaves(verdicts[i])
      BY <1>1, <1>5 DEF LoopHolds
    <2>3. k + 1 \in 1 .. k + 1 /\ \A i \in (k + 1) + 1 .. k + 1 : verdicts[i] = "Usable"
      OBVIOUS
    <2> QED
      BY <1>5, <2>1, <2>2, <2>3 DEF LoopHolds
  <1> QED
    BY <1>2, <1>3, <1>4, <1>5

\* What is true after all of them, by the least number after which it is not.
LEMMA LoopEnds ==
    ASSUME NEW n \in Nat, NEW verdicts, DOMAIN verdicts = 1 .. n, NEW run, IsLoop(run, verdicts)
    PROVE  LoopHolds(run[n], verdicts, n)
  <1> DEFINE Fine(k) == LoopHolds(run[k], verdicts, k) /\ run[k].left \in BOOLEAN
             bad == {k \in 0 .. n : ~Fine(k)}
  <1>1. Fine(0)
    BY DEF IsLoop, LoopStart, LoopHolds
  <1>2. \A k \in 0 .. n - 1 : Fine(k) => Fine(k + 1)
    <2> TAKE k \in 0 .. n - 1
    <2>1. run[k + 1] = LoopBody(run[k], verdicts[k + 1])
      BY DEF IsLoop
    <2> QED
      BY <2>1, LoopKeeps
  <1> HIDE DEF Fine
  <1>3. ASSUME bad # {}
        PROVE  FALSE
    <2>1. bad \subseteq Nat
      OBVIOUS
    <2>2. PICK b \in bad : \A y \in bad : b <= y
      BY <1>3, <2>1, LeastExists
    <2>3. b \in 1 .. n
      BY <1>1, <2>2
    <2>4. Fine(b - 1)
      BY <2>2, <2>3
    <2>5. Fine((b - 1) + 1)
      BY <1>2, <2>3, <2>4
    <2> QED
      BY <2>2, <2>3, <2>5
  <1>4. Fine(n)
    BY <1>3
  <1> QED
    BY <1>4 DEF Fine

\* The loop runs to its end, whatever the verdicts.
LEMMA LoopRuns ==
    ASSUME NEW n \in Nat, NEW verdicts, DOMAIN verdicts = 1 .. n
    PROVE  \E run : IsLoop(run, verdicts)
  <1> DEFINE Runs(k) == \E run : /\ run[0] = LoopStart
                                 /\ \A i \in 1 .. k : run[i] = LoopBody(run[i - 1], verdicts[i])
             bad == {k \in 0 .. n : ~Runs(k)}
  <1>1. Runs(0)
    <2> DEFINE still == [i \in {0} |-> LoopStart]
    <2>1. still[0] = LoopStart /\ \A i \in 1 .. 0 : still[i] = LoopBody(still[i - 1], verdicts[i])
      OBVIOUS
    <2> HIDE DEF still
    <2> QED
      BY <2>1
  <1>2. \A k \in 0 .. n - 1 : Runs(k) => Runs(k + 1)
    <2> TAKE k \in 0 .. n - 1
    <2> HAVE Runs(k)
    <2>1. PICK run : /\ run[0] = LoopStart
                     /\ \A i \in 1 .. k : run[i] = LoopBody(run[i - 1], verdicts[i])
      OBVIOUS
    <2> DEFINE longer == [i \in 0 .. k + 1 |->
                             IF i <= k THEN run[i] ELSE LoopBody(run[k], verdicts[k + 1])]
    <2>2. longer[0] = LoopStart
      BY <2>1
    <2>3. \A i \in 1 .. k + 1 : longer[i] = LoopBody(longer[i - 1], verdicts[i])
      BY <2>1
    <2> QED
      BY <2>2, <2>3
  <1> HIDE DEF Runs
  <1>3. ASSUME bad # {}
        PROVE  FALSE
    <2>1. bad \subseteq Nat
      OBVIOUS
    <2>2. PICK b \in bad : \A y \in bad : b <= y
      BY <1>3, <2>1, LeastExists
    <2>3. b \in 1 .. n
      BY <1>1, <2>2
    <2>4. Runs(b - 1)
      BY <2>2, <2>3
    <2>5. Runs((b - 1) + 1)
      BY <1>2, <2>3, <2>4
    <2> QED
      BY <2>2, <2>3, <2>5
  <1>4. Runs(n)
    BY <1>3
  <1> QED
    BY <1>4 DEF Runs, IsLoop

\* On a batch of any length, the loop of classify_response returns at its end
\* what ClassifyBatch says: the first verdict to leave it, or else the last one
\* worth a retry, or else that the batch is usable.
THEOREM BatchLoopVerdict ==
    ASSUME NEW request, NEW answers, NEW n \in Nat, DOMAIN answers = 1 .. n
    PROVE  /\ \E run : IsLoop(run, VerdictsOn(request, answers))
           /\ \A run : IsLoop(run, VerdictsOn(request, answers)) =>
                 run[n].verdict = ClassifyBatch(request, answers)
  <1> DEFINE verdicts == VerdictsOn(request, answers)
             leaving == {i \in 1 .. n : Leaves(verdicts[i])}
             retried == {i \in 1 .. n : verdicts[i] # "Usable"}
  <1>1. DOMAIN verdicts = 1 .. n
    BY DEF VerdictsOn
  <1>2. ClassifyBatch(request, answers) =
          IF leaving # {} THEN verdicts[Min(leaving)]
          ELSE IF retried # {} THEN verdicts[Max(retried)] ELSE "Usable"
    <2> DEFINE V(i) == ClassifySingle(RequestOf(request, answers[i]), answers[i])
    <2>1. \A i \in 1 .. n : verdicts[i] = V(i)
      BY DEF VerdictsOn
    <2>2. ClassifyBatch(request, answers) =
            LET l == {i \in DOMAIN answers : Leaves(V(i))}
                t == {i \in DOMAIN answers : V(i) # "Usable"}
            IN  IF l # {} THEN V(Min(l)) ELSE IF t # {} THEN V(Max(t)) ELSE "Usable"
      BY DEF ClassifyBatch
    <2> HIDE DEF verdicts, V
    <2>3. leaving = {i \in DOMAIN answers : Leaves(V(i))} /\ retried = {i \in DOMAIN answers : V(i) # "Usable"}
      BY <2>1
    <2>4. leaving # {} => Min(leaving) \in 1 .. n
      <3>1. leaving \subseteq Nat
        OBVIOUS
      <3> QED
        BY <3>1, MinIsLeast
    <2>5. retried # {} => Max(retried) \in 1 .. n
      <3>1. retried \subseteq 0 .. n
        OBVIOUS
      <3> QED
        BY <3>1, MaxIsGreatest
    <2> HIDE DEF leaving, retried
    <2> QED
      BY <2>1, <2>2, <2>3, <2>4, <2>5
  <1> HIDE DEF verdicts
  <1>3. ASSUME NEW run, IsLoop(run, verdicts)
        PROVE  run[n].verdict = ClassifyBatch(request, answers)
    <2>1. LoopHolds(run[n], verdicts, n)
      BY <1>1, <1>3, LoopEnds
    <2>2. leaving \subseteq Nat /\ retried \subseteq 0 .. n
      OBVIOUS
    <2>3. CASE run[n].left
      <3>1. PICK m \in 1 .. n : /\ Leaves(verdicts[m]) /\ run[n].verdict = verdicts[m]
                                /\ \A i \in 1 .. m - 1 : ~Leaves(verdicts[i])
        BY <2>1, <2>3 DEF LoopHolds
      <3>2. m \in leaving /\ \A i \in leaving : m <= i
        BY <3>1
      <3>3. Min(leaving) \in leaving /\ \A i \in leaving : Min(leaving) <= i
        BY <2>2, <3>2, MinIsLeast
      <3>4. Min(leaving) = m
        BY <2>2, <3>2, <3>3
      <3> QED
        BY <1>2, <3>1, <3>2, <3>4
    <2>4. CASE ~run[n].left /\ retried # {}
      <3>1. PICK m \in 1 .. n : /\ verdicts[m] # "Usable" /\ run[n].verdict = verdicts[m]
                                /\ \A i \in m + 1 .. n : verdicts[i] = "Usable"
        BY <2>1, <2>4 DEF LoopHolds
      <3>2. m \in retried /\ \A i \in retried : i <= m
        BY <3>1
      <3>3. Max(retried) \in retried /\ \A i \in retried : i <= Max(retried)
        BY <2>2, <2>4, MaxIsGreatest
      <3>4. Max(retried) = m
        BY <2>2, <3>2, <3>3
      <3>5. leaving = {}
        BY <2>1, <2>4 DEF LoopHolds
      <3> QED
        BY <1>2, <3>1, <3>2, <3>4, <3>5
    <2>5. CASE ~run[n].left /\ retried = {}
      <3>1. leaving = {} /\ run[n].verdict = "Usable"
        BY <2>1, <2>5 DEF LoopHolds
      <3> QED
        BY <1>2, <2>5, <3>1
    <2> QED
      BY <2>3, <2>4, <2>5
  <1> QED
    BY <1>1, <1>3, LoopRuns DEF verdicts

\* The verdict on a body says if another endpoint might do better.
LEMMA VerdictsAreWhole ==
    ASSUME NEW request, IsRequest(request), NEW body, IsBody(body)
    PROVE  LET verdict == ClassifyResponse(request, body)
           IN  /\ verdict = "Usable" => ~WorthRetrying(request, body)
               /\ verdict \in RetryKinds => WorthRetrying(request, body)
               /\ verdict = "Usable" \/ verdict \in RetryKinds => body.json
  <1> DEFINE verdict == ClassifyResponse(request, body)
  <1>1. CASE ~body.json
    BY <1>1 DEF ClassifyResponse, RetryKinds
  <1>2. CASE body.json /\ request.batch /\ body.batch
    <2>1. verdict = ClassifyBatch(request, body.items)
      BY <1>2 DEF ClassifyResponse
    <2>2. /\ Len(body.items) \in Nat /\ DOMAIN body.items = 1 .. Len(body.items)
      BY <1>2 DEF IsBody
    <2>3. WorthRetrying(request, body) <=>
            \E i \in DOMAIN body.items :
               ClassifySingle(RequestOf(request, body.items[i]), body.items[i]) # "Usable"
      BY <1>2 DEF WorthRetrying
    <2> QED
      BY <1>2, <2>1, <2>2, <2>3, BatchIsJudgedWhole DEF RetryKinds
  <1>3. CASE body.json /\ request.batch # body.batch
    <2>1. verdict # "Usable"
      BY <1>3 DEF ClassifyResponse, ClassifyRefusedBatch, IsRequest, IsBody
    <2> QED
      BY <1>3, <2>1 DEF WorthRetrying
  <1>4. CASE body.json /\ ~request.batch /\ ~body.batch
    <2>1. verdict = ClassifySingle({request.items[1].kind}, body.items[1])
      BY <1>4 DEF ClassifyResponse
    <2>2. DOMAIN body.items = {1}
      BY <1>4 DEF IsBody
    <2>3. WorthRetrying(request, body) <=>
            \E i \in DOMAIN body.items :
               ClassifySingle({request.items[1].kind}, body.items[i]) # "Usable"
      BY <1>4, Zenon DEF WorthRetrying, IsRequest, IsBody
    <2> QED
      BY <1>4, <2>1, <2>2, <2>3 DEF RetryKinds
  <1> QED
    BY <1>1, <1>2, <1>3, <1>4 DEF IsRequest, IsBody

\* What is handed on or kept is as BodiesJudgedWhole wants it.
LEMMA DecisionsAreWhole ==
    ASSUME NEW request, IsRequest(request), NEW body, IsBody(body), NEW status
    PROVE  LET decision == Decision(request, status, body)
           IN  /\ decision = "return" =>
                     body.json /\ (SubmitsTransaction(request) \/ ~WorthRetrying(request, body))
               /\ decision = "keep" => body.json /\ WorthRetrying(request, body)
  BY VerdictsAreWhole DEF Decision, RetryKinds

-----------------------------------------------------------------------------
(***************************************************************************)
(* What a client's request can be at.                                      *)
(***************************************************************************)
Looping(q) ==
    LET upstreams == Upstreams[Head(q.todo)] IN
    /\ q.todo # <<>> /\ Head(q.todo) \in Keys /\ upstreams # <<>>
    /\ q.start < Len(upstreams) /\ q.offset <= Len(upstreams)
    /\ q.pc = "await" => q.offset < Len(upstreams)
    /\ \A i \in 0 .. q.offset - 1 :
          upstreams[((q.start + i) % Len(upstreams)) + 1] \in q.ruledOut

FanShape(q) ==
    q \in [pc : {"chain", "scan", "await", "nap", "done"}, list : {q.list},
           todo : Seq(Targets(q.list)), start : Nat, offset : Nat,
           ruledOut : SUBSET Endpoints, report : {q.report}]

\* The report and the chains to come cover the wanted chains; what is reported
\* is justified; the loop over endpoints has ruled out all it has passed.
Fanning(q) ==
    /\ FanShape(q)
    /\ DOMAIN q.report \cup Range(q.todo) = Targets(q.list)
    /\ Range(q.report) \subseteq Outcomes
    /\ q.pc = "done" => q.todo = <<>>
    /\ \A k \in DOMAIN q.report \ Range(q.todo) : Justified(q, k)
    /\ q.pc \in {"scan", "await", "nap"} => Looping(q)

Forwarding(q) ==
    /\ q \in [pc : {"forward"}, key : Keys, request : {q.request},
              answered : {q.answered}, kept : {q.kept}, target : Endpoints \cup {Nobody}]
    /\ Upstreams[q.key] # <<>>
    /\ IsRequest(q.request)
    /\ q.kept = NoBody \/ WorthRetrying(q.request, q.kept)

Judged(q) ==
    IF q.answer = "returned" THEN SubmitsTransaction(q.request) \/ ~WorthRetrying(q.request, q.body)
                             ELSE WorthRetrying(q.request, q.body)

HandedOn(q) ==
    \/ q \in [pc : {"answered"}, answer : {q.answer}]
    \/ /\ q \in [pc : {"answered"}, answer : {q.answer}, request : {q.request}, body : {q.body}]
       /\ Judged(q)

Sound(q) == q = Idle \/ Fanning(q) \/ Forwarding(q) \/ HandedOn(q)

\* What a request is at tells its shape.
LEMMA ShapeOf ==
    ASSUME NEW q, Sound(q)
    PROVE  /\ q.pc = "idle" => q = Idle
           /\ q.pc \in {"chain", "scan", "await", "nap", "done"} => Fanning(q)
           /\ q.pc = "forward" => Forwarding(q)
           /\ q.pc = "answered" => HandedOn(q)
           /\ q.pc \in {"idle", "chain", "scan", "await", "nap", "done", "forward", "answered"}
           /\ "report" \in DOMAIN q => Fanning(q)
           /\ "body" \in DOMAIN q => Judged(q)
  <1>1. CASE q = Idle
    BY <1>1 DEF Idle
  <1>2. CASE Fanning(q)
    BY <1>2 DEF Fanning, FanShape
  <1>3. CASE Forwarding(q)
    BY <1>3 DEF Forwarding
  <1>4. CASE HandedOn(q)
    BY <1>4 DEF HandedOn
  <1> QED
    BY <1>1, <1>2, <1>3, <1>4 DEF Sound

-----------------------------------------------------------------------------
(***************************************************************************)
(* A fan-out.                                                              *)
(***************************************************************************)
\* The elements of a sequence are its first and those of the rest.
LEMMA HeadAndTail ==
    ASSUME NEW S, NEW s \in Seq(S), s # <<>>
    PROVE  /\ Tail(s) \in Seq(S) /\ Head(s) \in S
           /\ Range(s) = {Head(s)} \cup Range(Tail(s))
  <1>1. Tail(s) \in Seq(S) /\ Head(s) \in S /\ Len(s) \in Nat /\ Len(s) > 0
        /\ Head(s) = s[1] /\ Len(Tail(s)) = Len(s) - 1 /\ DOMAIN s = 1 .. Len(s)
        /\ DOMAIN Tail(s) = 1 .. Len(s) - 1
        /\ \A i \in 1 .. Len(s) - 1 : Tail(s)[i] = s[i + 1]
    OBVIOUS
  <1>2. \A x \in Range(s) : x \in {Head(s)} \cup Range(Tail(s))
    <2> SUFFICES ASSUME NEW j \in 1 .. Len(s), j # 1 PROVE s[j] \in Range(Tail(s))
      BY <1>1 DEF Range
    <2>1. j - 1 \in 1 .. Len(s) - 1 /\ Tail(s)[j - 1] = s[j]
      BY <1>1
    <2> QED
      BY <1>1, <2>1 DEF Range
  <1>3. \A x \in {Head(s)} \cup Range(Tail(s)) : x \in Range(s)
    BY <1>1 DEF Range
  <1> QED
    BY <1>1, <1>2, <1>3

\* The turns of a loop over n endpoints from any start reach each of them.
LEMMA TurnsReachAll ==
    ASSUME NEW n \in Nat \ {0}, NEW start \in 0 .. n - 1, NEW j \in 1 .. n
    PROVE  \E i \in 0 .. n - 1 : ((start + i) % n) + 1 = j
  <1>1. \A i \in 0 .. n - 1 : (start + i) % n = IF start + i < n THEN start + i ELSE start + i - n
    OBVIOUS
  <1>2. CASE start <= j - 1
    <2> DEFINE i == j - 1 - start
    <2>1. i \in 0 .. n - 1 /\ start + i = j - 1
      BY <1>2
    <2>2. (start + i) % n = start + i
      BY <1>1, <2>1
    <2> QED
      BY <2>1, <2>2
  <1>3. CASE start > j - 1
    <2> DEFINE i == j - 1 - start + n
    <2>1. i \in 0 .. n - 1 /\ start + i = j - 1 + n
      BY <1>3
    <2>2. (start + i) % n = start + i - n
      BY <1>1, <2>1
    <2>3. ((start + i) % n) + 1 = j
      BY <2>1, <2>2
    <2> HIDE DEF i
    <2> QED
      BY <2>1, <2>3
  <1> QED
    BY <1>2, <1>3

\* At its turn is one of the chain's endpoints.
LEMMA TurnType ==
    ASSUME NEW q, Fanning(q), Looping(q), q.offset < Len(Upstreams[Head(q.todo)])
    PROVE  Turn(q) \in Range(Upstreams[Head(q.todo)]) /\ Turn(q) \in Endpoints
  <1> DEFINE k == Head(q.todo)
             n == Len(Upstreams[k])
  <1>1. k \in Keys /\ Upstreams[k] \in Seq(Range(Upstreams[k])) /\ Upstreams[k] # <<>>
    BY ChainsAssumption DEF Looping
  <1>2. n \in Nat \ {0} /\ DOMAIN Upstreams[k] = 1 .. n
    BY <1>1
  <1>3. q.start + q.offset \in Nat
    BY DEF Fanning, FanShape
  <1>4. ((q.start + q.offset) % n) + 1 \in 1 .. n
    <2> HIDE DEF n
    <2> QED
      BY <1>2, <1>3
  <1>5. Turn(q) \in Range(Upstreams[k])
    BY <1>2, <1>4 DEF Turn, Range
  <1> QED
    BY <1>1, <1>5 DEF Endpoints

\* A turn that is passed over, or asked in vain, is ruled out.
LEMMA OnwardKeeps ==
    ASSUME NEW q, Fanning(q), Looping(q), q.offset < Len(Upstreams[Head(q.todo)]),
           NEW pc \in {"scan", "nap"}
    PROVE  Fanning(Onward(q, pc))
  <1> DEFINE r == Onward(q, pc)
  <1>1. q \in [pc : {"chain", "scan", "await", "nap", "done"}, list : {q.list},
               todo : Seq(Targets(q.list)), start : Nat, offset : Nat,
               ruledOut : SUBSET Endpoints, report : {q.report}]
    BY DEF Fanning, FanShape
  <1>2. Turn(q) \in Endpoints
    BY TurnType
  <1>3. /\ r.pc = pc /\ r.list = q.list /\ r.todo = q.todo /\ r.start = q.start
        /\ r.offset = q.offset + 1 /\ r.ruledOut = q.ruledOut \cup {Turn(q)} /\ r.report = q.report
        /\ FanShape(r)
    <2> DEFINE ruled == q.ruledOut \cup {Turn(q)}
               further == q.offset + 1
    <2>1. r = [q EXCEPT !.pc = pc, !.offset = further, !.ruledOut = ruled]
      BY DEF Onward
    <2>2. ruled \in SUBSET Endpoints /\ further \in Nat
      BY <1>1, <1>2
    <2> HIDE DEF r, ruled, further
    <2>3. /\ r.pc = pc /\ r.list = q.list /\ r.todo = q.todo /\ r.start = q.start
          /\ r.offset = further /\ r.ruledOut = ruled /\ r.report = q.report
      BY <1>1, <2>1
    <2>4. r \in [pc : {"chain", "scan", "await", "nap", "done"}, list : {q.list},
                 todo : Seq(Targets(q.list)), start : Nat, offset : Nat,
                 ruledOut : SUBSET Endpoints, report : {q.report}]
      BY <1>1, <2>1, <2>2
    <2> QED
      BY <2>3, <2>4 DEF FanShape, ruled, further
  <1>4. Looping(r)
    <2> DEFINE u == Upstreams[Head(q.todo)]
    <2>1. \A i \in 0 .. r.offset - 1 : i \in 0 .. q.offset - 1 \/ i = q.offset
      BY <1>1, <1>3
    <2>2. \A i \in 0 .. r.offset - 1 : u[((q.start + i) % Len(u)) + 1] \in r.ruledOut
      BY <1>3, <2>1 DEF Looping, Turn
    <2>3. q.offset + 1 <= Len(u)
      <3>1. Len(u) \in Nat
        BY ChainsAssumption DEF Looping
      <3> QED
        BY <1>1, <3>1
    <2> QED
      BY <1>3, <2>2, <2>3 DEF Looping
  <1>5. \A k : Justified(q, k) => Justified(r, k)
    BY <1>3 DEF Justified
  <1> HIDE DEF r
  <1>6. Fanning(r)
    BY <1>3, <1>4, <1>5 DEF Fanning
  <1> QED
    BY <1>6 DEF r

\* A chain gets its entry in the report.
LEMMA ReportedKeeps ==
    ASSUME NEW q, Fanning(q), q.todo # <<>>, NEW outcome \in Outcomes,
           LET k == Head(q.todo)
           IN  /\ k \notin Keys => outcome = "unconfigured"
               /\ outcome = "failed" => Upstreams[k] # <<>> /\ Range(Upstreams[k]) \subseteq q.ruledOut
    PROVE  Fanning(Reported(q, outcome))
  <1> DEFINE k == Head(q.todo)
             report == [l \in DOMAIN q.report \cup {k} |-> IF l = k THEN outcome ELSE q.report[l]]
             rest == Tail(q.todo)
             r == Reported(q, outcome)
  <1>1. q \in [pc : {"chain", "scan", "await", "nap", "done"}, list : {q.list},
               todo : Seq(Targets(q.list)), start : Nat, offset : Nat,
               ruledOut : SUBSET Endpoints, report : {q.report}]
    BY DEF Fanning, FanShape
  <1>2. /\ rest \in Seq(Targets(q.list)) /\ k \in Targets(q.list)
        /\ Range(q.todo) = {k} \cup Range(rest)
    BY <1>1, HeadAndTail
  <1>3. /\ DOMAIN report = {k} \cup DOMAIN q.report
        /\ report[k] = outcome
        /\ \A l \in DOMAIN q.report : l # k => report[l] = q.report[l]
    OBVIOUS
  <1>4. r = [q EXCEPT !.pc = "chain", !.todo = rest, !.report = report]
    BY DEF Reported
  <1> HIDE DEF r, report, rest
  <1>5. /\ r.pc = "chain" /\ r.list = q.list /\ r.todo = rest
        /\ r.ruledOut = q.ruledOut /\ r.report = report
    BY <1>1, <1>4
  <1>6. r \in [pc : {"chain", "scan", "await", "nap", "done"}, list : {q.list},
               todo : Seq(Targets(q.list)), start : Nat, offset : Nat,
               ruledOut : SUBSET Endpoints, report : {report}]
    BY <1>1, <1>2, <1>4
  <1>7. DOMAIN r.report \cup Range(r.todo) = Targets(r.list)
    BY <1>2, <1>3, <1>5 DEF Fanning
  <1>8. Range(r.report) \subseteq Outcomes
    BY <1>3, <1>5 DEF Fanning, Range
  <1>9. ASSUME NEW l \in DOMAIN r.report \ Range(r.todo) PROVE Justified(r, l)
    <2>1. CASE l = k
      BY <1>3, <1>5, <2>1 DEF Justified
    <2>2. CASE l # k
      <3>1. l \in DOMAIN q.report \ Range(q.todo) /\ r.report[l] = q.report[l]
        BY <1>2, <1>3, <1>5, <1>9, <2>2
      <3>2. Justified(q, l)
        BY <3>1 DEF Fanning
      <3> QED
        BY <3>1, <3>2, <1>5 DEF Justified
    <2> QED
      BY <2>1, <2>2
  <1>10. Fanning(r)
    BY <1>5, <1>6, <1>7, <1>8, <1>9 DEF Fanning, FanShape
  <1> QED
    BY <1>10 DEF r

\* The loop over a chain's endpoints starts with nothing ruled out among them.
LEMMA StartKeeps ==
    ASSUME NEW q, Fanning(q), q.todo # <<>>, Head(q.todo) \in Keys,
           Upstreams[Head(q.todo)] # <<>>, NEW start \in 0 .. Len(Upstreams[Head(q.todo)]) - 1
    PROVE  Fanning([q EXCEPT !.pc = "scan", !.start = start, !.offset = 0,
                             !.ruledOut = @ \ Range(Upstreams[Head(q.todo)])])
  <1> DEFINE k == Head(q.todo)
             left == q.ruledOut \ Range(Upstreams[k])
             r == [q EXCEPT !.pc = "scan", !.start = start, !.offset = 0, !.ruledOut = left]
  <1>1. q \in [pc : {"chain", "scan", "await", "nap", "done"}, list : {q.list},
               todo : Seq(Targets(q.list)), start : Nat, offset : Nat,
               ruledOut : SUBSET Endpoints, report : {q.report}]
    BY DEF Fanning, FanShape
  <1>2. left \in SUBSET Endpoints /\ Len(Upstreams[k]) \in Nat \ {0} /\ start \in Nat
    BY <1>1, ChainsAssumption
  <1> HIDE DEF left
  <1>3. /\ r.pc = "scan" /\ r.list = q.list /\ r.todo = q.todo /\ r.start = start
        /\ r.offset = 0 /\ r.ruledOut = left /\ r.report = q.report
    BY <1>1
  <1>4. r \in [pc : {"chain", "scan", "await", "nap", "done"}, list : {q.list},
               todo : Seq(Targets(q.list)), start : Nat, offset : Nat,
               ruledOut : SUBSET Endpoints, report : {q.report}]
    BY <1>1, <1>2
  <1> HIDE DEF r
  <1>5. Looping(r)
    BY <1>2, <1>3 DEF Looping
  <1>6. ASSUME NEW l \in DOMAIN q.report \ Range(q.todo) PROVE Justified(r, l)
    <2>1. Justified(q, l) /\ l # k
      BY <1>1, HeadAndTail, <1>6 DEF Fanning
    <2>2. l \in Keys => Range(Upstreams[l]) \cap Range(Upstreams[k]) = {}
      BY <2>1, ChainsAssumption
    <2>3. l \in Keys /\ Range(Upstreams[l]) \subseteq q.ruledOut => Range(Upstreams[l]) \subseteq left
      BY <2>2 DEF left
    <2> QED
      BY <2>1, <2>3, <1>3 DEF Justified
  <1>7. Fanning(r)
    BY <1>3, <1>4, <1>5, <1>6 DEF Fanning, FanShape
  <1> QED
    BY <1>7 DEF r, left

\* A loop goes on in another place, ...
LEMMA PlaceKeeps ==
    ASSUME NEW q, Fanning(q), Looping(q), NEW pc \in {"scan", "await"},
           pc = "await" => q.offset < Len(Upstreams[Head(q.todo)])
    PROVE  Fanning([q EXCEPT !.pc = pc])
  <1> DEFINE r == [q EXCEPT !.pc = pc]
  <1>1. q \in [pc : {"chain", "scan", "await", "nap", "done"}, list : {q.list},
               todo : Seq(Targets(q.list)), start : Nat, offset : Nat,
               ruledOut : SUBSET Endpoints, report : {q.report}]
    BY DEF Fanning, FanShape
  <1>2. /\ r.pc = pc /\ r.list = q.list /\ r.todo = q.todo /\ r.start = q.start
        /\ r.offset = q.offset /\ r.ruledOut = q.ruledOut /\ r.report = q.report
    BY <1>1
  <1>3. r \in [pc : {"chain", "scan", "await", "nap", "done"}, list : {q.list},
               todo : Seq(Targets(q.list)), start : Nat, offset : Nat,
               ruledOut : SUBSET Endpoints, report : {q.report}]
    BY <1>1
  <1> HIDE DEF r
  <1>4. Looping(r)
    BY <1>2 DEF Looping
  <1>5. \A k : Justified(q, k) => Justified(r, k)
    BY <1>2 DEF Justified
  <1>6. Fanning(r)
    BY <1>2, <1>3, <1>4, <1>5 DEF Fanning, FanShape
  <1> QED
    BY <1>6 DEF r

\* ... and a fan-out is done when no chain is left.
LEMMA DoneKeeps ==
    ASSUME NEW q, Fanning(q), q.todo = <<>>
    PROVE  Fanning([q EXCEPT !.pc = "done"])
  <1> DEFINE r == [q EXCEPT !.pc = "done"]
  <1>1. q \in [pc : {"chain", "scan", "await", "nap", "done"}, list : {q.list},
               todo : Seq(Targets(q.list)), start : Nat, offset : Nat,
               ruledOut : SUBSET Endpoints, report : {q.report}]
    BY DEF Fanning, FanShape
  <1>2. /\ r.pc = "done" /\ r.list = q.list /\ r.todo = q.todo
        /\ r.ruledOut = q.ruledOut /\ r.report = q.report
    BY <1>1
  <1>3. r \in [pc : {"chain", "scan", "await", "nap", "done"}, list : {q.list},
               todo : Seq(Targets(q.list)), start : Nat, offset : Nat,
               ruledOut : SUBSET Endpoints, report : {q.report}]
    BY <1>1
  <1> HIDE DEF r
  <1>4. \A k : Justified(q, k) => Justified(r, k)
    BY <1>2 DEF Justified
  <1>5. Fanning(r)
    BY <1>2, <1>3, <1>4 DEF Fanning, FanShape
  <1> QED
    BY <1>5 DEF r

\* Where the loop over a chain's endpoints has ended, it has ruled out each of them.
LEMMA EndOfLoop ==
    ASSUME NEW q, Fanning(q), Looping(q), q.offset = Len(Upstreams[Head(q.todo)])
    PROVE  Range(Upstreams[Head(q.todo)]) \subseteq q.ruledOut
  <1> DEFINE u == Upstreams[Head(q.todo)]
             n == Len(u)
  <1>1. Head(q.todo) \in Keys /\ u \in Seq(Range(u)) /\ u # <<>>
    BY ChainsAssumption DEF Looping
  <1>2. n \in Nat \ {0} /\ DOMAIN u = 1 .. n /\ q.start \in 0 .. n - 1
    BY <1>1 DEF Looping, Fanning, FanShape
  <1> SUFFICES ASSUME NEW j \in 1 .. n PROVE u[j] \in q.ruledOut
    BY <1>2 DEF Range
  <1>3. PICK i \in 0 .. n - 1 : ((q.start + i) % n) + 1 = j
    <2> HIDE DEF n
    <2> QED
      BY <1>2, TurnsReachAll
  <1>4. u[((q.start + i) % n) + 1] \in q.ruledOut
    BY DEF Looping
  <1> QED
    BY <1>3, <1>4

\* A new fan-out has everything to do.
LEMMA NewCallIsFanning ==
    ASSUME NEW list, list \in Seq(Range(list)), NEW todo \in Itineraries(list)
    PROVE  Fanning(NewCall(list, todo))
  <1> DEFINE q == NewCall(list, todo)
  <1>1. todo \in Seq(Targets(list)) /\ Range(todo) = Targets(list)
    <2>1. CASE list = <<>>
      <3>1. Cardinality(EvmKeys) \in Nat
        BY ChainsAssumption, FS_CardinalityType
      <3> QED
        BY <2>1, <3>1 DEF Itineraries, Targets
    <2>2. CASE list # <<>>
      BY <2>2 DEF Itineraries, Targets
    <2> QED
      BY <2>1, <2>2
  <1>2. /\ q.pc = "chain" /\ q.list = list /\ q.todo = todo /\ q.start = 0 /\ q.offset = 0
        /\ q.ruledOut = {} /\ q.report = <<>> /\ FanShape(q)
    BY <1>1 DEF NewCall, FanShape
  <1>3. DOMAIN q.report = {}
    BY <1>2
  <1> QED
    BY <1>1, <1>2, <1>3 DEF Fanning, Range

-----------------------------------------------------------------------------
(***************************************************************************)
(* What requests share.                                                    *)
(***************************************************************************)
SharedInv ==
    /\ now \in 0 .. MaxTime
    /\ current = [k \in Keys |-> current[k]]
    /\ \A k \in Keys : current[k] \in 0 .. (IF Upstreams[k] = <<>> THEN 0 ELSE Len(Upstreams[k]) - 1)
    /\ health \in [Endpoints -> Health]
    /\ stored \in [Endpoints -> Instant]

\* An index that is rotated stays an index.
LEMMA RotateKeeps ==
    ASSUME SharedInv, NEW k \in Keys, Upstreams[k] # <<>>, Rotate(k), UNCHANGED <<now, health, stored>>
    PROVE  SharedInv'
  <1> DEFINE n == Len(Upstreams[k])
             next == (current[k] + 1) % n
  <1>1. n \in Nat \ {0} /\ current[k] \in Nat
    BY ChainsAssumption DEF SharedInv
  <1>2. next \in 0 .. n - 1
    <2> HIDE DEF n
    <2> QED
      BY <1>1
  <1>3. current' = [current EXCEPT ![k] = next]
    BY DEF Rotate
  <1> HIDE DEF next, n
  <1>4. current' = [l \in Keys |-> IF l = k THEN next ELSE current[l]]
    BY <1>3 DEF SharedInv
  <1> QED
    BY <1>2, <1>4 DEF SharedInv, n

\* The operations on an endpoint's record give records.
LEMMA HealthOperations ==
    ASSUME NEW h \in Health, NEW time \in Nat
    PROVE  /\ MarkHardFailure(h, time) \in Health
           /\ MarkRateLimited(h, time) \in Health
           /\ ClearFailures(h) \in Health
           /\ Refresh(h, time) \in Health
           /\ FreshHealth \in Health
           /\ time + HardFailureCooldown \in Instant /\ NoInstant \in Instant
  <1>1. h.failures \in Nat /\ h.until \in Instant
    BY DEF Health
  <1>2. time + HardFailureCooldown \in Instant /\ time + RateLimitCooldown \in Instant
    BY HealthAssumption DEF Instant
  <1>3. h.failures + 1 \in Nat
    BY <1>1
  <1>4. MarkHardFailure(h, time) \in Health
    BY <1>1, <1>2, <1>3 DEF MarkHardFailure, Health
  <1>5. NoInstant \in Instant /\ FreshHealth \in Health
    BY DEF FreshHealth, Health, Instant, NoInstant
  <1>6. MarkRateLimited(h, time) \in Health
    BY <1>2 DEF MarkRateLimited, Health
  <1>7. ClearFailures(h) \in Health
    BY DEF ClearFailures, Health
  <1> QED
    BY <1>2, <1>4, <1>5, <1>6, <1>7 DEF Refresh

\* Nor does any reply spoil a record, or a call the record that it refreshes.
LEMMA HealthKeeps ==
    ASSUME SharedInv, NEW e \in Endpoints, UNCHANGED <<now, current>>,
           \/ HardFailure(e) \/ RateLimits(e) \/ Reset(e) \/ Answers(e) \/ AnswersRateLimited(e)
           \/ UNCHANGED <<health, stored>>
           \/ health' = [health EXCEPT ![e] = Refresh(@, now)] /\ UNCHANGED stored
    PROVE  SharedInv'
  <1>1. now \in Nat /\ health[e] \in Health
    BY ChainsAssumption DEF SharedInv
  <1>2. /\ MarkHardFailure(health[e], now) \in Health
        /\ MarkRateLimited(health[e], now) \in Health
        /\ MarkRateLimited(ClearFailures(health[e]), now) \in Health
        /\ ClearFailures(health[e]) \in Health
        /\ FreshHealth \in Health
        /\ Refresh(health[e], now) \in Health
        /\ now + HardFailureCooldown \in Instant /\ NoInstant \in Instant
    BY <1>1, HealthOperations
  <1>3. health' \in [Endpoints -> Health]
    BY <1>2 DEF SharedInv, HardFailure, RateLimits, Reset, Answers, AnswersRateLimited
  <1>4. stored' \in [Endpoints -> Instant]
    BY <1>2 DEF SharedInv, HardFailure, RateLimits, Reset, Answers, AnswersRateLimited
  <1> QED
    BY <1>3, <1>4 DEF SharedInv

-----------------------------------------------------------------------------
(***************************************************************************)
(* The whole.                                                              *)
(***************************************************************************)
GatewayInv ==
    /\ SharedInv
    /\ call = [c \in Clients |-> call[c]]
    /\ \A c \in Clients : Sound(call[c])

\* A step of one client's request, to something sound.
LEMMA OneCallSteps ==
    ASSUME GatewayInv, NEW c \in Clients, NEW q, Sound(q), call' = [call EXCEPT ![c] = q]
    PROVE  call' = [d \in Clients |-> call'[d]] /\ \A d \in Clients : Sound(call'[d])
  <1>1. call' = [d \in Clients |-> IF d = c THEN q ELSE call[d]]
    BY DEF GatewayInv
  <1> QED
    BY <1>1 DEF GatewayInv

LEMMA GatewayInitially == ChainsInit => GatewayInv
  <1> SUFFICES ASSUME ChainsInit PROVE GatewayInv
    OBVIOUS
  <1>1. FreshHealth \in Health /\ NoInstant \in Instant
    BY DEF FreshHealth, Health, Instant, NoInstant
  <1>2. \A k \in Keys : 0 \in 0 .. (IF Upstreams[k] = <<>> THEN 0 ELSE Len(Upstreams[k]) - 1)
    <2> SUFFICES ASSUME NEW k \in Keys, Upstreams[k] # <<>> PROVE Len(Upstreams[k]) - 1 \in Nat
      OBVIOUS
    <2> QED
      BY ChainsAssumption
  <1>3. SharedInv
    BY <1>1, <1>2, ChainsAssumption DEF ChainsInit, SharedInv
  <1> QED
    BY <1>3 DEF ChainsInit, GatewayInv, Sound

\* A request arrives.
LEMMA ArriveKeeps ==
    ASSUME GatewayInv, NEW c \in Clients, Arrive(c) PROVE GatewayInv'
  <1>1. PICK visit \in Visits[c] : \/ Refuse(c, visit) \/ FanOut(c, visit)
                                   \/ NoEndpoints(c, visit) \/ Forward(c, visit)
    BY DEF Arrive
  <1>2. IsRequest(visit.request) /\ visit.list \in Seq(Range(visit.list))
    BY GatewayAssumption
  <1>3. \A answer : Sound(Answered(answer))
    BY DEF Sound, HandedOn, Answered
  <1>4. CASE Refuse(c, visit) \/ NoEndpoints(c, visit)
    <2>1. PICK answer : call' = [call EXCEPT ![c] = Answered(answer)]
      BY <1>4 DEF Refuse, NoEndpoints
    <2>2. UNCHANGED shared
      BY <1>4 DEF Refuse, NoEndpoints
    <2> QED
      BY <1>3, <2>1, <2>2, OneCallSteps DEF GatewayInv, SharedInv, shared
  <1>5. CASE FanOut(c, visit)
    <2>1. PICK todo \in Itineraries(visit.list) :
             call' = [call EXCEPT ![c] = NewCall(visit.list, todo)]
      BY <1>5 DEF FanOut, AskChains
    <2>2. Sound(NewCall(visit.list, todo))
      BY <1>2, NewCallIsFanning DEF Sound
    <2>3. UNCHANGED shared
      BY <1>5 DEF FanOut, AskChains
    <2> QED
      BY <2>1, <2>2, <2>3, OneCallSteps DEF GatewayInv, SharedInv, shared
  <1>6. CASE Forward(c, visit)
    <2> DEFINE q == [pc |-> "forward", key |-> visit.path, request |-> visit.request,
                     answered |-> {}, kept |-> NoBody, target |-> Nobody]
    <2>1. visit.path \in Keys
      BY <1>6 DEF Forward, Check
    <2>2. Sound(q)
      BY <1>2, <1>6, <2>1 DEF Sound, Forwarding, Forward
    <2>3. SharedInv'
      BY <1>6, <2>1, RotateKeeps DEF Forward, GatewayInv
    <2> QED
      BY <1>6, <2>2, <2>3, OneCallSteps DEF Forward, GatewayInv
  <1> QED
    BY <1>1, <1>4, <1>5, <1>6

\* A fan-out takes a step.
LEMMA FanOutKeeps ==
    ASSUME GatewayInv, NEW c \in Clients, ServeChains(c) PROVE GatewayInv'
  <1> DEFINE q == call[c]
  <1>1. Sound(q) /\ SharedInv
    BY DEF GatewayInv
  <1>2. ASSUME NEW r, Fanning(r), call' = [call EXCEPT ![c] = r], SharedInv' PROVE GatewayInv'
    BY <1>2, OneCallSteps DEF GatewayInv, Sound
  <1>3. ASSUME UNCHANGED shared PROVE SharedInv'
    BY <1>1, <1>3 DEF shared, SharedInv
  <1>4. q.pc \in {"chain", "scan", "await", "nap"} => Fanning(q)
    BY <1>1, ShapeOf
  <1>5. q.pc \in {"scan", "await", "nap"} => Looping(q)
    BY <1>4 DEF Fanning
  <1>6. q.pc = "await" => /\ q.offset < Len(Upstreams[Head(q.todo)]) /\ q.todo # <<>>
                          /\ Head(q.todo) \in Keys /\ Turn(q) \in Endpoints
    BY <1>4, <1>5, TurnType DEF Looping
  <1>7. CASE NotConfigured(c)
    <2>1. Fanning(q) /\ q.todo # <<>> /\ Head(q.todo) \notin Keys
      BY <1>4, <1>7 DEF NotConfigured, AtChain, Key
    <2>2. Fanning(Reported(q, "unconfigured"))
      BY <2>1, ReportedKeeps DEF Outcomes
    <2> QED
      BY <1>2, <1>3, <1>7, <2>2 DEF NotConfigured, Report
  <1>8. CASE WithoutEndpoints(c)
    <2>1. Fanning(q) /\ q.todo # <<>> /\ Head(q.todo) \in Keys
      BY <1>4, <1>8 DEF WithoutEndpoints, AtChain, Key
    <2>2. Fanning(Reported(q, "noEndpoints"))
      BY <2>1, ReportedKeeps DEF Outcomes
    <2> QED
      BY <1>2, <1>3, <1>8, <2>2 DEF WithoutEndpoints, Report
  <1>9. CASE StartChain(c)
    <2> DEFINE r == [q EXCEPT !.pc = "scan", !.start = current[Key(c)], !.offset = 0,
                              !.ruledOut = @ \ Range(Upstreams[Key(c)])]
    <2>1. /\ Fanning(q) /\ q.todo # <<>> /\ Head(q.todo) \in Keys /\ Upstreams[Head(q.todo)] # <<>>
          /\ Key(c) = Head(q.todo)
      BY <1>4, <1>9 DEF StartChain, AtChain, Key
    <2>2. current[Key(c)] \in 0 .. Len(Upstreams[Head(q.todo)]) - 1
      BY <1>1, <2>1 DEF SharedInv
    <2>3. Fanning(r)
      BY <2>1, <2>2, StartKeeps
    <2>4. call' = [call EXCEPT ![c] = r]
      BY <1>9 DEF StartChain
    <2>5. SharedInv'
      BY <1>1, <1>9, <2>1, RotateKeeps DEF StartChain
    <2> QED
      BY <1>2, <2>3, <2>4, <2>5
  <1>10. CASE AnswerChains(c)
    <2>1. Fanning([q EXCEPT !.pc = "done"])
      BY <1>4, <1>10, DoneKeeps DEF AnswerChains
    <2> QED
      BY <1>2, <1>3, <1>10, <2>1 DEF AnswerChains
  <1>11. CASE PassOver(c)
    <2>1. q.pc = "scan" /\ q.offset < Len(Upstreams[Head(q.todo)])
      BY <1>11 DEF PassOver, Scanning, Key
    <2>2. Fanning(Onward(q, "scan"))
      BY <1>4, <1>5, <2>1, OnwardKeeps
    <2> QED
      BY <1>2, <1>3, <1>11, <2>2 DEF PassOver
  <1>12. CASE AskCode(c)
    <2>1. q.pc = "scan" /\ q.offset < Len(Upstreams[Head(q.todo)])
      BY <1>12 DEF AskCode, Scanning, Key
    <2>2. Fanning([q EXCEPT !.pc = "await"]) /\ Turn(q) \in Endpoints
      BY <1>4, <1>5, <2>1, PlaceKeeps, TurnType
    <2>3. SharedInv'
      BY <1>1, <1>12, <2>2, HealthKeeps DEF AskCode
    <2> QED
      BY <1>2, <1>12, <2>2, <2>3 DEF AskCode
  <1>13. CASE CodeReply(c)
    <2>1. PICK outcome \in {"code", "empty"} : Goes(c, Reported(q, outcome))
      BY <1>13 DEF CodeReply
    <2>2. q.pc = "await"
      BY <1>13 DEF CodeReply
    <2>3. Fanning(Reported(q, outcome))
      BY <1>4, <1>6, <2>2, ReportedKeeps DEF Outcomes
    <2>4. SharedInv'
      BY <1>1, <1>6, <1>13, <2>1, <2>2, HealthKeeps DEF CodeReply, Goes
    <2> QED
      BY <1>2, <2>1, <2>3, <2>4 DEF Goes
  <1>14. CASE ErrorReply(c)
    <2>1. q.pc = "await"
      BY <1>14 DEF ErrorReply
    <2>2. Fanning(Reported(q, "error"))
      BY <1>4, <1>6, <2>1, ReportedKeeps DEF Outcomes
    <2> QED
      BY <1>2, <1>3, <1>14, <2>2 DEF ErrorReply, Goes, shared
  <1>15. CASE UnusableReply(c) \/ TooManyRequests(c) \/ FailedReply(c)
    <2>1. PICK pc \in {"scan", "nap"} : Goes(c, Onward(q, pc))
      BY <1>15 DEF UnusableReply, TooManyRequests, FailedReply
    <2>2. q.pc = "await"
      BY <1>15 DEF UnusableReply, TooManyRequests, FailedReply
    <2>3. Fanning(Onward(q, pc))
      BY <1>4, <1>5, <1>6, <2>2, OnwardKeeps
    <2>4. SharedInv'
      BY <1>1, <1>6, <1>15, <2>1, <2>2, HealthKeeps
         DEF UnusableReply, TooManyRequests, FailedReply, Goes
    <2> QED
      BY <1>2, <2>1, <2>3, <2>4 DEF Goes
  <1>16. CASE Wake(c)
    <2>1. Fanning([q EXCEPT !.pc = "scan"])
      BY <1>4, <1>5, <1>16, PlaceKeeps DEF Wake
    <2> QED
      BY <1>2, <1>3, <1>16, <2>1 DEF Wake, Goes, shared
  <1>17. CASE AllFailed(c)
    <2>1. /\ Fanning(q) /\ Looping(q) /\ q.offset = Len(Upstreams[Head(q.todo)])
      BY <1>4, <1>5, <1>17 DEF AllFailed, Key
    <2>2. Fanning(Reported(q, "failed"))
      BY <2>1, EndOfLoop, ReportedKeeps DEF Outcomes, Looping
    <2> QED
      BY <1>2, <1>3, <1>17, <2>2 DEF AllFailed, Report
  <1> QED
    BY <1>7, <1>8, <1>9, <1>10, <1>11, <1>12, <1>13, <1>14, <1>15, <1>16, <1>17 DEF ServeChains

-----------------------------------------------------------------------------
(***************************************************************************)
(* A forwarded request.                                                    *)
(***************************************************************************)
\* What becomes of a reply keeps the request in shape.
LEMMA AfterKeeps ==
    ASSUME NEW q, Forwarding(q), NEW body, IsBody(body), NEW status
    PROVE  Sound(After(q, Decision(q.request, status, body), body))
  <1> DEFINE decision == Decision(q.request, status, body)
  <1>1. q \in [pc : {"forward"}, key : Keys, request : {q.request},
               answered : {q.answered}, kept : {q.kept}, target : Endpoints \cup {Nobody}]
    BY DEF Forwarding
  <1>2. /\ decision = "return" => SubmitsTransaction(q.request) \/ ~WorthRetrying(q.request, body)
        /\ decision = "keep" => WorthRetrying(q.request, body)
    BY DecisionsAreWhole DEF Forwarding
  <1> HIDE DEF decision
  <1>3. CASE decision = "return"
    <2> DEFINE r == HandOn(q, "returned", body)
    <2>1. After(q, decision, body) = r
      BY <1>3 DEF After
    <2>2. HandedOn(r)
      BY <1>2, <1>3 DEF HandOn, HandedOn, Judged
    <2> QED
      BY <2>1, <2>2 DEF Sound, decision
  <1>4. CASE decision = "keep"
    <2> DEFINE more == q.answered \cup {q.target}
               r == [q EXCEPT !.target = Nobody, !.kept = body, !.answered = more]
    <2>1. After(q, decision, body) = r
      BY <1>4 DEF After
    <2> HIDE DEF more
    <2>2. /\ r \in [pc : {"forward"}, key : Keys, request : {q.request},
                    answered : {more}, kept : {body}, target : Endpoints \cup {Nobody}]
      BY <1>1
    <2>3. r.request = q.request /\ r.key = q.key /\ r.kept = body /\ r.answered = more
      BY <1>1
    <2> HIDE DEF r
    <2>4. Forwarding(r)
      BY <1>2, <1>4, <2>2, <2>3 DEF Forwarding
    <2> QED
      BY <2>1, <2>4 DEF Sound, decision
  <1>5. CASE decision \notin {"return", "keep"}
    <2> DEFINE r == [q EXCEPT !.target = Nobody]
    <2>1. After(q, decision, body) = r
      BY <1>5 DEF After
    <2>2. /\ r \in [pc : {"forward"}, key : Keys, request : {q.request},
                    answered : {q.answered}, kept : {q.kept}, target : Endpoints \cup {Nobody}]
          /\ r.request = q.request /\ r.key = q.key /\ r.kept = q.kept /\ r.answered = q.answered
      BY <1>1
    <2> HIDE DEF r
    <2>3. Forwarding(r)
      BY <2>2 DEF Forwarding
    <2> QED
      BY <2>1, <2>3 DEF Sound, decision
  <1> QED
    BY <1>3, <1>4, <1>5

\* Another endpoint, or none, is asked.
LEMMA TargetKeeps ==
    ASSUME NEW q, Forwarding(q), NEW e \in Endpoints \cup {Nobody}
    PROVE  Sound([q EXCEPT !.target = e])
  <1> DEFINE r == [q EXCEPT !.target = e]
  <1>1. q \in [pc : {"forward"}, key : Keys, request : {q.request},
               answered : {q.answered}, kept : {q.kept}, target : Endpoints \cup {Nobody}]
    BY DEF Forwarding
  <1>2. /\ r \in [pc : {"forward"}, key : Keys, request : {q.request},
                  answered : {q.answered}, kept : {q.kept}, target : Endpoints \cup {Nobody}]
        /\ r.request = q.request /\ r.key = q.key /\ r.kept = q.kept /\ r.answered = q.answered
    BY <1>1
  <1> HIDE DEF r
  <1>3. Forwarding(r)
    BY <1>2 DEF Forwarding
  <1> QED
    BY <1>3 DEF Sound, r

\* A forwarded request takes a step.
LEMMA ForwardKeeps ==
    ASSUME GatewayInv, NEW c \in Clients, ServeForward(c) PROVE GatewayInv'
  <1> DEFINE q == call[c]
  <1>1. Sound(q) /\ SharedInv
    BY DEF GatewayInv
  <1>2. ASSUME NEW r, Sound(r), call' = [call EXCEPT ![c] = r], SharedInv' PROVE GatewayInv'
    BY <1>2, OneCallSteps DEF GatewayInv
  <1>3. q.pc = "forward" => Forwarding(q)
    BY <1>1, ShapeOf
  <1>4. q.pc = "forward" => q.target \in Endpoints \cup {Nobody} /\ q.key \in Keys
    BY <1>3 DEF Forwarding
  <1>5. ASSUME NEW e \in Endpoints, Send(c, e) PROVE GatewayInv'
    <2>1. Sound([q EXCEPT !.target = e])
      BY <1>3, <1>5, TargetKeeps DEF Send
    <2>2. SharedInv'
      BY <1>1, <1>5, HealthKeeps DEF Send
    <2> QED
      BY <1>2, <1>5, <2>1, <2>2 DEF Send
  <1>6. CASE NoReply(c)
    <2>1. Sound([q EXCEPT !.target = Nobody])
      BY <1>3, <1>6, TargetKeeps DEF NoReply
    <2>2. SharedInv'
      BY <1>1, <1>4, <1>6, HealthKeeps DEF NoReply, Goes
    <2> QED
      BY <1>2, <1>6, <2>1, <2>2 DEF NoReply, Goes
  <1>7. ASSUME NEW status \in Statuses, NEW body \in Bodies, Replied(c, status, body)
        PROVE  GatewayInv'
    <2>1. IsBody(body) /\ Forwarding(q) /\ q.target \in Endpoints
      BY <1>3, <1>4, <1>7, GatewayAssumption DEF Replied
    <2>2. Sound(After(q, Decision(q.request, status, body), body))
      BY <2>1, AfterKeeps
    <2>3. UNCHANGED <<now, current>>
      BY <1>7 DEF Replied, Goes
    <2>4. SharedInv'
      <3>1. Marks(q.request, status, body, q.target)
        BY <1>7 DEF Replied
      <3>2. \/ HardFailure(q.target) \/ RateLimits(q.target) \/ Reset(q.target)
            \/ Answers(q.target) \/ AnswersRateLimited(q.target) \/ UNCHANGED <<health, stored>>
        BY <3>1, Zenon DEF Marks
      <3> QED
        BY <1>1, <2>1, <2>3, <3>2, HealthKeeps
    <2> QED
      BY <1>2, <1>7, <2>2, <2>4 DEF Replied, Goes
  <1>8. CASE GiveUp(c)
    <2> DEFINE r == IF q.kept # NoBody THEN HandOn(q, "lastError", q.kept) ELSE Answered("badGateway")
    <2>1. ASSUME q.kept # NoBody PROVE Sound(r)
      <3>1. WorthRetrying(q.request, q.kept)
        BY <1>3, <1>8, <2>1 DEF GiveUp, Forwarding
      <3>2. r = HandOn(q, "lastError", q.kept)
        BY <2>1
      <3> QED
        BY <3>1, <3>2 DEF Sound, HandedOn, HandOn, Judged
    <2>2. ASSUME q.kept = NoBody PROVE Sound(r)
      BY <2>2 DEF Sound, HandedOn, Answered
    <2>3. SharedInv'
      BY <1>1, <1>8 DEF GiveUp, Goes, SharedInv
    <2>4. call' = [call EXCEPT ![c] = r]
      BY <1>8 DEF GiveUp, Goes
    <2> HIDE DEF r
    <2> QED
      BY <1>2, <2>1, <2>2, <2>3, <2>4
  <1> QED
    BY <1>5, <1>6, <1>7, <1>8 DEF ServeForward

-----------------------------------------------------------------------------
LEMMA GatewayPreserved == GatewayInv /\ [Next]_chainsVars => GatewayInv'
  <1> SUFFICES ASSUME GatewayInv, [Next]_chainsVars PROVE GatewayInv'
    OBVIOUS
  <1>1. ASSUME NEW c \in Clients, HangUp(c) PROVE GatewayInv'
    <2>1. Sound(Answered("lost"))
      BY DEF Sound, HandedOn, Answered
    <2> QED
      BY <1>1, <2>1, OneCallSteps DEF HangUp, GatewayInv, SharedInv, shared
  <1>2. CASE Tick
    <2>1. now + 1 \in 0 .. MaxTime
      BY <1>2, ChainsAssumption DEF Tick, GatewayInv, SharedInv
    <2> QED
      BY <1>2, <2>1 DEF Tick, GatewayInv, SharedInv
  <1>3. CASE UNCHANGED chainsVars
    BY <1>3 DEF chainsVars, GatewayInv, SharedInv
  <1> QED
    BY <1>1, <1>2, <1>3, ArriveKeeps, FanOutKeeps, ForwardKeeps DEF Next

LEMMA GatewayInvariant == GatewaySpec => []GatewayInv
  BY GatewayInitially, GatewayPreserved, PTL DEF GatewaySpec

(***************************************************************************)
(* Requests, the shared records and the rotation indices stay what they    *)
(* are: above all, every index stays one of its chain's, however many      *)
(* requests rotate it.                                                     *)
(***************************************************************************)
THEOREM GatewayTyped == GatewaySpec => []TypeOK
  <1>1. ASSUME GatewayInv PROVE TypeOK
    <2>1. ASSUME NEW c \in Clients PROVE
             /\ call[c].pc \in {"idle", "chain", "scan", "await", "nap", "done", "forward", "answered"}
             /\ "report" \in DOMAIN call[c] => Range(call[c].report) \subseteq Outcomes
      <3>1. Sound(call[c])
        BY <1>1 DEF GatewayInv
      <3> QED
        BY <3>1, ShapeOf DEF Fanning
    <2> QED
      BY <1>1, <2>1 DEF GatewayInv, SharedInv, TypeOK
  <1> QED
    BY <1>1, GatewayInvariant, PTL

(***************************************************************************)
(* A report of sr_contract_chains is complete and justified, whatever      *)
(* other requests do to the index and to the endpoints' health meanwhile:  *)
(* the start of the loop is private, and n turns from any start reach all  *)
(* n endpoints.                                                            *)
(***************************************************************************)
THEOREM ReportsAreJustified == GatewaySpec => []ReportIsJustified
  <1>1. ASSUME GatewayInv PROVE ReportIsJustified
    <2> SUFFICES ASSUME NEW c \in Clients, "report" \in DOMAIN call[c]
                 PROVE  /\ call[c].pc = "done" => DOMAIN call[c].report = Targets(call[c].list)
                        /\ \A k \in DOMAIN call[c].report \ Range(call[c].todo) :
                              Justified(call[c], k)
      BY DEF ReportIsJustified
    <2>1. Fanning(call[c])
      BY <1>1, ShapeOf DEF GatewayInv
    <2>2. call[c].pc = "done" => Range(call[c].todo) = {}
      BY <2>1 DEF Fanning, Range
    <2> QED
      BY <2>1, <2>2 DEF Fanning
  <1> QED
    BY <1>1, GatewayInvariant, PTL

(***************************************************************************)
(* No body is handed on as an answer, or as the last error, on the word of *)
(* some of its items only.                                                 *)
(***************************************************************************)
THEOREM BodiesAreJudgedWhole == GatewaySpec => []BodiesJudgedWhole
  <1>1. ASSUME GatewayInv PROVE BodiesJudgedWhole
    <2> SUFFICES ASSUME NEW c \in Clients, "body" \in DOMAIN call[c] PROVE Judged(call[c])
      BY DEF BodiesJudgedWhole, Judged
    <2> QED
      BY <1>1, ShapeOf DEF GatewayInv
  <1> QED
    BY <1>1, GatewayInvariant, PTL

=============================================================================
