---------------------------- MODULE ProbeDialogue ----------------------------
(***************************************************************************)
(* The questions that a probe asks a node, and what it concludes           *)
(* (probe_endpoint_inner, proxy.rs).  A dialogue is given as the node's    *)
(* replies to all questions that may come up:                              *)
(*   head       eth_blockNumber                                            *)
(*   full, ids  eth_getBlockByNumber of each block, with whole             *)
(*              transactions and with their hashes only                    *)
(*   nonce      the nonce of the transaction picked from each block        *)
(*   count      eth_getTransactionCount of its sender at each block        *)
(*   balance, code   at the target block                                   *)
(* A reply is good, Bad (a result of the wrong form) or the kind of an     *)
(* error; heads and counts also have a number, and the good reply for a    *)
(* block says if an ordinary transaction is found in it.                   *)
(***************************************************************************)
EXTENDS Classify

CONSTANT WalkBack   \* PROBE_WALK_BACK, 4 blocks

Latest == -1   \* no block was asked for

\* ProbeError: an RPC error as classify_rpc_error sees it, or a transport error.
Errors == RetryKinds \cup {NoRetry, "Transport"}

Bad  == "Bad"
Good == "Good"
BlockReplies == {"WithTx", "WithoutTx", "Null"}

Number(n) == [is |-> Good, n |-> n]
NoNumber(kind) == [is |-> kind, n |-> 0]

Minus(n, k) == IF n >= k THEN n - k ELSE 0    \* saturating_sub

\* "A couple of blocks behind the tip so load-balanced backends agree."
Target(head, block) == IF block = Latest THEN Minus(head, 2) ELSE block

WalkOf(target) == Minus(target, WalkBack) .. target

\* "Some plans refuse full transaction objects; use hashes instead."
BlockReply(d, b) == IF d.full[b] = NoRetry THEN d.ids[b] ELSE d.full[b]

(***************************************************************************)
(* The walk goes down from the target until a block holds a transaction or *)
(* cannot be had.                                                          *)
(***************************************************************************)
Stops(d, target) == {b \in WalkOf(target) : BlockReply(d, b) # "WithoutTx"}

SampleBlock(d, target) ==
    IF Stops(d, target) = {} THEN Latest
    ELSE LET b == Max(Stops(d, target))
         IN  IF BlockReply(d, b) = "WithTx" THEN b ELSE Latest

\* state_error: only missing state is a finding.
Blames(reply) == IF reply = "MissingState" THEN "Pruned" ELSE "Failed"

JudgeWalk(d, target) ==
    IF Stops(d, target) = {} THEN "fine"
    ELSE LET reply == BlockReply(d, Max(Stops(d, target)))
         IN  IF reply = "WithTx" THEN "fine" ELSE Blames(reply)

\* The sender's count at a block; `right` compares it with the sample's nonce.
JudgeCount(reply, right) ==
    IF reply.is # Good THEN Blames(reply.is)
    ELSE IF right THEN "fine" ELSE "Liar"

JudgeAtTarget(d, target) ==
    LET b     == SampleBlock(d, target)
        count == d.count[target]
    IN  IF b = Latest THEN "fine" ELSE JudgeCount(count, count.n > d.nonce[b])

JudgeBeforeAny(d, target) == "fine"   \* faulty variant: the check is left out

\* "Catch nodes that ignore the block tag and answer with latest state."
JudgeBefore(d, target) ==
    LET b     == SampleBlock(d, target)
        count == d.count[b - 1]
    IN  IF b \in {Latest, 0} THEN "fine" ELSE JudgeCount(count, count.n <= d.nonce[b])

JudgeState(reply) == IF reply = Good THEN "fine" ELSE Blames(reply)

(***************************************************************************)
(* The questions in their order; the first that is not answered well       *)
(* decides.                                                                *)
(***************************************************************************)
Judgements(d, target) ==
    <<JudgeWalk(d, target), JudgeAtTarget(d, target), JudgeBefore(d, target),
      JudgeState(d.balance), JudgeState(d.code)>>

Outcome(d, block) ==
    IF d.head.is # Good THEN "Failed"
    ELSE IF block # Latest /\ block > d.head.n THEN "Lagging"
    ELSE LET judged == Judgements(d, Target(d.head.n, block))
             open   == {i \in DOMAIN judged : judged[i] # "fine"}
         IN  IF open = {} THEN "Verified" ELSE judged[Min(open)]

=============================================================================
