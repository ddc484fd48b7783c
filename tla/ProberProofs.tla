---------------------------- MODULE ProberProofs ----------------------------
(***************************************************************************)
(* Proofs about Prober, for any tasks, endpoints, natures, windows and     *)
(* lags of the nodes, any transactions on the chain, any blocks asked for  *)
(* and any dialogue whose calls may fail one at a time.                    *)
(***************************************************************************)
EXTENDS Prober, StateCapabilityProofs, ExtremaProofs, FiniteSetTheorems

(***************************************************************************)
(* What the replies of a node of some nature, asked at some head, may be.  *)
(***************************************************************************)
Unhelpful(kind) == kind \notin {Good, "MissingState"}

Plausible(d, e, does, block, head) ==
    LET state == StateReply(e, does, Target(head, block), head) IN
    /\ d.head = Number(head) \/ d.head = NoNumber("RateLimited") \/ d.head = NoNumber("Transport")
    /\ \A b \in Blocks :
          /\ BlockReply(d, b) = "WithTx" => b \in TxBlocks
          /\ BlockReply(d, b) = "WithoutTx" => b \notin TxBlocks
          /\ BlockReply(d, b) # "MissingState"
          /\ d.nonce[b] = Minus(Count(b), 1)
          /\ d.count[b] = CountReply(e, does, b, head) \/ Unhelpful(d.count[b].is)
    /\ d.balance = state \/ Unhelpful(d.balance)
    /\ d.code = state \/ Unhelpful(d.code)

\* The dialogues that Prober enumerates are such replies.
LEMMA DialoguesArePlausible ==
    ASSUME NEW e \in Endpoints, NEW does \in Natures, NEW block \in Asked, NEW head \in Blocks,
           NEW d \in Dialogues(Usual(e, does, block, head))
    PROVE  Plausible(d, e, does, block, head)
  <1> DEFINE usual == Usual(e, does, block, head)
             refused == [usual EXCEPT !.full = [b \in Blocks |-> NoRetry]]
             state == StateReply(e, does, Target(head, block), head)
             blocks == [b \in Blocks |-> IF b \in TxBlocks THEN "WithTx" ELSE "WithoutTx"]
             nonces == [b \in Blocks |-> Minus(Count(b), 1)]
             counts == [b \in Blocks |-> CountReply(e, does, b, head)]
             Kinds == {"RateLimited", "Transport"}
  <1>1. usual = [head |-> Number(head), full |-> blocks, ids |-> blocks, nonce |-> nonces,
                 count |-> counts, balance |-> state, code |-> state]
    BY DEF Usual
  <1> HIDE DEF usual, blocks, nonces, counts, state
  <1>2. refused = [head |-> Number(head), full |-> [b \in Blocks |-> NoRetry], ids |-> blocks,
                   nonce |-> nonces, count |-> counts, balance |-> state, code |-> state]
    BY <1>1
  <1> HIDE DEF refused
  <1>3. \/ d \in {usual, refused}
        \/ \E kind \in Kinds : d \in {[usual EXCEPT !.head = NoNumber(kind)],
                                      [usual EXCEPT !.balance = kind], [usual EXCEPT !.code = kind]}
        \/ \E kind \in Kinds, b \in Blocks :
              d \in {[usual EXCEPT !.full[b] = kind], [refused EXCEPT !.ids[b] = kind],
                     [usual EXCEPT !.count[b] = NoNumber(kind)]}
    <2>1. d \in Dialogues(usual)
      BY DEF usual
    <2>2. d \in {usual, refused} \cup UNION {
                   {[usual EXCEPT !.head = NoNumber(kind)],
                    [usual EXCEPT !.balance = kind], [usual EXCEPT !.code = kind]}
                   \cup {[usual EXCEPT !.full[b] = kind] : b \in Blocks}
                   \cup {[refused EXCEPT !.ids[b] = kind] : b \in Blocks}
                   \cup {[usual EXCEPT !.count[b] = NoNumber(kind)] : b \in Blocks} : kind \in Kinds}
      BY <2>1, Zenon DEF Dialogues, refused
    <2>3. CASE d \in {usual, refused}
      BY <2>3
    <2>4. CASE d \notin {usual, refused}
      <3>1. PICK kind \in Kinds :
              d \in {[usual EXCEPT !.head = NoNumber(kind)],
                     [usual EXCEPT !.balance = kind], [usual EXCEPT !.code = kind]}
                   \cup {[usual EXCEPT !.full[b] = kind] : b \in Blocks}
                   \cup {[refused EXCEPT !.ids[b] = kind] : b \in Blocks}
                   \cup {[usual EXCEPT !.count[b] = NoNumber(kind)] : b \in Blocks}
        BY <2>2, <2>4, Zenon
      <3> QED
        BY <3>1, Zenon
    <2> QED
      BY <2>3, <2>4
  <1>4. d.nonce = nonces
    BY <1>1, <1>2, <1>3
  <1>5. d.head = Number(head) \/ d.head = NoNumber("RateLimited") \/ d.head = NoNumber("Transport")
    <2>1. CASE \E kind \in Kinds : d = [usual EXCEPT !.head = NoNumber(kind)]
      BY <2>1, <1>1
    <2>2. CASE ~\E kind \in Kinds : d = [usual EXCEPT !.head = NoNumber(kind)]
      <3>1. d.head = usual.head \/ d.head = refused.head
        BY <2>2, <1>1, <1>2, <1>3
      <3> QED
        BY <3>1, <1>1, <1>2
    <2> QED
      BY <2>1, <2>2
  <1>6. /\ d.balance = state \/ d.balance \in Kinds
        /\ d.code = state \/ d.code \in Kinds
    BY <1>1, <1>2, <1>3
  <1>7. \A b \in Blocks : d.count[b] = counts[b] \/ \E kind \in Kinds : d.count[b] = NoNumber(kind)
    BY <1>1, <1>2, <1>3 DEF counts
  <1>8. \A b \in Blocks : BlockReply(d, b) = blocks[b] \/ BlockReply(d, b) \in Kinds
    BY <1>1, <1>2, <1>3 DEF blocks, BlockReply, NoRetry
  <1>9. \A kind \in Kinds : Unhelpful(kind) /\ NoNumber(kind).is = kind
    BY DEF Unhelpful, Good, NoNumber
  <1>10. /\ d.balance = state \/ Unhelpful(d.balance)
         /\ d.code = state \/ Unhelpful(d.code)
    BY <1>6, <1>9
  <1>11. \A b \in Blocks : d.count[b] = CountReply(e, does, b, head) \/ Unhelpful(d.count[b].is)
    BY <1>7, <1>9 DEF counts
  <1>12. \A b \in Blocks : /\ BlockReply(d, b) = "WithTx" => b \in TxBlocks
                           /\ BlockReply(d, b) = "WithoutTx" => b \notin TxBlocks
                           /\ BlockReply(d, b) # "MissingState"
    BY <1>8 DEF blocks
  <1>13. \A b \in Blocks : d.nonce[b] = Minus(Count(b), 1)
    BY <1>4 DEF nonces
  <1> QED
    BY <1>5, <1>10, <1>11, <1>12, <1>13 DEF Plausible, state

-----------------------------------------------------------------------------
(***************************************************************************)
(* The sender's count.                                                     *)
(***************************************************************************)
\* It is a number, grows from block to block, and by one at a transaction.
LEMMA CountType ==
    ASSUME NEW b \in Int
    PROVE  /\ IsFiniteSet({x \in TxBlocks : x <= b})
           /\ Count(b) \in Nat
  <1>1. IsFiniteSet(Blocks)
    BY CapabilityAssumption, FS_Interval DEF Blocks
  <1>2. {x \in TxBlocks : x <= b} \in SUBSET Blocks
    BY ProberAssumption
  <1> QED
    BY <1>1, <1>2, FS_Subset, FS_CardinalityType DEF Count

LEMMA CountGrows ==
    ASSUME NEW a \in Int, NEW b \in Int, a <= b PROVE Count(a) <= Count(b)
  <1>1. TxBlocks \subseteq Int
    BY ProberAssumption, CapabilityAssumption DEF Blocks
  <1>2. {x \in TxBlocks : x <= a} \in SUBSET {x \in TxBlocks : x <= b}
    <2>1. \A x \in TxBlocks : x <= a => x <= b
      BY <1>1
    <2> QED
      BY <2>1
  <1>3. IsFiniteSet({x \in TxBlocks : x <= b})
    BY CountType
  <1>4. Cardinality({x \in TxBlocks : x <= a}) <= Cardinality({x \in TxBlocks : x <= b})
    <2> HIDE DEF Count
    <2> QED
      BY <1>2, <1>3, FS_Subset, Zenon
  <1> QED
    BY <1>4 DEF Count

LEMMA CountAtTransaction ==
    ASSUME NEW b \in TxBlocks PROVE Count(b) = Count(b - 1) + 1
  <1>1. TxBlocks \subseteq Int
    BY ProberAssumption, CapabilityAssumption DEF Blocks
  <1> DEFINE before == {x \in TxBlocks : x <= b - 1}
  <1>2. {x \in TxBlocks : x <= b} = before \cup {b}
    <2>1. b \in Int /\ \A x \in TxBlocks : x \in Int /\ (x <= b <=> x <= b - 1 \/ x = b)
      BY <1>1
    <2>2. \A x : x \in {y \in TxBlocks : y <= b} <=> x \in before \/ x = b
      BY <2>1
    <2> QED
      BY <2>2
  <1>3. b \notin before /\ IsFiniteSet(before)
    <2>1. b - 1 \in Int /\ ~(b <= b - 1)
      BY <1>1
    <2> QED
      BY <2>1, CountType
  <1>4. Cardinality(before \cup {b}) = Cardinality(before) + 1
    <2> HIDE DEF before
    <2> QED
      BY <1>3, FS_AddElement
  <1> QED
    BY <1>2, <1>4 DEF Count

-----------------------------------------------------------------------------
(***************************************************************************)
(* The dialogue.                                                           *)
(***************************************************************************)
\* The first question that is not answered well decides.
LEMMA FirstDecides ==
    ASSUME NEW d, NEW block, d.head.is = Good, ~(block # Latest /\ block > d.head.n)
    PROVE  LET target == Target(d.head.n, block)
               outcome == Outcome(d, block)
           IN  \/ /\ outcome = "Verified"
                  /\ JudgeWalk(d, target) = "fine" /\ JudgeAtTarget(d, target) = "fine"
                  /\ JudgeBefore(d, target) = "fine" /\ JudgeState(d.balance) = "fine"
               \/ /\ outcome # "fine"
                  /\ outcome \in {JudgeWalk(d, target), JudgeAtTarget(d, target),
                                  JudgeBefore(d, target), JudgeState(d.balance),
                                  JudgeState(d.code)}
  <1> DEFINE target == Target(d.head.n, block)
             judged == Judgements(d, target)
             open == {i \in DOMAIN judged : judged[i] # "fine"}
  <1>1. DOMAIN judged = 1 .. 5
    BY DEF Judgements
  <1>2. /\ judged[1] = JudgeWalk(d, target) /\ judged[2] = JudgeAtTarget(d, target)
        /\ judged[3] = JudgeBefore(d, target) /\ judged[4] = JudgeState(d.balance)
        /\ judged[5] = JudgeState(d.code)
    BY DEF Judgements
  <1>3. Outcome(d, block) = IF open = {} THEN "Verified" ELSE judged[Min(open)]
    BY DEF Outcome
  <1> HIDE DEF judged
  <1>4. CASE open = {}
    BY <1>1, <1>2, <1>3, <1>4
  <1>5. CASE open # {}
    <2>1. Min(open) \in open
      BY <1>1, <1>5, MinIsLeast
    <2> QED
      BY <1>1, <1>2, <1>3, <1>5, <2>1
  <1> QED
    BY <1>4, <1>5

\* The walk stays below the head and finds the newest block it can use.
LEMMA WalkStops ==
    ASSUME NEW target \in Blocks, NEW d
    PROVE  /\ WalkOf(target) \subseteq Blocks /\ WalkOf(target) \subseteq 0 .. target
           /\ Stops(d, target) # {} =>
                 LET b == Max(Stops(d, target))
                 IN  /\ b \in WalkOf(target) /\ BlockReply(d, b) # "WithoutTx"
                     /\ \A x \in Stops(d, target) : x <= b
  <1>1. WalkOf(target) \subseteq Blocks /\ WalkOf(target) \subseteq 0 .. target /\ target \in Nat
    BY ProberAssumption, CapabilityAssumption DEF WalkOf, Minus, Blocks
  <1>2. Stops(d, target) \subseteq 0 .. target
    BY <1>1 DEF Stops
  <1>3. ASSUME Stops(d, target) # {}
        PROVE  /\ Max(Stops(d, target)) \in Stops(d, target)
               /\ \A x \in Stops(d, target) : x <= Max(Stops(d, target))
    BY <1>1, <1>2, <1>3, MaxIsGreatest
  <1> QED
    BY <1>1, <1>3 DEF Stops

\* The target of a probe that is not lagging is a block up to the head.
LEMMA TargetType ==
    ASSUME NEW block \in Asked, NEW head \in Blocks, ~(block # Latest /\ block > head)
    PROVE  Target(head, block) \in Blocks /\ Target(head, block) <= head
  BY ProberAssumption, CapabilityAssumption DEF Target, Blocks, Minus, Latest

\* The sample of a dialogue is a transaction of the walk.
LEMMA SampleIsTransaction ==
    ASSUME NEW e, NEW does, NEW block, NEW head, NEW d, Plausible(d, e, does, block, head),
           NEW target \in Blocks, SampleBlock(d, target) # Latest
    PROVE  /\ SampleBlock(d, target) \in WalkOf(target) \cap TxBlocks
           /\ Stops(d, target) # {} /\ SampleBlock(d, target) = Max(Stops(d, target))
  BY WalkStops DEF SampleBlock, Plausible

\* A pruned or lying judgement names the reply it rests on.
LEMMA JudgementsNameReplies ==
    ASSUME NEW d, NEW e, NEW does \in Natures, NEW block, NEW head,
           Plausible(d, e, does, block, head), NEW target \in Blocks
    PROVE  LET b == SampleBlock(d, target)
               replies == IF b # Latest /\ b # 0 THEN {target, b - 1} ELSE {target}
           IN  /\ JudgeWalk(d, target) \in {"fine", "Failed"}
               /\ JudgeAtTarget(d, target) = "Liar"
                     => b # Latest /\ d.count[target].is = Good /\ ~(d.count[target].n > d.nonce[b])
               /\ JudgeBefore(d, target) = "Liar"
                     => b # Latest /\ b # 0 /\ d.count[b - 1].is = Good
                        /\ ~(d.count[b - 1].n <= d.nonce[b])
               /\ JudgeAtTarget(d, target) = "Pruned" => d.count[target].is = "MissingState"
               /\ JudgeBefore(d, target) = "Pruned"
                     => b # Latest /\ b # 0 /\ d.count[b - 1].is = "MissingState"
  <1>1. JudgeWalk(d, target) \in {"fine", "Failed"}
    BY WalkStops DEF JudgeWalk, Blames, Plausible
  <1> QED
    BY <1>1 DEF JudgeAtTarget, JudgeBefore, JudgeCount, Blames, Good

-----------------------------------------------------------------------------
(***************************************************************************)
(* What a finding says of the node.                                        *)
(***************************************************************************)
Truthful(e, does, block, head, outcome) ==
    LET target == Target(head, block) IN
    /\ outcome = "Liar" => does # "honest"
    /\ outcome = "Verified" /\ does = "honest" => HasState(e, target, head)
    /\ outcome = "Verified" /\ does = "ignoresBlock" => ~Testable(target)
    /\ outcome = "Verified" /\ does = "answersZero" /\ Testable(target) => HasState(e, target, head)
    /\ outcome = "Pruned" /\ does = "honest" => ~HasState(e, Minus(target, WalkBack + 1), head)

\* Accusations are true: an honest node's counts fit the sample.
LEMMA HonestIsNotAccused ==
    ASSUME NEW e \in Endpoints, NEW block \in Asked, NEW head \in Blocks, NEW d,
           Plausible(d, e, "honest", block, head), NEW target \in Blocks
    PROVE  JudgeAtTarget(d, target) # "Liar" /\ JudgeBefore(d, target) # "Liar"
  <1> DEFINE b == SampleBlock(d, target)
  <1>1. \A x \in Blocks : d.count[x].is = Good => d.count[x].n = Count(x)
    <2> SUFFICES ASSUME NEW x \in Blocks, d.count[x].is = Good PROVE d.count[x].n = Count(x)
      OBVIOUS
    <2>1. CountReply(e, "honest", x, head) \in {Number(Count(x)), NoNumber("MissingState")}
      BY DEF CountReply
    <2>2. d.count[x] = CountReply(e, "honest", x, head)
      BY DEF Plausible, Unhelpful
    <2> QED
      BY <2>1, <2>2 DEF NoNumber, Number, Good
  <1>2. "honest" \in Natures
    BY DEF Natures
  <1>3. ASSUME b # Latest
        PROVE  /\ b \in Blocks /\ b <= target /\ Count(b) = Count(b - 1) + 1
               /\ d.nonce[b] = Count(b - 1)
               /\ Count(b - 1) \in Nat /\ Count(target) \in Nat /\ Count(b) <= Count(target)
    <2>1. b \in TxBlocks /\ b \in Blocks /\ b <= target /\ b \in Int /\ target \in Int
      BY <1>3, SampleIsTransaction, WalkStops, CapabilityAssumption DEF Blocks
    <2>2. Count(b) = Count(b - 1) + 1
      BY <2>1, CountAtTransaction
    <2>3. Count(b - 1) \in Nat /\ Count(target) \in Nat /\ Count(b) <= Count(target)
      <3> HIDE DEF b
      <3>1. b - 1 \in Int
        BY <2>1
      <3> QED
        BY <2>1, <3>1, CountType, CountGrows
    <2>4. d.nonce[b] = Minus(Count(b), 1)
      BY <2>1 DEF Plausible
    <2> HIDE DEF b
    <2> QED
      BY <2>1, <2>2, <2>3, <2>4 DEF Minus
  <1>4. JudgeAtTarget(d, target) # "Liar"
    <2> SUFFICES ASSUME JudgeAtTarget(d, target) = "Liar" PROVE FALSE
      OBVIOUS
    <2>1. b # Latest /\ d.count[target].is = Good /\ ~(d.count[target].n > d.nonce[b])
      BY <1>2, JudgementsNameReplies
    <2> HIDE DEF b
    <2> QED
      BY <2>1, <1>1, <1>3
  <1>5. JudgeBefore(d, target) # "Liar"
    <2> SUFFICES ASSUME JudgeBefore(d, target) = "Liar" PROVE FALSE
      OBVIOUS
    <2>1. b # Latest /\ b # 0 /\ d.count[b - 1].is = Good /\ ~(d.count[b - 1].n <= d.nonce[b])
      BY <1>2, JudgementsNameReplies
    <2> HIDE DEF b
    <2>2. b - 1 \in Blocks
      BY <2>1, <1>3, CapabilityAssumption DEF Blocks
    <2> QED
      BY <2>1, <2>2, <1>1, <1>3
  <1> QED
    BY <1>4, <1>5

\* Where the walk finds a transaction, there is a sample that is not genesis's.
LEMMA SampleFound ==
    ASSUME NEW e \in Endpoints, NEW does \in Natures, NEW block \in Asked, NEW head \in Blocks,
           NEW d, Plausible(d, e, does, block, head),
           NEW target \in Blocks, Testable(target), JudgeWalk(d, target) = "fine"
    PROVE  LET b == SampleBlock(d, target)
           IN  /\ b \in TxBlocks /\ b \in Nat /\ b > 0 /\ b - 1 \in Blocks /\ b <= target
               /\ Count(b) = Count(b - 1) + 1 /\ Count(b - 1) \in Nat
               /\ d.nonce[b] = Count(b - 1)
  <1> DEFINE found == WalkOf(target) \cap TxBlocks
             stops == Stops(d, target)
             b == Max(stops)
  <1>1. found # {} /\ Max(found) > 0 /\ found \subseteq 0 .. target /\ target \in Nat
        /\ found \subseteq Blocks
    BY WalkStops, CapabilityAssumption DEF Testable, Blocks
  <1>2. Max(found) \in found
    BY <1>1, MaxIsGreatest
  <1>3. found \subseteq stops
    BY <1>1 DEF Stops, Plausible
  <1>4. /\ stops # {} /\ b \in WalkOf(target) /\ b \in Blocks /\ b <= target /\ b \in Nat
        /\ \A x \in stops : x <= b
    BY <1>2, <1>3, WalkStops, CapabilityAssumption DEF Blocks
  <1>5. BlockReply(d, b) = "WithTx"
    BY <1>4 DEF JudgeWalk, Blames
  <1>6. b \in TxBlocks /\ SampleBlock(d, target) = b /\ d.nonce[b] = Minus(Count(b), 1)
    BY <1>4, <1>5 DEF Plausible, SampleBlock
  <1>7. b > 0
    <2> HIDE DEF b
    <2>1. Max(found) <= b /\ Max(found) \in Nat
      BY <1>1, <1>2, <1>3, <1>4
    <2> HIDE DEF found
    <2> QED
      BY <2>1, <1>1, <1>4
  <1> HIDE DEF b
  <1>8. b - 1 \in Blocks /\ b - 1 \in Int
    BY <1>4, <1>7, CapabilityAssumption DEF Blocks
  <1>9. Count(b) = Count(b - 1) + 1 /\ Count(b - 1) \in Nat
    BY <1>6, <1>8, CountAtTransaction, CountType
  <1> QED
    BY <1>4, <1>6, <1>7, <1>8, <1>9 DEF Minus

\* A node that ignores the block tag does not pass the question for the block
\* before the sample, if the walk finds one.
LEMMA IgnoringIsNoticed ==
    ASSUME NEW e \in Endpoints, NEW block \in Asked, NEW head \in Blocks, NEW d,
           Plausible(d, e, "ignoresBlock", block, head),
           NEW target \in Blocks, target <= head, Testable(target)
    PROVE  JudgeWalk(d, target) # "fine" \/ JudgeBefore(d, target) # "fine"
  <1> DEFINE b == SampleBlock(d, target)
  <1> SUFFICES ASSUME JudgeWalk(d, target) = "fine", JudgeBefore(d, target) = "fine" PROVE FALSE
    OBVIOUS
  <1>1. "ignoresBlock" \in Natures
    BY DEF Natures
  <1>2. /\ b \in TxBlocks /\ b \in Nat /\ b > 0 /\ b - 1 \in Blocks /\ b <= target
        /\ Count(b) = Count(b - 1) + 1 /\ Count(b - 1) \in Nat
        /\ d.nonce[b] = Count(b - 1)
    BY <1>1, SampleFound
  <1>3. d.count[b - 1].is = Good /\ d.count[b - 1].n <= d.nonce[b]
    <2>1. b \notin {Latest, 0}
      BY <1>2 DEF Latest
    <2> QED
      BY <2>1 DEF JudgeBefore, JudgeCount, Blames
  <1> HIDE DEF b
  <1>4. Count(b) <= Count(head) /\ Count(head) \in Nat
    <2>1. b \in Int /\ head \in Int /\ b <= head
      BY <1>2, CapabilityAssumption DEF Blocks
    <2> QED
      BY <2>1, CountGrows, CountType
  <1>5. d.count[b - 1].n = Count(head)
    <2>1. d.count[b - 1] = CountReply(e, "ignoresBlock", b - 1, head)
      BY <1>2, <1>3 DEF Plausible, Unhelpful
    <2>2. d.count[b - 1] = Number(Count(head))
      BY <2>1 DEF CountReply
    <2> QED
      BY <2>2 DEF Number
  <1> QED
    BY <1>2, <1>3, <1>4, <1>5

\* Nor does a node that answers zero for state it has dropped pass the question
\* for the target block.
LEMMA ZeroIsNoticed ==
    ASSUME NEW e \in Endpoints, NEW block \in Asked, NEW head \in Blocks, NEW d,
           Plausible(d, e, "answersZero", block, head),
           NEW target \in Blocks, Testable(target),
           JudgeWalk(d, target) = "fine", JudgeAtTarget(d, target) = "fine"
    PROVE  HasState(e, target, head)
  <1> DEFINE b == SampleBlock(d, target)
  <1> SUFFICES ASSUME ~HasState(e, target, head) PROVE FALSE
    OBVIOUS
  <1>1. "answersZero" \in Natures
    BY DEF Natures
  <1>2. b \in Nat /\ d.nonce[b] \in Nat
    BY <1>1, SampleFound
  <1>3. d.count[target].is = Good /\ d.count[target].n > d.nonce[b]
    <2>1. b # Latest
      BY <1>2 DEF Latest
    <2> QED
      BY <2>1 DEF JudgeAtTarget, JudgeCount, Blames
  <1>4. d.count[target].n = 0
    <2>1. d.count[target] = CountReply(e, "answersZero", target, head)
      BY <1>3 DEF Plausible, Unhelpful
    <2>2. d.count[target] = Number(0)
      BY <2>1 DEF CountReply
    <2> QED
      BY <2>2 DEF Number
  <1> HIDE DEF b
  <1> QED
    BY <1>2, <1>3, <1>4

\* The state of a newer block outlives that of an older one.
LEMMA StateIsMonotonic ==
    ASSUME NEW e \in Endpoints, NEW a \in Nat, NEW b \in Nat, NEW low \in Nat, NEW high \in Nat,
           a <= b, low <= high, HasState(e, a, high)
    PROVE  HasState(e, b, low)
  BY ProberAssumption DEF HasState

\* An honest node refuses only what it has dropped, and is asked at most for the
\* block below the walk.
LEMMA HonestRefusesWhatItDropped ==
    ASSUME NEW e \in Endpoints, NEW block \in Asked, NEW head \in Blocks, NEW d,
           Plausible(d, e, "honest", block, head), NEW target \in Blocks,
           target = Target(head, block),
           "Pruned" \in {JudgeWalk(d, target), JudgeAtTarget(d, target), JudgeBefore(d, target),
                         JudgeState(d.balance), JudgeState(d.code)}
    PROVE  ~HasState(e, Minus(target, WalkBack + 1), head)
  <1> DEFINE b == SampleBlock(d, target)
             mark == Minus(target, WalkBack + 1)
  <1>1. mark \in Nat /\ mark <= target /\ target \in Nat /\ head \in Nat
    BY ProberAssumption, CapabilityAssumption DEF Minus, Blocks
  <1>2. SUFFICES \E x \in Nat : mark <= x /\ ~HasState(e, x, head)
    BY <1>1, StateIsMonotonic
  <1>3. "honest" \in Natures
    BY DEF Natures
  <1>4. \A x \in Blocks : d.count[x].is = "MissingState" => ~HasState(e, x, head)
    <2> SUFFICES ASSUME NEW x \in Blocks, d.count[x].is = "MissingState", HasState(e, x, head)
                 PROVE  FALSE
      OBVIOUS
    <2>1. CountReply(e, "honest", x, head) = Number(Count(x))
      BY DEF CountReply
    <2>2. d.count[x] = CountReply(e, "honest", x, head)
      BY DEF Plausible, Unhelpful
    <2> QED
      BY <2>1, <2>2 DEF Number, Good
  <1>5. CASE JudgeAtTarget(d, target) = "Pruned"
    BY <1>1, <1>3, <1>4, <1>5, JudgementsNameReplies
  <1>6. CASE JudgeBefore(d, target) = "Pruned"
    <2>1. b # Latest /\ b # 0 /\ d.count[b - 1].is = "MissingState"
      BY <1>3, <1>6, JudgementsNameReplies
    <2>2. b \in WalkOf(target) /\ b \in Blocks
      BY <2>1, SampleIsTransaction, WalkStops
    <2> HIDE DEF b
    <2>3. b - 1 \in Blocks /\ b - 1 \in Nat /\ mark <= b - 1
      BY <2>1, <2>2, <1>1, ProberAssumption, CapabilityAssumption DEF WalkOf, Minus, Blocks
    <2> QED
      BY <2>1, <2>3, <1>4
  <1>7. CASE "Pruned" \in {JudgeState(d.balance), JudgeState(d.code)}
    <2>1. ~HasState(e, target, head)
      BY <1>7 DEF JudgeState, Blames, Plausible, StateReply, Good, Unhelpful
    <2> QED
      BY <2>1, <1>1
  <1>8. JudgeWalk(d, target) # "Pruned"
    BY <1>3, JudgementsNameReplies
  <1> QED
    BY <1>5, <1>6, <1>7, <1>8

\* A probe's finding is true of the node, unless it is that the probe failed.
LEMMA FindingsAreTruthful ==
    ASSUME NEW e \in Endpoints, NEW does \in Natures, NEW block \in Asked, NEW head \in Blocks,
           NEW finding \in Findings[e][does][block][head]
    PROVE  /\ Truthful(e, does, block, head, finding[1])
           /\ finding[2].is = Good => finding[2].n = head
           /\ finding[2].is # Good => finding[1] = "Failed"
           /\ finding[1] \in {"Verified", "Pruned", "Liar"} => Target(head, block) \in Blocks
  <1>1. finding \in {<<Outcome(d, block), d.head>> : d \in Dialogues(Usual(e, does, block, head))}
    BY DEF Findings
  <1>2. PICK d \in Dialogues(Usual(e, does, block, head)) : finding = <<Outcome(d, block), d.head>>
    BY <1>1
  <1>3. Plausible(d, e, does, block, head)
    BY DialoguesArePlausible
  <1>4. finding[1] = Outcome(d, block) /\ finding[2] = d.head
    BY <1>2
  <1>5. CASE d.head.is # Good
    <2>1. Outcome(d, block) = "Failed"
      BY <1>5 DEF Outcome
    <2> QED
      BY <2>1, <1>4, <1>5 DEF Truthful
  <1>6. ASSUME d.head.is = Good PROVE d.head = Number(head) /\ d.head.n = head
    BY <1>3, <1>6 DEF Plausible, Number, NoNumber, Good
  <1>7. CASE d.head.is = Good /\ block # Latest /\ block > head
    <2>1. Outcome(d, block) = "Lagging"
      BY <1>6, <1>7 DEF Outcome
    <2> QED
      BY <2>1, <1>4, <1>6, <1>7 DEF Truthful
  <1>8. CASE d.head.is = Good /\ ~(block # Latest /\ block > head)
    <2> DEFINE target == Target(head, block)
               judged == {JudgeWalk(d, target), JudgeAtTarget(d, target), JudgeBefore(d, target),
                          JudgeState(d.balance), JudgeState(d.code)}
    <2>1. target \in Blocks /\ target <= head
      BY <1>8, TargetType
    <2>2. \/ /\ finding[1] = "Verified"
             /\ JudgeWalk(d, target) = "fine" /\ JudgeAtTarget(d, target) = "fine"
             /\ JudgeBefore(d, target) = "fine" /\ JudgeState(d.balance) = "fine"
          \/ finding[1] # "fine" /\ finding[1] \in judged
      BY <1>4, <1>6, <1>8, FirstDecides
    <2>3. "Verified" \notin judged
      <3>1. JudgeState(d.balance) # "Verified" /\ JudgeState(d.code) # "Verified"
        BY DEF JudgeState, Blames
      <3>2. JudgeAtTarget(d, target) # "Verified" /\ JudgeBefore(d, target) # "Verified"
        BY DEF JudgeAtTarget, JudgeBefore, JudgeCount, Blames
      <3>3. JudgeWalk(d, target) # "Verified"
        BY DEF JudgeWalk, Blames
      <3> QED
        BY <3>1, <3>2, <3>3
    <2>4. ASSUME finding[1] = "Liar" PROVE does # "honest"
      <3> SUFFICES ASSUME does = "honest" PROVE FALSE
        OBVIOUS
      <3>1. JudgeAtTarget(d, target) # "Liar" /\ JudgeBefore(d, target) # "Liar"
        BY <1>3, <2>1, HonestIsNotAccused
      <3>2. JudgeWalk(d, target) # "Liar" /\ JudgeState(d.balance) # "Liar"
            /\ JudgeState(d.code) # "Liar"
        BY DEF JudgeWalk, JudgeState, Blames
      <3> QED
        BY <2>2, <2>4, <3>1, <3>2
    <2>5. ASSUME finding[1] = "Verified", does = "honest" PROVE HasState(e, target, head)
      <3>1. d.balance = StateReply(e, does, target, head) \/ Unhelpful(d.balance)
        BY <1>3 DEF Plausible
      <3>2. JudgeState(d.balance) = "fine"
        BY <2>2, <2>3, <2>5
      <3> QED
        BY <3>1, <3>2, <2>5 DEF JudgeState, Blames, Unhelpful, StateReply, Good
    <2>6. ASSUME finding[1] = "Verified", does = "ignoresBlock" PROVE ~Testable(target)
      <3>1. JudgeWalk(d, target) = "fine" /\ JudgeBefore(d, target) = "fine"
        BY <2>2, <2>3, <2>6
      <3> QED
        BY <1>3, <2>1, <2>6, <3>1, IgnoringIsNoticed
    <2>7. ASSUME finding[1] = "Verified", does = "answersZero", Testable(target)
          PROVE  HasState(e, target, head)
      <3>1. JudgeWalk(d, target) = "fine" /\ JudgeAtTarget(d, target) = "fine"
        BY <2>2, <2>3, <2>7
      <3> QED
        BY <1>3, <2>1, <2>7, <3>1, ZeroIsNoticed
    <2>8. ASSUME finding[1] = "Pruned", does = "honest"
          PROVE  ~HasState(e, Minus(target, WalkBack + 1), head)
      <3>1. "Pruned" \in judged
        BY <2>2, <2>8
      <3> QED
        BY <1>3, <2>1, <2>8, <3>1, HonestRefusesWhatItDropped
    <2> QED
      BY <1>4, <1>6, <1>8, <2>1, <2>4, <2>5, <2>6, <2>7, <2>8 DEF Truthful
  <1> QED
    BY <1>4, <1>5, <1>6, <1>7, <1>8

-----------------------------------------------------------------------------
(***************************************************************************)
(* The records.  A step revises at most one of them; what it revises it to *)
(* must be sound and true of the node.                                     *)
(***************************************************************************)
TrueOf(e, c) ==
    /\ nature[e] = "honest" => ~c.liar
    /\ nature[e] = "ignoresBlock" /\ c.verifiedBlock # None => ~Testable(c.verifiedBlock)
    /\ nature[e] = "answersZero" /\ c.verifiedBlock # None /\ Testable(c.verifiedBlock)
          => HasState(e, c.verifiedBlock, c.verifiedHead)
    /\ nature[e] = "honest" /\ c.prunedBlock # None
          => ~HasState(e, Minus(c.prunedBlock, WalkBack + 1), HeadOf(e))

GoodRecord(e, c) == Sound(c) /\ TrueOf(e, c)

RecordsInv ==
    /\ TypeOK
    /\ nature \in [Endpoints -> Natures]
    /\ tip \in Blocks
    /\ \A e \in Endpoints : GoodRecord(e, entries[e]) /\ GoodRecord(e, saved[e])

Revises(e, new) ==
    /\ entries' = [entries EXCEPT ![e] = new]
    /\ owing' \in BOOLEAN
    /\ UNCHANGED <<saved, missed, now>>

\* Neither lifetimes nor failed probes are marks, and an expired record has none.
LEMMA LifetimesAreNoMarks ==
    ASSUME NEW e \in Endpoints, NEW c, GoodRecord(e, c), NEW time
    PROVE  /\ GoodRecord(e, FreshAt(c, time))
           /\ \A expiry \in Nat, failed \in Option :
                 /\ GoodRecord(e, [c EXCEPT !.expiresAt = expiry])
                 /\ GoodRecord(e, [c EXCEPT !.failedUntil = failed, !.expiresAt = expiry])
  <1>1. GoodRecord(e, Blank)
    BY BlankIsSound DEF GoodRecord, TrueOf, Blank
  <1>2. GoodRecord(e, FreshAt(c, time))
    BY <1>1 DEF FreshAt
  <1>3. ASSUME NEW expiry \in Nat, NEW failed \in Option
        PROVE  /\ GoodRecord(e, [c EXCEPT !.expiresAt = expiry])
               /\ GoodRecord(e, [c EXCEPT !.failedUntil = failed, !.expiresAt = expiry])
    <2>1. c \in Capability
      BY DEF GoodRecord, Sound
    <2>2. /\ TrueOf(e, [c EXCEPT !.expiresAt = expiry])
          /\ TrueOf(e, [c EXCEPT !.failedUntil = failed, !.expiresAt = expiry])
      BY <2>1 DEF GoodRecord, TrueOf, Capability
    <2> QED
      BY <2>2, MarksOnly DEF GoodRecord
  <1> QED
    BY <1>2, <1>3

\* A revision to a good record keeps the records good.
LEMMA RevisionKeeps ==
    ASSUME RecordsInv, NEW e \in Endpoints, NEW new, GoodRecord(e, new), Revises(e, new),
           live' \in Option, UNCHANGED <<nature, tip>>
    PROVE  RecordsInv' /\ SoundStore'
  <1>1. \A f \in Endpoints : GoodRecord(f, entries'[f])
    BY DEF RecordsInv, Revises, TypeOK
  <1>2. \A f \in Endpoints : GoodRecord(f, saved'[f])
    BY DEF RecordsInv, Revises
  <1>3. \A f \in Endpoints : /\ entries'[f] \in Capability /\ saved'[f] \in Capability
                             /\ Sound(entries'[f]) /\ Sound(saved'[f])
    BY <1>1, <1>2 DEF GoodRecord, Sound
  <1>4. entries' \in [Endpoints -> Capability]
    BY <1>3 DEF Revises, RecordsInv, TypeOK
  <1>5. saved' \in [Endpoints -> Capability]
    BY DEF Revises, RecordsInv, TypeOK
  <1>6. TypeOK'
    BY <1>4, <1>5 DEF TypeOK, Revises, RecordsInv
  <1>7. (\A f \in Endpoints : GoodRecord(f, entries[f]) /\ GoodRecord(f, saved[f]))'
    BY <1>1, <1>2 DEF GoodRecord, TrueOf, HeadOf
  <1>8. nature' \in [Endpoints -> Natures] /\ tip' \in Blocks
    BY DEF RecordsInv
  <1> QED
    BY <1>3, <1>6, <1>7, <1>8 DEF RecordsInv, SoundStore

\* A failed probe is recorded without touching a mark.
LEMMA FailureRevises ==
    ASSUME RecordsInv, NEW e \in Endpoints, NoteProbeFailure(e), now' = now
    PROVE  \E new : GoodRecord(e, new) /\ Revises(e, new)
  <1> DEFINE until == now + ProbeFailureTTL
             new == [Fresh(e) EXCEPT !.failedUntil = until,
                                     !.expiresAt = IF @ < until THEN until ELSE @]
  <1>1. GoodRecord(e, Fresh(e)) /\ Fresh(e) \in Capability
    BY LifetimesAreNoMarks DEF Fresh, RecordsInv, GoodRecord, Sound
  <1>2. until \in Nat /\ until \in Option /\ Fresh(e).expiresAt \in Nat
    BY <1>1, CapabilityAssumption DEF RecordsInv, TypeOK, Capability, Option
  <1>3. PICK expiry \in Nat : new = [Fresh(e) EXCEPT !.failedUntil = until, !.expiresAt = expiry]
    BY <1>2
  <1>4. GoodRecord(e, new)
    BY <1>1, <1>2, <1>3, LifetimesAreNoMarks
  <1>5. Revises(e, new)
    BY DEF NoteProbeFailure, Revises
  <1> QED
    BY <1>4, <1>5

\* What update writes differs from the revision in its lifetime only.
LEMMA UpdateRevises ==
    ASSUME RecordsInv, NEW e \in Endpoints, NEW revised, GoodRecord(e, revised),
           NEW otherwise, Update(e, revised, otherwise), now' = now
    PROVE  \E new : GoodRecord(e, new) /\ Revises(e, new)
  <1> DEFINE new == [revised EXCEPT !.expiresAt = now + CapabilityTTL]
  <1>1. now + CapabilityTTL \in Nat /\ None \in Option
    BY CapabilityAssumption DEF RecordsInv, TypeOK, Option
  <1>2. GoodRecord(e, new)
    BY <1>1, LifetimesAreNoMarks
  <1>3. owing' \in BOOLEAN
    BY Zenon DEF Update
  <1>4. Revises(e, new)
    BY <1>3 DEF Update, Revises
  <1> QED
    BY <1>2, <1>4

\* A truthful finding makes a good record of a good one.
LEMMA TruthRevises ==
    ASSUME RecordsInv, NEW e \in Endpoints, NEW block \in Asked, NEW outcome,
           Truthful(e, nature[e], block, HeadOf(e), outcome), HeadOf(e) \in Blocks,
           outcome \in {"Verified", "Pruned", "Liar"} => Target(HeadOf(e), block) \in Blocks,
           Records(e, outcome, Target(HeadOf(e), block), HeadOf(e)), now' = now
    PROVE  (\E new : GoodRecord(e, new) /\ Revises(e, new)) /\ live' \in Option
  <1> DEFINE head == HeadOf(e)
             target == Target(head, block)
             c == Fresh(e)
  <1>1. GoodRecord(e, c) /\ c \in Capability
    BY LifetimesAreNoMarks DEF Fresh, RecordsInv, GoodRecord, Sound
  <1>2. Blocks \subseteq Nat /\ Blocks \subseteq Option
    BY CapabilityAssumption DEF Blocks, Option
  <1>3. live' \in Option
    BY <1>2, NoteHeadType DEF Records, RecordsInv
  <1>4. CASE outcome = "Verified"
    <2>1. target \in Nat /\ head \in Option
      BY <1>2, <1>4
    <2>2. Sound(Verify(c, target, head))
      BY <1>1, <2>1, VerifyIsSound DEF GoodRecord
    <2>3. Verify(c, target, head).liar = c.liar
          /\ \/ /\ Verify(c, target, head).verifiedBlock = target
                /\ Verify(c, target, head).verifiedHead = head
             \/ /\ Verify(c, target, head).verifiedBlock = c.verifiedBlock
                /\ Verify(c, target, head).verifiedHead = c.verifiedHead
          /\ Verify(c, target, head).prunedBlock \in {None, c.prunedBlock}
      BY <1>1 DEF Verify, Capability
    <2>4. TrueOf(e, Verify(c, target, head))
      BY <1>1, <1>4, <2>3 DEF GoodRecord, TrueOf, Truthful
    <2> QED
      BY <1>3, <1>4, <2>2, <2>4, UpdateRevises DEF Records, GoodRecord
  <1>5. CASE outcome = "Pruned"
    <2>1. target \in Nat /\ head \in Option
      BY <1>2, <1>5
    <2>2. Sound(Prune(c, target, head))
      BY <1>1, <2>1, PruneIsSound DEF GoodRecord
    <2>3. Prune(c, target, head).liar = c.liar
          /\ \/ Prune(c, target, head).verifiedBlock = None
             \/ /\ Prune(c, target, head).verifiedBlock = c.verifiedBlock
                /\ Prune(c, target, head).verifiedHead = c.verifiedHead
          /\ Prune(c, target, head).prunedBlock \in {target, c.prunedBlock}
      BY <1>1 DEF Prune, Capability
    <2>4. TrueOf(e, Prune(c, target, head))
      BY <1>1, <1>5, <2>3 DEF GoodRecord, TrueOf, Truthful
    <2> QED
      BY <1>3, <1>5, <2>2, <2>4, UpdateRevises DEF Records, GoodRecord
  <1>6. CASE outcome = "Liar"
    <2>1. Sound(Accuse(c))
      BY <1>1, AccuseIsSound DEF GoodRecord
    <2>2. Accuse(c).verifiedBlock = None /\ Accuse(c).prunedBlock = c.prunedBlock
      BY <1>1 DEF Accuse, Capability
    <2>3. TrueOf(e, Accuse(c))
      BY <1>1, <1>6, <2>2 DEF GoodRecord, TrueOf, Truthful
    <2> QED
      BY <1>3, <1>6, <2>1, <2>3, UpdateRevises DEF Records, GoodRecord
  <1>7. CASE outcome \notin {"Verified", "Pruned", "Liar"}
    BY <1>3, <1>7, FailureRevises DEF Records
  <1> QED
    BY <1>4, <1>5, <1>6, <1>7

-----------------------------------------------------------------------------
(***************************************************************************)
(* The tasks.                                                              *)
(***************************************************************************)
HeldBy(q) == q.queue \cup q.running

Others(t) == UNION {Held(u) : u \in Tasks \ {t}}

ServesWhatItVerified(q) ==
    \A e \in Endpoints :
        q.verified[e] # None /\ nature[e] = "honest"
            => HasState(e, Target(q.verified[e], q.block), q.verified[e])

GoodTask(q) ==
    /\ q \in Task
    /\ IsFiniteSet(q.running) /\ Cardinality(q.running) <= Concurrency
    /\ q.pc = "idle" => q = NoTask
    /\ q.pc # "idle" => q.block \in Asked
    /\ q.pc # "probing" => HeldBy(q) = {}
    /\ q.queue \cap q.running = {}
    /\ \A e \in Endpoints : q.verified[e] \in -1 .. MaxBlock
    /\ ServesWhatItVerified(q)

TasksInv ==
    /\ inFlight \subseteq Endpoints
    /\ DOMAIN task = Tasks /\ task = [t \in Tasks |-> task[t]]
    /\ \A t \in Tasks : GoodTask(task[t])
    /\ InFlightIsExact

LEMMA NoTaskIsGood == GoodTask(NoTask)
  <1>1. NoTask \in Task
    BY DEF NoTask, Task, Option
  <1>2. IsFiniteSet({}) /\ Cardinality({}) = 0
    BY FS_EmptySet
  <1>3. -1 \in -1 .. MaxBlock /\ 0 <= Concurrency
    BY CapabilityAssumption, ProberAssumption
  <1> QED
    BY <1>1, <1>2, <1>3 DEF GoodTask, NoTask, HeldBy, ServesWhatItVerified, None

\* What the other tasks hold is what is in flight besides a task's own.
LEMMA HeldByOthers ==
    ASSUME TasksInv, NEW t \in Tasks
    PROVE  inFlight \ Held(t) = Others(t) /\ inFlight = Others(t) \cup Held(t)
  BY DEF TasksInv, InFlightIsExact, Others

\* A step of one task, to a good state, that holds what nobody else holds.
LEMMA OneTaskSteps ==
    ASSUME TasksInv, NEW t \in Tasks, NEW q, GoodTask(q), HeldBy(q) \cap Others(t) = {},
           inFlight' = Others(t) \cup HeldBy(q), task' = [task EXCEPT ![t] = q],
           nature' = nature
    PROVE  TasksInv'
  <1>1. /\ task'[t] = q /\ \A u \in Tasks \ {t} : task'[u] = task[u]
        /\ DOMAIN task' = Tasks /\ task' = [u \in Tasks |-> task'[u]]
    BY DEF TasksInv
  <1>2. (\A u \in Tasks : GoodTask(task[u]))'
    <2>1. \A u \in Tasks : GoodTask(task'[u])
      BY <1>1 DEF TasksInv
    <2> QED
      BY <2>1 DEF GoodTask, ServesWhatItVerified
  <1>3. Held(t)' = HeldBy(q) /\ \A u \in Tasks \ {t} : Held(u)' = Held(u)
    BY <1>1 DEF Held, HeldBy
  <1>4. inFlight' = UNION {Held(u)' : u \in Tasks}
    BY <1>3 DEF Others
  <1>5. \A u, v \in Tasks : u # v => Held(u)' \cap Held(v)' = {}
    <2>1. \A u \in Tasks \ {t} : Held(u) \cap HeldBy(q) = {}
      BY DEF Others
    <2>2. \A u, v \in Tasks : u # v => Held(u) \cap Held(v) = {}
      BY DEF TasksInv, InFlightIsExact
    <2> QED
      BY <2>1, <2>2, <1>3
  <1>6. \A u \in Tasks : task'[u].queue \cap task'[u].running = {}
    BY <1>2 DEF GoodTask
  <1>7. inFlight' \subseteq Endpoints
    <2>1. HeldBy(q) \subseteq Endpoints
      BY DEF GoodTask, HeldBy, Task
    <2>2. Others(t) \subseteq Endpoints
      BY HeldByOthers DEF TasksInv
    <2> QED
      BY <2>1, <2>2
  <1> QED
    BY <1>1, <1>2, <1>4, <1>5, <1>6, <1>7 DEF TasksInv, InFlightIsExact

\* A call looks its endpoints up; it or a background task sets out to probe.
LEMMA LookKeepsTasks ==
    ASSUME TasksInv, NEW c \in Callers, NEW block \in Asked, NEW healthy \in SUBSET Endpoints,
           Look(c, block, healthy)
    PROVE  TasksInv'
  <1> DEFINE candidates == {e \in healthy : ~BackedOff(e)}
             accepted == Coverages(block, "Covered", candidates)
             unknown == Coverages(block, "Unknown", candidates)
             asked == [NoTask EXCEPT !.pc = "claiming", !.block = block, !.toProbe = unknown]
             asking == [asked EXCEPT !.accepted = accepted]
  <1>1. accepted \subseteq Endpoints /\ unknown \subseteq Endpoints
    BY DEF Coverages
  <1> HIDE DEF candidates, accepted, unknown
  <1>2. /\ NoTask \in Task /\ NoTask.queue = {} /\ NoTask.running = {}
        /\ \A e \in Endpoints : NoTask.verified[e] = None
    BY NoTaskIsGood DEF GoodTask, NoTask
  <1>3. ASSUME NEW q \in {asked, asking} PROVE GoodTask(q) /\ HeldBy(q) = {}
    <2>1. /\ q \in Task /\ q.pc = "claiming" /\ q.block = block
          /\ q.queue = {} /\ q.running = {} /\ q.verified = NoTask.verified
      BY <1>1, <1>2 DEF Task
    <2>2. HeldBy(q) = {}
      BY <2>1 DEF HeldBy
    <2>3. IsFiniteSet({}) /\ Cardinality({}) <= Concurrency
      BY FS_EmptySet, ProberAssumption
    <2>4. None \in -1 .. MaxBlock
      BY CapabilityAssumption DEF None
    <2> QED
      BY <1>2, <2>1, <2>2, <2>3, <2>4 DEF GoodTask, ServesWhatItVerified
  <1> HIDE DEF asked, asking
  <1>4. ASSUME NEW t \in Tasks, task[t].pc = "idle", NEW q \in {asked, asking},
               task' = [task EXCEPT ![t] = q]
        PROVE  TasksInv'
    <2>1. Held(t) = {}
      BY <1>4 DEF TasksInv, GoodTask, Held, HeldBy
    <2>2. inFlight' = Others(t) \cup HeldBy(q) /\ HeldBy(q) \cap Others(t) = {} /\ nature' = nature
      BY <1>3, <2>1, HeldByOthers DEF Look
    <2> QED
      BY <1>3, <1>4, <2>2, OneTaskSteps
  <1>5. CASE task' = task
    BY <1>5 DEF Look, TasksInv, GoodTask, ServesWhatItVerified, InFlightIsExact, Held
  <1>6. Callers \subseteq Tasks /\ Background \subseteq Tasks
    BY DEF Tasks
  <1>7. \/ task' = task
        \/ task[c].pc = "idle" /\ task' = [task EXCEPT ![c] = asking]
        \/ \E t \in Background : task[t].pc = "idle" /\ task' = [task EXCEPT ![t] = asked]
    BY Zenon DEF Look, candidates, accepted, unknown, asked, asking
  <1> QED
    BY <1>4, <1>5, <1>6, <1>7

\* A task claims the endpoints that no other task holds.
LEMMA ClaimKeepsTasks ==
    ASSUME TasksInv, NEW t \in Tasks, Claim(t) PROVE TasksInv'
  <1> DEFINE q == [task[t] EXCEPT !.pc = "probing", !.toProbe = {},
                                  !.queue = task[t].toProbe \ inFlight]
  <1>1. GoodTask(task[t]) /\ task[t].pc = "claiming" /\ task[t] \in Task
    BY DEF TasksInv, Claim, GoodTask
  <1>2. task[t].queue = {} /\ task[t].running = {} /\ Held(t) = {}
    BY <1>1 DEF GoodTask, HeldBy, Held
  <1>3. /\ q \in Task /\ q.pc = "probing" /\ q.queue = task[t].toProbe \ inFlight
        /\ q.running = task[t].running /\ q.block = task[t].block
        /\ q.verified = task[t].verified
    BY <1>1 DEF Task
  <1>4. task' = [task EXCEPT ![t] = q] /\ nature' = nature
        /\ inFlight' = inFlight \cup task[t].toProbe
    BY <1>2 DEF Claim, TasksInv
  <1> HIDE DEF q
  <1>5. GoodTask(q)
    BY <1>1, <1>2, <1>3 DEF GoodTask, ServesWhatItVerified
  <1>6. HeldBy(q) = task[t].toProbe \ inFlight
    BY <1>2, <1>3 DEF HeldBy
  <1>7. inFlight = Others(t)
    BY <1>2, HeldByOthers
  <1> QED
    BY <1>4, <1>5, <1>6, <1>7, OneTaskSteps

\* A claimed endpoint's probe gets a slot.
LEMMA StartKeepsTasks ==
    ASSUME TasksInv, NEW t \in Tasks, NEW e \in Endpoints, StartProbe(t, e) PROVE TasksInv'
  <1> DEFINE q == [task[t] EXCEPT !.queue = @ \ {e}, !.running = @ \cup {e}]
  <1>1. GoodTask(task[t]) /\ task[t] \in Task /\ e \in task[t].queue
    BY DEF TasksInv, StartProbe, GoodTask
  <1>2. /\ q \in Task /\ q.pc = task[t].pc /\ q.queue = task[t].queue \ {e}
        /\ q.running = task[t].running \cup {e} /\ q.block = task[t].block
        /\ q.verified = task[t].verified
    BY <1>1 DEF Task
  <1>3. task' = [task EXCEPT ![t] = q] /\ nature' = nature /\ inFlight' = inFlight
    BY DEF StartProbe, TasksInv
  <1> HIDE DEF q
  <1>4. IsFiniteSet(q.running) /\ Cardinality(q.running) <= Concurrency
    <2>1. IsFiniteSet(task[t].running) /\ Cardinality(task[t].running) < Concurrency
      BY <1>1 DEF GoodTask, StartProbe
    <2>2. /\ IsFiniteSet(task[t].running \cup {e}) /\ Cardinality(task[t].running) \in Nat
          /\ Cardinality(task[t].running \cup {e}) \in
                {Cardinality(task[t].running), Cardinality(task[t].running) + 1}
      BY <2>1, FS_AddElement, FS_CardinalityType
    <2> QED
      BY <1>2, <2>1, <2>2, ProberAssumption
  <1>5. task[t].pc = "probing"
    BY <1>1 DEF GoodTask, HeldBy, Task
  <1>6. GoodTask(q)
    BY <1>1, <1>2, <1>4, <1>5 DEF GoodTask, ServesWhatItVerified
  <1>7. HeldBy(q) = Held(t)
    BY <1>1, <1>2 DEF HeldBy, Held
  <1>8. HeldBy(q) \cap Others(t) = {}
    BY <1>7, HeldByOthers
  <1> QED
    BY <1>3, <1>6, <1>7, <1>8, HeldByOthers, OneTaskSteps

\* A probe ends; what its node verified goes with the task.
LEMMA EndKeepsTasks ==
    ASSUME TasksInv, NEW t \in Tasks, NEW e \in Endpoints, Ends(t, e),
           NEW head \in {task[t].verified[e]} \cup Blocks,
           nature[e] = "honest" /\ head # task[t].verified[e]
              => HasState(e, Target(head, task[t].block), head),
           task' = [task EXCEPT ![t].running = @ \ {e}, ![t].verified[e] = head]
    PROVE  TasksInv'
  <1> DEFINE q == [task[t] EXCEPT !.running = @ \ {e}, !.verified[e] = head]
  <1>1. GoodTask(task[t]) /\ task[t] \in Task /\ e \in task[t].running
    BY DEF TasksInv, Ends, GoodTask
  <1>2. task[t].verified \in [Endpoints -> Option] /\ head \in -1 .. MaxBlock /\ head \in Option
    BY <1>1, CapabilityAssumption DEF Task, GoodTask, Blocks, Option, None
  <1>3. /\ q \in Task /\ q.pc = task[t].pc /\ q.queue = task[t].queue
        /\ q.running = task[t].running \ {e} /\ q.block = task[t].block
        /\ q.verified = [task[t].verified EXCEPT ![e] = head]
    BY <1>1, <1>2 DEF Task
  <1>4. task' = [task EXCEPT ![t] = q] /\ nature' = nature /\ inFlight' = inFlight \ {e}
    BY DEF Ends, TasksInv
  <1> HIDE DEF q
  <1>5. IsFiniteSet(q.running) /\ Cardinality(q.running) <= Concurrency
    <2>1. IsFiniteSet(task[t].running) /\ Cardinality(task[t].running) <= Concurrency
          /\ q.running \in SUBSET task[t].running
      BY <1>1, <1>3 DEF GoodTask
    <2>2. /\ IsFiniteSet(q.running) /\ Cardinality(q.running) <= Cardinality(task[t].running)
          /\ Cardinality(q.running) \in Nat /\ Cardinality(task[t].running) \in Nat
      BY <2>1, FS_Subset, FS_CardinalityType
    <2> QED
      BY <2>1, <2>2, ProberAssumption
  <1>6. task[t].pc = "probing"
    BY <1>1 DEF GoodTask, HeldBy, Task
  <1>7. ServesWhatItVerified(q) /\ \A f \in Endpoints : q.verified[f] \in -1 .. MaxBlock
    BY <1>1, <1>2, <1>3 DEF GoodTask, ServesWhatItVerified
  <1>8. GoodTask(q)
    BY <1>1, <1>3, <1>5, <1>6, <1>7 DEF GoodTask
  <1>9. HeldBy(q) = Held(t) \ {e} /\ e \in Held(t)
    BY <1>1, <1>3 DEF GoodTask, HeldBy, Held
  <1>10. Held(t) \cap Others(t) = {} /\ inFlight = Others(t) \cup Held(t)
    BY HeldByOthers
  <1>11. inFlight' = Others(t) \cup HeldBy(q) /\ HeldBy(q) \cap Others(t) = {}
    BY <1>4, <1>9, <1>10
  <1> QED
    BY <1>4, <1>8, <1>11, OneTaskSteps, Zenon

\* A task that is over, or dropped, holds nothing any more.
LEMMA QuitKeepsTasks ==
    ASSUME TasksInv, NEW t \in Tasks, inFlight' = inFlight \ Held(t),
           task' = [task EXCEPT ![t] = NoTask], nature' = nature
    PROVE  TasksInv'
  <1>1. HeldBy(NoTask) = {}
    BY DEF HeldBy, NoTask
  <1> QED
    BY <1>1, NoTaskIsGood, HeldByOthers, OneTaskSteps

LEMMA NoTasksAreGood ==
    ASSUME inFlight = {}, task = [t \in Tasks |-> NoTask] PROVE TasksInv
  <1>1. \A t \in Tasks : task[t] = NoTask /\ Held(t) = {}
    BY DEF Held, NoTask
  <1> QED
    BY <1>1, NoTaskIsGood DEF TasksInv, InFlightIsExact, GoodTask

-----------------------------------------------------------------------------
(***************************************************************************)
(* The whole.                                                              *)
(***************************************************************************)
ProberInv == RecordsInv /\ TasksInv

\* Heads are blocks and only grow, so that state once dropped stays dropped.
LEMMA HeadsGrow ==
    ASSUME NEW t \in Nat, NEW u \in Nat, t <= u, u <= MaxBlock, NEW k \in Nat
    PROVE  Minus(t, k) \in Blocks /\ Minus(t, k) <= Minus(u, k)
  BY CapabilityAssumption DEF Minus, Blocks

LEMMA ProberInitially == ProberInit => ProberInv
  <1> SUFFICES ASSUME ProberInit PROVE ProberInv
    OBVIOUS
  <1>1. TypeOK /\ \A e \in Endpoints : entries[e] = Blank /\ saved[e] = Blank
    BY SoundInitially DEF ProberInit, Init, SoundStore
  <1>2. \A e \in Endpoints : GoodRecord(e, Blank)
    BY BlankIsSound DEF GoodRecord, TrueOf, Blank
  <1>3. nature \in [Endpoints -> Natures] /\ tip \in Blocks
    BY ProberAssumption, CapabilityAssumption DEF ProberInit, Blocks
  <1> QED
    BY <1>1, <1>2, <1>3, NoTasksAreGood DEF ProberInit, ProberInv, RecordsInv

\* A probe ends, with a finding, ...
LEMMA ConcludeKeeps ==
    ASSUME ProberInv, NEW t \in Tasks, NEW e \in Endpoints, Conclude(t, e) PROVE ProberInv'
  <1> DEFINE block == task[t].block
             head == HeadOf(e)
  <1>1. GoodTask(task[t]) /\ e \in task[t].running /\ block \in Asked
    BY DEF ProberInv, TasksInv, Conclude, Ends, GoodTask, HeldBy
  <1>2. nature[e] \in Natures /\ head \in Blocks /\ head # None
    BY HeadsGrow, ProberAssumption, CapabilityAssumption
       DEF ProberInv, RecordsInv, HeadOf, Blocks, None
  <1> HIDE DEF head
  <1>3. PICK finding \in Findings[e][nature[e]][block][head] :
          LET outcome == finding[1]
              seen == finding[2].n
          IN  /\ IF finding[2].is = Good
                 THEN Records(e, outcome, Target(seen, block), seen)
                 ELSE NoteProbeFailure(e) /\ UNCHANGED live
              /\ task' = [task EXCEPT ![t].running = @ \ {e},
                            ![t].verified[e] = IF outcome = "Verified" THEN seen ELSE @]
    BY Zenon DEF Conclude, head
  <1>4. /\ Truthful(e, nature[e], block, head, finding[1])
        /\ finding[2].is = Good => finding[2].n = head
        /\ finding[2].is # Good => finding[1] = "Failed"
        /\ finding[1] \in {"Verified", "Pruned", "Liar"} => Target(head, block) \in Blocks
    BY <1>1, <1>2, FindingsAreTruthful
  <1>5. (\E new : GoodRecord(e, new) /\ Revises(e, new)) /\ live' \in Option
    <2>1. now' = now
      BY DEF Conclude
    <2>2. CASE finding[2].is = Good
      <3>1. Records(e, finding[1], Target(head, block), head)
        BY <1>3, <1>4, <2>2
      <3> QED
        BY <1>1, <1>2, <1>4, <2>1, <3>1, TruthRevises DEF ProberInv, head
    <2>3. CASE finding[2].is # Good
      BY <1>3, <2>1, <2>3, FailureRevises DEF ProberInv, RecordsInv, TypeOK
    <2> QED
      BY <2>2, <2>3
  <1>6. UNCHANGED <<nature, tip>> /\ Ends(t, e)
    BY DEF Conclude, Ends
  <1>7. RecordsInv'
    BY <1>5, <1>6, RevisionKeeps DEF ProberInv
  <1>8. TasksInv'
    <2> DEFINE told == IF finding[1] = "Verified" THEN finding[2].n ELSE task[t].verified[e]
    <2>1. task' = [task EXCEPT ![t].running = @ \ {e}, ![t].verified[e] = told]
      BY <1>3
    <2>2. told \in {task[t].verified[e]} \cup Blocks
      BY <1>2, <1>4
    <2>3. nature[e] = "honest" /\ told # task[t].verified[e]
            => HasState(e, Target(told, block), told)
      BY <1>4 DEF Truthful
    <2> HIDE DEF told
    <2> QED
      BY <1>6, <2>1, <2>2, <2>3, EndKeepsTasks DEF ProberInv
  <1> QED
    BY <1>7, <1>8 DEF ProberInv

\* ... or at its deadline.
LEMMA OverrunKeeps ==
    ASSUME ProberInv, NEW t \in Tasks, NEW e \in Endpoints, Overrun(t, e) PROVE ProberInv'
  <1>1. HeadOf(e) \in Blocks
    BY HeadsGrow, ProberAssumption, CapabilityAssumption DEF ProberInv, RecordsInv, HeadOf, Blocks
  <1>2. live' \in Option
    BY <1>1, NoteHeadType, CapabilityAssumption
       DEF Overrun, ProberInv, RecordsInv, TypeOK, Blocks
  <1>3. \E new : GoodRecord(e, new) /\ Revises(e, new)
    BY FailureRevises DEF Overrun, ProberInv
  <1>4. UNCHANGED <<nature, tip>> /\ Ends(t, e)
    BY DEF Overrun, Ends
  <1>5. RecordsInv'
    BY <1>2, <1>3, <1>4, RevisionKeeps DEF ProberInv
  <1>6. task[t] \in Task /\ DOMAIN task = Tasks /\ task = [u \in Tasks |-> task[u]]
    BY DEF ProberInv, TasksInv, GoodTask
  <1>7. task' = [task EXCEPT ![t].running = @ \ {e}, ![t].verified[e] = task[t].verified[e]]
    <2>1. [task[t].verified EXCEPT ![e] = task[t].verified[e]] = task[t].verified
      BY <1>6 DEF Task
    <2>2. task' = [task EXCEPT ![t].running = @ \ {e}]
      BY DEF Overrun
    <2> QED
      BY <1>6, <2>1, <2>2 DEF Task
  <1>8. TasksInv'
    BY <1>4, <1>7, EndKeepsTasks DEF ProberInv
  <1> QED
    BY <1>5, <1>8 DEF ProberInv

\* A step that leaves the tasks alone, or the records.
LEMMA RecordsAloneKept ==
    ASSUME ProberInv, UNCHANGED <<nature, inFlight, task>> PROVE TasksInv'
  BY DEF ProberInv, TasksInv, InFlightIsExact, Held, GoodTask, ServesWhatItVerified

LEMMA TasksAloneKept ==
    ASSUME ProberInv, UNCHANGED <<vars, nature, tip>> PROVE RecordsInv'
  BY DEF ProberInv, RecordsInv, vars, TypeOK, GoodRecord, TrueOf, HeadOf

LEMMA ProberPreserved == ProberInv /\ [ProberNext]_proberVars => ProberInv'
  <1> SUFFICES ASSUME ProberInv, [ProberNext]_proberVars PROVE ProberInv'
    OBVIOUS
  <1>1. CASE UNCHANGED proberVars
    BY <1>1, RecordsAloneKept, TasksAloneKept DEF ProberInv, proberVars
  <1>2. ASSUME NEW c \in Callers, NEW block \in Asked, NEW healthy \in SUBSET Endpoints,
               Look(c, block, healthy)
        PROVE  ProberInv'
    <2>1. UNCHANGED <<vars, nature, tip>>
      BY <1>2 DEF Look
    <2> QED
      BY <1>2, <2>1, LookKeepsTasks, TasksAloneKept DEF ProberInv
  <1>3. ASSUME NEW t \in Tasks, Claim(t) PROVE ProberInv'
    BY <1>3, ClaimKeepsTasks, TasksAloneKept DEF ProberInv, Claim
  <1>4. ASSUME NEW t \in Tasks, Return(t) PROVE ProberInv'
    <2>1. Held(t) = {}
      BY <1>4 DEF Return, Done, Held
    <2> QED
      BY <1>4, <2>1, QuitKeepsTasks, TasksAloneKept DEF ProberInv, Return
  <1>5. ASSUME NEW t \in Tasks, NEW e \in Endpoints, StartProbe(t, e) PROVE ProberInv'
    BY <1>5, StartKeepsTasks, TasksAloneKept DEF ProberInv, StartProbe
  <1>6. ASSUME NEW t \in Tasks, NEW e \in Endpoints, Conclude(t, e) \/ Overrun(t, e)
        PROVE  ProberInv'
    BY <1>6, ConcludeKeeps, OverrunKeeps
  <1>7. ASSUME NEW c \in Callers, Abandon(c) PROVE ProberInv'
    <2>1. c \in Tasks
      BY DEF Tasks
    <2> QED
      BY <1>7, <2>1, QuitKeepsTasks, TasksAloneKept DEF ProberInv, Abandon, Held
  <1>8. CASE Reboot
    <2>1. \A e \in Endpoints : GoodRecord(e, FreshAt(saved[e], now))
      BY LifetimesAreNoMarks DEF ProberInv, RecordsInv
    <2>2. entries' = [e \in Endpoints |-> FreshAt(saved[e], now)]
      BY <1>8 DEF Reboot, Restart, Saved
    <2>3. entries' \in [Endpoints -> Capability]
      BY <2>1, <2>2 DEF GoodRecord, Sound
    <2>4. TypeOK' /\ UNCHANGED <<nature, tip, saved>>
      BY <1>8, <2>3 DEF Reboot, Restart, ProberInv, RecordsInv, TypeOK, Option
    <2>5. (\A e \in Endpoints : GoodRecord(e, entries[e]) /\ GoodRecord(e, saved[e]))'
      BY <2>1, <2>2, <2>4 DEF ProberInv, RecordsInv, GoodRecord, TrueOf, HeadOf
    <2>6. TasksInv'
      <3>1. inFlight' = {} /\ task' = [t \in Tasks |-> NoTask]
        BY <1>8 DEF Reboot
      <3>2. \A t \in Tasks : task'[t] = NoTask /\ Held(t)' = {}
        BY <3>1 DEF Held, NoTask
      <3>3. GoodTask(NoTask)'
        BY NoTaskIsGood, <2>4 DEF GoodTask, ServesWhatItVerified
      <3>4. (\A t \in Tasks : GoodTask(task[t]))'
        BY <3>2, <3>3 DEF GoodTask, ServesWhatItVerified
      <3>5. InFlightIsExact'
        BY <3>1, <3>2, NoTaskIsGood DEF InFlightIsExact, GoodTask
      <3> QED
        BY <3>1, <3>4, <3>5 DEF TasksInv
    <2> QED
      BY <2>4, <2>5, <2>6 DEF ProberInv, RecordsInv
  <1>9. CASE NewBlock
    <2>1. UNCHANGED <<vars, nature, inFlight, task>> /\ tip' = tip + 1 /\ tip' \in Blocks
      BY <1>9, CapabilityAssumption DEF NewBlock, ProberInv, RecordsInv, Blocks
    <2>2. \A e \in Endpoints : HeadOf(e) \in Nat /\ HeadOf(e)' \in Nat /\ HeadOf(e) <= HeadOf(e)'
      BY <2>1, HeadsGrow, ProberAssumption, CapabilityAssumption
         DEF ProberInv, RecordsInv, HeadOf, Blocks
    <2>3. ASSUME NEW e \in Endpoints, NEW c, GoodRecord(e, c)
          PROVE  c.prunedBlock # None /\ nature[e] = "honest"
                    => ~HasState(e, Minus(c.prunedBlock, WalkBack + 1), HeadOf(e)')
      <3> SUFFICES ASSUME c.prunedBlock # None, nature[e] = "honest"
                   PROVE  ~HasState(e, Minus(c.prunedBlock, WalkBack + 1), HeadOf(e)')
        OBVIOUS
      <3>1. c.prunedBlock \in Nat
        BY <2>3 DEF GoodRecord, Sound, Capability, Option
      <3>2. Minus(c.prunedBlock, WalkBack + 1) \in Nat
        BY <3>1, ProberAssumption DEF Minus
      <3>3. ~HasState(e, Minus(c.prunedBlock, WalkBack + 1), HeadOf(e))
        BY <2>3 DEF GoodRecord, TrueOf
      <3> QED
        BY <2>2, <3>2, <3>3, StateIsMonotonic
    <2>4. (\A e \in Endpoints : GoodRecord(e, entries[e]) /\ GoodRecord(e, saved[e]))'
      BY <2>1, <2>3 DEF ProberInv, RecordsInv, GoodRecord, TrueOf, vars
    <2> QED
      BY <2>1, <2>4, RecordsAloneKept DEF ProberInv, RecordsInv, TypeOK, vars
  <1>10. CASE Wait
    <2>1. /\ now' \in Nat
          /\ UNCHANGED <<entries, live, saved, owing, missed, nature, tip, inFlight, task>>
      BY <1>10 DEF Wait, Tick, ProberInv, RecordsInv, TypeOK
    <2> QED
      BY <2>1, RecordsAloneKept DEF ProberInv, RecordsInv, TypeOK, GoodRecord, TrueOf, HeadOf
  <1>11. CASE Write
    <2>1. /\ owing' \in BOOLEAN /\ missed' \in BOOLEAN
          /\ saved' = Saved(entries) \/ saved' = saved
          /\ UNCHANGED <<now, entries, live, nature, tip, inFlight, task>>
      BY <1>11 DEF Write, Persist, PersistFails
    <2>2. \A e \in Endpoints : GoodRecord(e, saved'[e])
      <3>1. \A e \in Endpoints : GoodRecord(e, FreshAt(entries[e], now))
        BY LifetimesAreNoMarks DEF ProberInv, RecordsInv
      <3>2. \A e \in Endpoints : GoodRecord(e, saved[e])
        BY DEF ProberInv, RecordsInv
      <3> QED
        BY <2>1, <3>1, <3>2 DEF Saved
    <2>3. saved' \in [Endpoints -> Capability]
      <3>1. \A e \in Endpoints : saved'[e] \in Capability
        BY <2>2 DEF GoodRecord, Sound
      <3> QED
        BY <2>1, <3>1 DEF Saved, ProberInv, RecordsInv, TypeOK
    <2>4. (\A e \in Endpoints : GoodRecord(e, entries[e]) /\ GoodRecord(e, saved[e]))'
      BY <2>1, <2>2 DEF ProberInv, RecordsInv, GoodRecord, TrueOf, HeadOf
    <2> QED
      BY <2>1, <2>3, <2>4, RecordsAloneKept DEF ProberInv, RecordsInv, TypeOK
  <1> QED
    BY <1>1, <1>2, <1>3, <1>4, <1>5, <1>6, <1>7, <1>8, <1>9, <1>10, <1>11 DEF ProberNext, Probe

LEMMA ProberInvariant == ProberSpec => []ProberInv
  BY ProberInitially, ProberPreserved, PTL DEF ProberSpec

(***************************************************************************)
(* The probes' bookkeeping has its types: no more than Concurrency probes  *)
(* of a task run at once, and heads and records are what they should be.   *)
(***************************************************************************)
THEOREM ProberTyped == ProberSpec => []ProberTypeOK
  <1>1. ProberInv => ProberTypeOK
    <2> SUFFICES ASSUME ProberInv PROVE ProberTypeOK
      OBVIOUS
    <2>1. task \in [Tasks -> Task]
      BY DEF ProberInv, TasksInv, GoodTask
    <2> QED
      BY <2>1 DEF ProberInv, RecordsInv, TasksInv, GoodTask, ProberTypeOK
  <1> QED
    BY <1>1, ProberInvariant, PTL

(***************************************************************************)
(* in_flight is exact, for any number of calls, background tasks and       *)
(* endpoints, whatever is dropped, overruns or dies.                       *)
(***************************************************************************)
THEOREM NoProbeIsLostOrDoubled == ProberSpec => []InFlightIsExact
  <1>1. ProberInv => InFlightIsExact
    BY DEF ProberInv, TasksInv
  <1> QED
    BY <1>1, ProberInvariant, PTL

(***************************************************************************)
(* No honest node is ever accused, and a node that ignores the block tag   *)
(* is not taken for verified where the walk finds a transaction, for any   *)
(* chain, walk, window, lag, and failing call.                             *)
(***************************************************************************)
THEOREM AccusationsAreTrue == ProberSpec => []LiarsAreTold
  <1>1. ProberInv => LiarsAreTold
    BY DEF ProberInv, RecordsInv, GoodRecord, TrueOf, LiarsAreTold
  <1> QED
    BY <1>1, ProberInvariant, PTL

(***************************************************************************)
(* The pruned mark of an honest node is at most a walk above what it has   *)
(* dropped.                                                                *)
(***************************************************************************)
THEOREM MarksAreNear == ProberSpec => []PrunedNearMark
  <1>1. ProberInv => PrunedNearMark
    BY DEF ProberInv, RecordsInv, GoodRecord, TrueOf, PrunedNearMark
  <1> QED
    BY <1>1, ProberInvariant, PTL

(***************************************************************************)
(* A probing call returns some endpoint if it knows or verified any, and   *)
(* of the honest ones it probed only those that had the state it needs,    *)
(* and none that lags behind another.                                      *)
(***************************************************************************)
THEOREM ProbingServes == ProberSpec => []ProbedServe
  <1>1. ASSUME ProberInv, NEW c \in Callers
        PROVE  LET probed == {e \in Endpoints : task[c].verified[e] # None}
               IN  /\ task[c].accepted \cup probed # {} => Returned(c) # {}
                   /\ \A e \in Returned(c) \cap probed : nature[e] = "honest" =>
                         LET head == task[c].verified[e]
                         IN  HasState(e, Target(head, task[c].block), head)
                   /\ \A e \in Returned(c) \ task[c].accepted, f \in probed :
                         task[c].block = Latest
                            => task[c].verified[f] <= task[c].verified[e] + MaxHeadLag
    <2> DEFINE probed == {e \in Endpoints : task[c].verified[e] # None}
               heads == {task[c].verified[e] : e \in Endpoints}
    <2>1. GoodTask(task[c])
      BY <1>1 DEF ProberInv, TasksInv, Tasks
    <2>2. \A e \in probed : nature[e] = "honest" =>
             HasState(e, Target(task[c].verified[e], task[c].block), task[c].verified[e])
      BY <2>1 DEF GoodTask, ServesWhatItVerified
    <2>3. ASSUME probed # {} PROVE Max(heads) \in heads /\ \A y \in heads : y <= Max(heads)
      <3>1. heads # {} /\ heads \subseteq -1 .. MaxBlock
        BY <2>1, <2>3 DEF GoodTask
      <3> HIDE DEF heads
      <3>2. -1 \in Int /\ MaxBlock \in Int
        BY CapabilityAssumption
      <3> QED
        BY <3>1, <3>2, MaxOfInterval
    <2>4. ASSUME probed # {} PROVE Max(heads) \in Nat
      <3>1. heads \subseteq -1 .. MaxBlock
        BY <2>1 DEF GoodTask
      <3>2. PICK f \in probed : f \in Endpoints
        BY <2>4
      <3>3. task[c].verified[f] \in heads /\ task[c].verified[f] \in Nat
        BY <3>1, <3>2 DEF None
      <3> HIDE DEF heads
      <3>4. task[c].verified[f] <= Max(heads)
        BY <2>3, <2>4, <3>3, Zenon
      <3>5. \A x \in -1 .. MaxBlock : x \in Int
        OBVIOUS
      <3>6. Max(heads) \in Int
        BY <2>3, <2>4, <3>1, <3>5
      <3> QED
        BY <3>3, <3>4, <3>6
    <2>5. ASSUME probed # {} PROVE Returned(c) # {}
      <3>1. PICK e \in Endpoints : task[c].verified[e] = Max(heads)
        BY <2>3, <2>5
      <3>2. Max(heads) \in Nat
        BY <2>4, <2>5
      <3>3. ~(task[c].verified[e] + MaxHeadLag < Max(heads))
        BY <3>1, <3>2, ProberAssumption
      <3>4. e \notin Lagging(c)
        BY <3>3 DEF Lagging
      <3>5. e \in probed
        BY <3>1, <3>2 DEF None
      <3> QED
        BY <3>4, <3>5 DEF Returned
    <2>6. task[c].accepted # {} => Returned(c) # {}
      BY DEF Returned
    <2>7. ASSUME NEW e \in Returned(c) \ task[c].accepted, NEW f \in probed, task[c].block = Latest
          PROVE  task[c].verified[f] <= task[c].verified[e] + MaxHeadLag
      <3>1. e \in Endpoints /\ e \notin Lagging(c)
        BY <2>7 DEF Returned
      <3>2. ~(task[c].verified[e] + MaxHeadLag < Max(heads))
        BY <2>7, <3>1 DEF Lagging
      <3>3. task[c].verified[f] \in heads
        BY <2>7
      <3>4. task[c].verified[e] \in Int /\ task[c].verified[f] \in Int
        BY <2>1, <2>7, <3>1 DEF GoodTask, Task, Option, None
      <3> HIDE DEF heads
      <3>5. task[c].verified[f] <= Max(heads) /\ Max(heads) \in Nat
        BY <2>3, <2>4, <2>7, <3>3
      <3> QED
        BY <3>2, <3>4, <3>5, ProberAssumption
    <2> QED
      BY <2>2, <2>5, <2>6, <2>7
  <1>2. ProberInv => ProbedServe
    BY <1>1 DEF ProbedServe
  <1> QED
    BY <1>2, ProberInvariant, PTL

=============================================================================
