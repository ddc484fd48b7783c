---------------------------- MODULE ExtremaProofs ----------------------------
(***************************************************************************)
(* Min and Max of FiniteSetsExt are chosen; these lemmas say that there is *)
(* something to choose.  They are what the proofs about walks over blocks  *)
(* and about batches rest on.                                              *)
(***************************************************************************)
EXTENDS Integers, FiniteSetsExt, WellFoundedInduction, TLAPS

Less == {pair \in Nat \X Nat : pair[1] < pair[2]}

\* The order of the natural numbers is well-founded.
LEMMA LessIsWellFounded == IsWellFoundedOn(Less, Nat)
  <1>1. OpToRel(<, Nat) = Less
    BY Zenon DEF OpToRel, Less
  <1> QED
    BY <1>1, NatLessThanWellFounded, Zenon

\* A set of natural numbers has a least element.
LEMMA LeastExists ==
    ASSUME NEW T, T \subseteq Nat, T # {}
    PROVE  \E x \in T : \A y \in T : x <= y
  <1>1. \E x \in T : \A y \in T : ~(<<y, x>> \in Less)
    BY WFMin, LessIsWellFounded, Zenon
  <1>2. \A m, n \in Nat : n < m => <<n, m>> \in Less
    BY DEF Less
  <1>3. \A m, n \in Nat : ~(n < m) => m <= n
    OBVIOUS
  <1> QED
    BY <1>1, <1>2, <1>3

\* A function to the natural numbers is least somewhere.
LEMMA LeastBy ==
    ASSUME NEW S, S # {}, NEW f, \A x \in S : f[x] \in Nat
    PROVE  \E x \in S : \A y \in S : f[x] <= f[y]
  <1>1. {f[x] : x \in S} \subseteq Nat /\ {f[x] : x \in S} # {}
    OBVIOUS
  <1>2. PICK m \in {f[x] : x \in S} : \A k \in {f[x] : x \in S} : m <= k
    BY <1>1, LeastExists, Zenon
  <1> QED
    BY <1>2

\* Min is the least element.
LEMMA MinIsLeast ==
    ASSUME NEW S, S \subseteq Nat, S # {}
    PROVE  Min(S) \in S /\ \A y \in S : Min(S) <= y
  BY LeastExists DEF Min

\* Max is the greatest element of a bounded set of integers, ...
LEMMA MaxOfInterval ==
    ASSUME NEW a \in Int, NEW n \in Int, NEW S, S \subseteq a .. n, S # {}
    PROVE  Max(S) \in S /\ \A y \in S : y <= Max(S)
  <1> DEFINE Mirror == {n - x : x \in S}
  <1>1. \A x \in S : x \in Int /\ n - x \in Nat
    OBVIOUS
  <1>2. Mirror \subseteq Nat
    BY <1>1
  <1>3. Mirror # {}
    OBVIOUS
  <1>4. PICK d \in Mirror : \A y \in Mirror : d <= y
    <2> HIDE DEF Mirror
    <2> QED
      BY <1>2, <1>3, LeastExists
  <1>5. PICK x \in S : d = n - x
    BY <1>4
  <1>6. \A y \in S : y <= x
    <2> TAKE y \in S
    <2>1. n - x <= n - y
      BY <1>4, <1>5
    <2> QED
      BY <2>1, <1>1
  <1>7. \E z \in S : \A y \in S : z >= y
    BY <1>1, <1>6
  <1>8. Max(S) \in S /\ \A y \in S : Max(S) >= y
    BY <1>7 DEF Max
  <1> QED
    BY <1>1, <1>8

\* ... or of natural numbers.
LEMMA MaxIsGreatest ==
    ASSUME NEW n \in Nat, NEW S, S \subseteq 0 .. n, S # {}
    PROVE  Max(S) \in S /\ \A y \in S : y <= Max(S)
  <1>1. 0 \in Int /\ n \in Int
    OBVIOUS
  <1> QED
    BY <1>1, MaxOfInterval, Zenon

=============================================================================
