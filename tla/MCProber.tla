------------------------------ MODULE MCProber ------------------------------
(***************************************************************************)
(* Small instances of Prober: a pruned node and one that ignores blocks.   *)
(***************************************************************************)
EXTENDS Prober, TLC

CONSTANTS pruned, odd

MCMayBe == pruned :> {"honest"} @@ odd :> {"ignoresBlock", "answersZero"}
MCWindow == pruned :> 2 @@ odd :> 1
MCLag == pruned :> 0 @@ odd :> 1
MCAsked == {Latest, 2}
MCHeads == Blocks \cup {None}
MCTxBlocks == {1, 2}

\* Nothing of the prober reads whether the last write failed.
View == <<now, entries, live, saved, owing, nature, tip, inFlight, task>>

=============================================================================
