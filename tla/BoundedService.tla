--------------------------- MODULE BoundedService ---------------------------
(***************************************************************************)
(* What the proxy promises its clients, whatever its endpoints do: every   *)
(* accepted request is served once, and its service is over less than      *)
(* Limit after it was accepted.  RequestRouting implements it.             *)
(***************************************************************************)
EXTENDS Naturals

CONSTANTS Clients, Limit

VARIABLES now, phase, due

vars == <<now, phase, due>>

Init ==
    /\ now = 0
    /\ phase = [c \in Clients |-> "waiting"]
    /\ due = [c \in Clients |-> 0]

Accept(c) ==
    /\ phase[c] = "waiting"
    /\ phase' = [phase EXCEPT ![c] = "served"]
    /\ due' = [due EXCEPT ![c] = now + Limit]
    /\ UNCHANGED now

\* One request ends, or several at once when the process dies.
Finish(ended) ==
    /\ \A c \in ended : phase[c] = "served"
    /\ phase' = [c \in Clients |-> IF c \in ended THEN "over" ELSE phase[c]]
    /\ due' = [c \in Clients |-> IF c \in ended THEN 0 ELSE due[c]]
    /\ UNCHANGED now

Pass ==
    /\ \A c \in Clients : phase[c] = "served" => now + 1 < due[c]
    /\ now' = now + 1
    /\ UNCHANGED <<phase, due>>

Next ==
    \/ \E c \in Clients : Accept(c)
    \/ \E ended \in SUBSET Clients : Finish(ended)
    \/ Pass

Spec == Init /\ [][Next]_vars

=============================================================================
