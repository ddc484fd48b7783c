-------------------------- MODULE MCRequestRouting --------------------------
(***************************************************************************)
(* Small instances of RequestRouting.                                      *)
(***************************************************************************)
EXTENDS RequestRouting, TLC

Symmetry == Permutations(Requests)

\* Endpoint 1 is the faster one.
MCLatency == [e \in Endpoints |-> IF e = 1 THEN 1 ELSE 2]

=============================================================================
