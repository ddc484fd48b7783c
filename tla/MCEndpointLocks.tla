--------------------------- MODULE MCEndpointLocks ---------------------------
(***************************************************************************)
(* Small instances of EndpointLocks.                                       *)
(***************************************************************************)
EXTENDS EndpointLocks, TLC

Symmetry == Permutations(Threads)

=============================================================================
