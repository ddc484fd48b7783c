---------------------------- MODULE MCStoreFiles ----------------------------
(***************************************************************************)
(* Small instances of StoreFiles.                                          *)
(***************************************************************************)
EXTENDS StoreFiles, TLC

Symmetry == Permutations(Writers)

=============================================================================
