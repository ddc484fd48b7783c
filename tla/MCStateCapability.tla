-------------------------- MODULE MCStateCapability --------------------------
(***************************************************************************)
(* Small instances of StateCapability.                                     *)
(***************************************************************************)
EXTENDS StateCapability

\* The head of an observation may be behind its block.
MCHeads == {None, 1, 2}

\* No property of the records tells the live heads apart.
View == <<now, entries, saved, owing, missed>>

=============================================================================
