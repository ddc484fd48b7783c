---------------------------- MODULE DurableStore ----------------------------
(***************************************************************************)
(* What a persisted store promises.  Its content is identified by the      *)
(* number of the last change in it.  The file follows memory and never     *)
(* falls back, a change whose call has returned is in the file, and a      *)
(* crash brings memory back to the file.                                   *)
(***************************************************************************)
EXTENDS Integers

VARIABLES
    latest,     \* the content of memory
    saved,      \* the content of the file
    returned    \* the newest change whose call has returned

durableVars == <<latest, saved, returned>>

DurableInit == latest = 0 /\ saved = 0 /\ returned = 0

Changes == latest' > latest /\ saved' = saved /\ returned' = returned

Saves ==
    /\ saved <= saved' /\ saved' <= latest
    /\ returned <= returned' /\ returned' <= saved'
    /\ latest' = latest

Crashes == latest' = saved /\ saved' = saved /\ returned' = returned

DurableSpec ==
    DurableInit /\ [][Changes \/ Saves \/ Crashes]_durableVars

=============================================================================
