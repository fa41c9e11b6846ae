----------------------------- MODULE MCTokenPool -----------------------------
(* Two servers, with two deaths or updates lost, one active and one reserved   *)
(* token; two requests wait for the database at a time.  Two steps of time are *)
(* enough for a booking to be made, to end and to be over.                     *)
EXTENDS TokenPool, TLC
Symmetry == Permutations(Servers) \cup Permutations(Slots)
=============================================================================
