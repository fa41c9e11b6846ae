--------------------------- MODULE MCSiteCreation ---------------------------
(* Two submissions for two site names and two repositories, with an older  *)
(* site there or not, or one and two changes of privacy, and two faults.   *)
EXTENDS SiteCreation, TLC
Symmetry == Permutations(SiteNames) \cup Permutations(Repos) \cup Permutations(Submissions) \cup Permutations(Passwords)
=============================================================================
