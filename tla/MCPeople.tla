------------------------------ MODULE MCPeople ------------------------------
(* Two users with an e-mail address each, one of them with an account on   *)
(* GitHub too, two clients, and three requests in all.                     *)
EXTENDS People, TLC
CONSTANTS e1, e2, m1, c1, c2, u1, u2, u3, g1
MCWhitelisted == (e1 :> "ADMIN" @@ e2 :> "CONTRIBUTOR")
MCOfficer == (c1 :> {e1} @@ c2 :> {e1, e2})
MCGitHubUser == (c1 :> NoRow @@ c2 :> g1)
Symmetry == Permutations(Slots) \cup Permutations(Changers) \cup Permutations(Ids \ IsomerAdmins)
=============================================================================
