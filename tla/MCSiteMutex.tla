----------------------------- MODULE MCSiteMutex -----------------------------
(* Three requests that compete for one site, one of a site that never locks. *)
EXTENDS SiteMutex

CONSTANTS r1, r2, r3, r4, site, e2eSite

MCRequests == {r1, r2, r3, r4}
MCSites == {site, e2eSite}
MCSiteOf == [r \in MCRequests |-> IF r = r4 THEN e2eSite ELSE site]
MCE2eTestRepos == {e2eSite}
=============================================================================
