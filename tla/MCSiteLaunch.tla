---------------------------- MODULE MCSiteLaunch ----------------------------
(* Constants of the runs of SiteLaunch. *)
EXTENDS SiteLaunch

CONSTANTS l1, l2, p1, p2, d1, d2

=============================================================================
