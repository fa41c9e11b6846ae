---------------------------- MODULE MCSiteContent ----------------------------
(* A resource room that may be renamed once, two categories, a post, two       *)
(* albums and one picture, two texts: three requests of any kind after each    *)
(* other on an empty or on a grown site, with one failure among their calls.   *)
EXTENDS SiteContent
=============================================================================
