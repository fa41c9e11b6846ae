-------------------------- MODULE ReviewDiscussion ---------------------------
(***************************************************************************)
(* The comments on the review requests of a site and what a collaborator   *)
(* is shown of them (ReviewRequestService.ts, ReviewCommentService.ts,     *)
(* review.ts).                                                             *)
(*                                                                         *)
(* Nothing records which comments somebody was sent: a row of              *)
(* review_request_views has one time, and what was written before it       *)
(* counts as read.  That time is written by a second request, when the     *)
(* page has shown the answer to the first; the row itself is also created  *)
(* by the dashboard, with no time, and deleted, with no lock taken, when   *)
(* the request ends.                                                       *)
(*                                                                         *)
(* The two handlers that write run under the lock and write one table in   *)
(* one call after their checks: each is a single step.  What the others    *)
(* show is Listed and NewComments.                                         *)
(* Left out: comments on GitHub, which are older than any written here and *)
(* of which none is added any more, and who wrote a comment.               *)
(***************************************************************************)
EXTENDS ReviewRequest, Sequences

CONSTANTS
  Texts,        \* what a comment may say
  MaxComments   \* bound: comments ever written

ASSUME ReviewDiscussionAssumption == MaxComments \in Nat

VARIABLES
  comments,     \* database: the comments; the place of each stands for its createdAt
  lastViewed    \* database: lastViewedAt, of each row in views

discussionVars == <<comments, lastViewed>>
allVars == <<vars, discussionVars>>

TypeOKDiscussion ==
  /\ comments \in Seq([n : Nums, text : Texts]) /\ Len(comments) <= MaxComments
  /\ lastViewed \in [views -> 0..MaxComments]

DiscussionInit ==
  /\ Init
  /\ comments = <<>>
  /\ lastViewed = [v \in views |-> 0]

-----------------------------------------------------------------------------
\* What getComments returns: of the comments that say the same, the first.
Listed(n) ==
  {i \in DOMAIN comments :
     /\ comments[i].n = n
     /\ \A j \in 1..(i - 1) : comments[j].n = n => comments[j].text # comments[i].text}

\* isRead: written before the viewer's lastViewedAt; a null is the beginning of time.
IsRead(u, i) ==
  LET view == <<comments[i].n, u>> IN view \in views /\ i <= lastViewed[view]

\* What the dashboard counts as new comments of request n.
NewComments(u, n) == {i \in Listed(n) : ~IsRead(u, i)}

\* POST comments.
CreateComment ==
  /\ holder = {} /\ Len(comments) < MaxComments
  /\ \E n \in linked, text \in Texts : comments' = Append(comments, [n |-> n, text |-> text])
  /\ UNCHANGED <<vars, lastViewed>>

\* POST viewedComments: the row is updated, or created, whatever has become of the request
\* and whatever comments the page had shown.
MarkCommentsViewed ==
  /\ holder = {}
  /\ \E v \in linked \X Viewers :
       /\ views' = views \cup {v}
       /\ lastViewed' = [w \in views' |-> IF w = v THEN Len(comments) ELSE lastViewed[w]]
  /\ UNCHANGED <<pull, db, call, holder, approvals, apart, faults, comments>>

\* The lastViewedAt of a row that the dashboard creates: the request was not opened yet.
NotOpened == 0

\* A step of the handlers of ReviewRequest: rows they create have no time, and rows they
\* delete lose theirs.
RequestStep ==
  /\ Next
  /\ lastViewed' = [v \in views' |-> IF v \in views THEN lastViewed[v] ELSE NotOpened]
  /\ UNCHANGED comments

DiscussionNext == RequestStep \/ CreateComment \/ MarkCommentsViewed

DiscussionSpec == DiscussionInit /\ [][DiscussionNext]_allVars

-----------------------------------------------------------------------------
(* What comments of the code say, and the code does not do                 *)

\* ReviewRequestService.ts:691: "It is a new comment to the user if any of the following
\* conditions satisfy": there is no record of his view, its lastViewedAt is NULL, or "the
\* comment has a timestamp greater than the one stored in the database".
LaterCommentsAreNew ==
  \A u \in Viewers : \A i \in DOMAIN comments :
    LET n == comments[i].n  view == <<n, u>> IN
    (view \in views => i > lastViewed[view]) => i \in NewComments(u, n)
=============================================================================
