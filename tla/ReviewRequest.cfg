\* Two handlers at a time on one pull request; two admins and an editor; one failure; two
\* comments, which one of the admins marks as read.
CONSTANTS
  c1 = c1
  c2 = c2
  author = author
  reviewer = reviewer
  editor = editor
  Calls <- MCCalls
  Users <- MCUsers
  Admins <- MCAdmins
  Viewers = {reviewer}
  MaxPulls = 1
  MaxFaults = 1
  t1 = t1
  t2 = t2
  Texts <- MCTexts
  MaxComments = 2
SPECIFICATION DiscussionSpec
INVARIANTS
  RowsFollowGitHub
  MergedOnlyIfApproved
  OpenPullsAreFound
SYMMETRY MCSymmetry
