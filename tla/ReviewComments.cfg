\* No failure: two comments that say the same.
CONSTANTS
  c1 = c1
  c2 = c2
  author = author
  reviewer = reviewer
  editor = editor
  Calls <- MCCalls
  Users <- MCUsers
  Admins <- MCAdmins
  Viewers = {reviewer}
  MaxPulls = 1
  MaxFaults = 0
  t1 = t1
  t2 = t2
  Texts <- MCTexts
  MaxComments = 2
SPECIFICATION DiscussionSpec
INVARIANT LaterCommentsAreNew
