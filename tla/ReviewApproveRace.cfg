\* No failure: an approval races with a close.
CONSTANTS
  c1 = c1
  c2 = c2
  author = author
  reviewer = reviewer
  editor = editor
  Calls <- MCCalls
  Users <- MCUsers
  Admins <- MCAdmins
  Viewers = {}
  MaxPulls = 1
  MaxFaults = 0
  t1 = t1
  t2 = t2
  Texts = {t1}
  MaxComments = 0
SPECIFICATION DiscussionSpec
PROPERTY ApprovesOnlyOpen
