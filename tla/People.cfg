\* Three requests of two clients: logging in, members, notifications.
CONSTANTS
  e1 = e1  e2 = e2  m1 = m1  c1 = c1  c2 = c2  u1 = u1  u2 = u2  u3 = u3  g1 = g1
  Emails = {e1, e2}
  Mobiles = {m1}
  Addresses = {e1, e2, m1}
  Ips = {c1, c2}
  Ids = {u1, u2, u3}
  IsomerAdmins = {u3}
  GitHubIds = {g1}
  Whitelisted <- MCWhitelisted
  Officer <- MCOfficer
  GitHubUser <- MCGitHubUser
  GitHubAccess = {g1}
  Slots = {s1, s2}
  Changers = {t1, t2}
  MaxAttempts = 1
  MaxSent = 2
  MaxNotes = 2
  MaxMembers = 3
  MaxRequests = 3
  NoRow = NoRow
SPECIFICATION Spec
SYMMETRY Symmetry
INVARIANTS
  UsedIsGone
  GuessesAreBounded
  SiteKeepsAnAdmin
  OneUnreadNote
\* the bound on requests stops the model
CHECK_DEADLOCK FALSE
