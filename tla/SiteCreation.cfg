\* Three requests, submissions (two at most) and changes of privacy, and two faults.
CONSTANTS
  SiteNames = {n1, n2}
  Repos = {r1, r2}
  Passwords = {p1, p2}
  NoRow = NoRow
  NoPassword = NoPassword
  MaxRequests = 3
  MaxFaults = 2
  Submissions = {f1, f2}
SPECIFICATION Spec
SYMMETRY Symmetry
INVARIANTS
  ReadyIsComplete
  RunningIsUnderWay
  PrivacyAgrees
\* the bounds stop the model
CHECK_DEADLOCK FALSE
