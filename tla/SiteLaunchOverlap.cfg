SPECIFICATION LaunchSpec
CONSTANTS
  l1 = l1
  l2 = l2
  p1 = p1
  p2 = p2
  d1 = d1
  d2 = d2
  NoLaunch = NoLaunch
  Launches = {l1, l2}
  Polls = {p1, p2}
  Domains = {d1}
  MaxFailures = 0
CHECK_DEADLOCK FALSE
INVARIANT OneLaunchAtATime
