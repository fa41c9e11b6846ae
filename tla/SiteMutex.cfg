\* Three requests compete for one site; a fourth writes to a site exempt from locking.
CONSTANTS
  r1 = r1
  r2 = r2
  r3 = r3
  r4 = r4
  site = site
  e2eSite = e2eSite
  Requests <- MCRequests
  Sites <- MCSites
  SiteOf <- MCSiteOf
  E2eTestRepos <- MCE2eTestRepos
SPECIFICATION FairSpec
INVARIANTS
  ExclusiveUnlessOverrun
PROPERTIES
  NoTheftWithoutOverrun
  SiteComesFree
\* every request is served once and then stays done
CHECK_DEADLOCK FALSE
