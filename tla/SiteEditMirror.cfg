\* A commit fails: a push of the request lands after the forced push of its rollback.
CONSTANTS
  r1 = r1
  r2 = r2
  r3 = r3
  r4 = r4
  page = page
  menu = menu
  image = image
  Requests <- MCRequests
  OpsOf <- MCOpsOf
  Files = {page, menu, image}
  FileOf <- MCFileOf
  Renames = {}
  Assets = {}
  LiteEnabled = TRUE
  PlainPushes = 1
  MaxServed = 2
  MaxFaults = 1
SPECIFICATION Spec
INVARIANT GitHubMirrorsEFS
CHECK_DEADLOCK FALSE
