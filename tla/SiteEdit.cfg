\* Two requests at a time: an edit of two commits and one of one, on the same page, the
\* rename of the page, the edit of an image.
CONSTANTS
  r1 = r1
  r2 = r2
  r3 = r3
  r4 = r4
  page = page
  menu = menu
  image = image
  Requests <- MCRequests
  OpsOf <- MCOpsOf
  Files = {page, menu, image}
  FileOf <- MCFileOf
  Renames = {r3}
  Assets = {r4}
  LiteEnabled = TRUE
  PlainPushes = 1
  MaxServed = 2
  MaxFaults = 1
SPECIFICATION Spec
INVARIANTS
  AckedEditsSurvive
  FailedLeavesNoTrace
  NoLostUpdate
  AckedEditsArePushed
PROPERTIES
  GitHubKeepsAckedEdits
  ImplementsMutex
CHECK_DEADLOCK FALSE
