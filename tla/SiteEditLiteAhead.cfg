\* Two edits one after the other, nothing fails: staging-lite overtakes staging on GitHub.
CONSTANTS
  r1 = r1
  r2 = r2
  r3 = r3
  r4 = r4
  page = page
  menu = menu
  image = image
  Requests <- MCTwoEdits
  OpsOf <- MCOneOp
  Files = {page, menu, image}
  FileOf <- MCFileOf
  Renames = {}
  Assets = {}
  LiteEnabled = TRUE
  PlainPushes = 1
  MaxServed = 2
  MaxFaults = 0
SPECIFICATION Spec
INVARIANT LiteNotAheadOnGitHub
CHECK_DEADLOCK FALSE
