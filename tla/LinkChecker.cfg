\* Two clones, repairs, a reset, two checks and one failure; or one job on a site that
\* changes between three states.
CONSTANTS
  page = page
  image = image
  repair = repair
  hasty = hasty
  hold = hold
  reset = reset
  c1 = c1
  c2 = c2
  Edits <- MCEdits
  Media <- MCMedia
  Repairs <- MCRepairs
  ModeOf <- MCModeOf
  Resets <- MCResets
  Checks <- MCChecks
  Histories <- MCHistories
  Undecodable <- MCUndecodable
  MaxFaults = 1
  MaxJobs <- MCMaxJobs
  MaxEdits <- MCMaxEdits
SPECIFICATION Spec
INVARIANTS
  AckedEditsKept
  SyncedMeansSynced
  ReviewHidesNothing
  LockHasOwner
  ReportIsRight
\* once all jobs are over nothing is left to do
CHECK_DEADLOCK FALSE
SYMMETRY Symmetry
