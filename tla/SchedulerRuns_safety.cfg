CONSTANTS
  r1 = r1
  r2 = r2
  j1 = j1
  j2 = j2
  None = None
  Runs <- MCRuns2
  Jobs <- MCJobs1
  JobOf <- MCJobOf1
  Modes = {"cron", "request"}
  MaxConcurrent = 2
  RetryCount = 0
  ResultStatuses = {"success"}
  SchedulerEnabled = TRUE
  MaxDrops = 1
  MaxFaults = 1
  MaxCrashes = 1
  MaxCancels = 1
SPECIFICATION Spec
SYMMETRY MCSymmetry
INVARIANTS NothingLeaks ExclusiveHandlers
PROPERTIES OnlyOwnerRewrites ResultStays CheckpointKept NoStaleSkip
