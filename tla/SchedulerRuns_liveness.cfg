CONSTANTS
  r1 = r1
  r2 = r2
  j1 = j1
  j2 = j2
  None = None
  Runs <- MCRuns2
  Jobs <- MCJobs2
  JobOf <- MCJobOf2
  Modes = {"cron"}
  MaxConcurrent = 1
  RetryCount = 1
  ResultStatuses = {"success"}
  SchedulerEnabled = TRUE
  MaxDrops = 0
  MaxFaults = 0
  MaxCrashes = 1
  MaxCancels = 1
SPECIFICATION FairSpec
INVARIANT BoundedHandlers
PROPERTIES ExecutionsEnd RunsSettle
