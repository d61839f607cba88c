CONSTANTS
  None = None
  Procs = {p1, p2}
  KeyCount = 1
  Lapses = {"idle", "loading", "forced"}
  MaxAnswers = 1
  MaxEdits = 1
  MaxEvents = 1
SPECIFICATION FairSpec
PROPERTIES RoundsGoOn EditReachesLeader
