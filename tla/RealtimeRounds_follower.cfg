CONSTANTS
  None = None
  Procs = {p1, p2}
  KeyCount = 2
  Lapses = {"idle", "loading", "forced"}
  MaxAnswers = 2
  MaxEdits = 0
  MaxEvents = 0
SPECIFICATION Spec
PROPERTIES FollowerServesCurrent
