CONSTANTS
  Tokens = {"t1", "t2"}
  Calls = {"c1", "c2"}
  Priority <- FirstPreferred
  Fallback = {"c1", "c2"}
  Budget <- FirstShort
  PerMinute = 1
  Window = 2
  RetryCount = 1
  Cooldown = 1
  MaxNow = 2
  MaxEdits = 1
SPECIFICATION Spec
INVARIANT WindowKept
INVARIANT FallbackSound
PROPERTY RefusalJustified
