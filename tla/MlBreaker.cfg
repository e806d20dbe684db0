SPECIFICATION FairSpec
INVARIANT LockedByFailures
PROPERTY ComesBack
PROPERTY FallsBack
CONSTANTS
  Pass = Pass
  Requests = {r1, r2}
  Threshold = 3  Pause = 3
  NotLocked = NotLocked
  MaxFailures = 4
