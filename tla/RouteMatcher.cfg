CONSTANTS
  Lines <- MCLines
  Points <- MCPoints
  ResyncN = 2
  LostN = 2
SPECIFICATION Spec
INVARIANT MatchIsCurrent
PROPERTY ForwardUnlessAcquired
CHECK_DEADLOCK FALSE
