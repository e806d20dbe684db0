SPECIFICATION Spec
INVARIANT NothingCarriedOver
INVARIANT CapturedTargetHolds
PROPERTY NoAlertAfterArrival
CONSTANTS
  bus = bus  tram = tram  w1 = w1  w2 = w2  s1 = s1  s2 = s2
  Vehicles = {bus}
  Visits = {w1}
  PlannedAt <- OneVisitPlan
  Predictions <- MCPredictions
  Facts = {1}
  NoFact = NoFact
  AlertMode = "or"  AlertDelay = 0  AlertLate = 5  MinStreak = 2
  RedDelay = 0  YellowDelay = 0  EarlyDelay <- MCEarlyDelay  RedLate = 5  YellowLate = 3
  UpdateStep = 1  ResolveTimeout = 1
  SessionIds = {s1, s2}
  AutoId = AutoId  NoSession = NoSession  None = None
  HorizonLow = 1  HorizonHigh = 3  Lookahead = 4
  Warmup = 1  StaleAfter = 1  RemoveAfter = 1  History = 3  Tolerance = 1
  SmallRewind = 0
  MaxNow = 5  MaxEpoch = 2  MaxDrift = 1  MaxLag = 0
  StartTimes = {0}  AutoStarts = {0}  MaySilence = FALSE
  WarmEnds = {1}  MessageStates = {"running", "paused", "stopped"}
  MaxPassErrors = 0
CHECK_DEADLOCK FALSE
