SPECIFICATION FairSpec
INVARIANT OneIncidentPerTarget
PROPERTY ResolvedIsFinal
PROPERTY EventuallySettled
CONSTANTS
  bus = bus  tram = tram  w1 = w1  w2 = w2  s1 = s1  s2 = s2
  Vehicles = {bus}
  Visits = {w1, w2}
  PlannedAt <- OneBusPlan
  Predictions <- MCPredictions
  Facts <- MCFacts
  NoFact = NoFact
  AlertMode = "or"  AlertDelay = 0  AlertLate = 5  MinStreak = 2
  RedDelay = 0  YellowDelay = 0  EarlyDelay <- MCEarlyDelay  RedLate = 5  YellowLate = 3
  UpdateStep = 1  ResolveTimeout = 1
  SessionIds = {s1}
  AutoId = AutoId  NoSession = NoSession  None = None
  HorizonLow = 1  HorizonHigh = 4  Lookahead = 5
  Warmup = 1  StaleAfter = 1  RemoveAfter = 1  History = 3  Tolerance = 1
  SmallRewind = 0
  MaxNow = 7  MaxEpoch = 1  MaxDrift = 0  MaxLag = 0
  StartTimes = {0}  AutoStarts = {}  MaySilence = FALSE
  WarmEnds = {None}  MessageStates = {"running"}
  MaxPassErrors = 1
CHECK_DEADLOCK FALSE
