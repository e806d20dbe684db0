SPECIFICATION EvalSpec
INVARIANT ReplayFindsThem
INVARIANT ScoresAgree
INVARIANT LabelsMeetForecasts
INVARIANT StartedIsWhole
PROPERTY PreparedInTheEnd
CONSTANTS
  Vehicles = {"bus", "tram"}
  Visits = {1, 2, 3}
  PlannedAt <- MCPlan
  TripOf <- MCTrips
  Predictions <- MCPredictions
  Facts = {}
  NoFact = NoFact
  AlertMode = "or"
  AlertDelay = 1
  AlertLate = 5
  MinStreak = 2
  RedDelay = 1
  YellowDelay = 1
  EarlyDelay <- MCEarly
  RedLate = 5
  YellowLate = 3
  UpdateStep = 2
  ResolveTimeout = 1
  WindowFrom = 1
  WindowTo = 4
  Schedules <- MCSchedules
  Beyond <- MCBeyond
  Required <- MCRequired
  Optional <- MCOptional
  Versions <- MCVersions
  AutoDownload = TRUE
  MaxT = 9
  Unsteady = {"bus"}
  MaxTroubles = 1
CHECK_DEADLOCK FALSE
