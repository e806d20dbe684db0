SPECIFICATION FairSpec
PROPERTY KeepsItsPromise
PROPERTY AgreesInTheEnd
PROPERTY ModeShownInTheEnd
CONSTANTS
  d1 = d1  bus = bus  i1 = i1  s1 = s1  s2 = s2
  Dashboards = {d1}
  Vehicles = {bus}
  Incidents = {i1}
  Owner <- MCOwner
  Looks = {1}
  Sessions = {s1, s2}
  NoSession = NoSession
  Modes = {"LIVE", "DEGRADED"}
  ModesIn <- MCModesIn
  None = None
  QueueSize = 2  WireSize = 1
