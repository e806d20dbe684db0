SPECIFICATION Spec
PROPERTY CoversItsBins
PROPERTY HonestAfter
PROPERTY NewestServed
PROPERTY ServedInTheEnd
CONSTANTS
  Unit = 20
  LateAfter = 120
  LeadEdges <- MCLeadEdges
  MinBin = 3
  MinFit = 2
  Callers = {c1, c2}
  Drawn <- MCDrawn
  Outputs <- MCOutputs
  Bases <- MCBases
  Leads <- MCLeads
  MaxTrainings = 2
  MaxCrashes = 1
