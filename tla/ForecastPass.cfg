CONSTANTS
  RawPlan <- MCRawPlan
  History <- MCHistory
  Instants <- MCInstants
  Sights <- MCSights
  MlDelays <- MCMlDelays
  Reach <- MCReach
  Reply <- MCReply
  MlModels = {1, 2}
  Measures <- MCMeasures
SPECIFICATION Spec
INVARIANT NothingOfAnotherSession
INVARIANT CardAgrees
INVARIANT QualityAddsUp
PROPERTY FeaturesAsOffline
PROPERTY MeasuresKeepTheirWord
CHECK_DEADLOCK FALSE
