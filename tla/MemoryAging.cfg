SPECIFICATION Spec
CONSTANTS
  DefaultKeep <- Half
  LookupSize = 4
  Policies <- AllPolicies
  Saliences = {0, 1, 2, 3, 5, 8, 13, 16}
  Thresholds = {1, 2, 3, 5, 8}
  MaxAge = 6
  Deltas <- MixedDeltas
  MaxSyncs = 4
INVARIANTS PredictionIsTight DriftPerSync
PROPERTY DecayNeverRises
CHECK_DEADLOCK FALSE
