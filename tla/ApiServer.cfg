SPECIFICATION ApiSpec
CONSTANTS
  DefaultKeep <- Half
  LookupSize = 1000
  Keys = {k1}
  Texts = {hello}
  NoText = NoText
  Tags = {a1, a2}
  Metadata = {}
  NoMetadata = NoMetadata
  Policy <- DefaultPolicy
  Absent = Absent
  Adapters = {a1, a2}
  MaxLoaded = 1
  Payloads <- Fresh
  Steps = {1}
  Thresholds = {}
  MaxAge = 1
  Faults = {}
  Done = Done
  Raised = Raised
  Crashed = Crashed
  TopN = 1
  One = 4
  EvictionThreshold = 2
  Override <- AllIdentities
  Interval = 1
  MaxIdle = 1
  Deltas = {0, 10}
  Boosts <- BoostsTried
  LeastSalience <- Debt
  Edits <- Overdone
  Levels = {1}
  HintLists <- BothOrders
  NoKey = NoKey
SYMMETRY Symmetry
INVARIANTS ApiTypeOK NoRequestFails
PROPERTY OthersUntouched
