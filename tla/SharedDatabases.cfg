SPECIFICATION SharedSpec
CONSTANTS
  DefaultKeep <- Half
  LookupSize = 1000
  Keys = {k1}
  Texts = {hello}
  NoText = NoText
  Tags = {a1, a2}
  Metadata = {}
  NoMetadata = NoMetadata
  Policy <- DefaultPolicy
  Absent = Absent
  Adapters = {a1, a2}
  MaxLoaded = 1
  Payloads <- Fresh
  Steps = {}
  Thresholds = {}
  MaxAge = 1
  Faults = {"save", "load"}
  Done = Done
  Raised = Raised
  Crashed = Crashed
  TopN = 1
  One = 4
  EvictionThreshold = 2
  Override <- NoOverride
  Interval = 1
  MaxIdle = 1
  Deltas = {}
  Boosts = {}
  LeastSalience = 0
  Edits <- Worthless
  Levels = {}
  HintLists <- BothOrders
  NoKey = NoKey
  MaxAsked = 1
SYMMETRY Symmetry
INVARIANT SharedTypeOK
PROPERTIES RowsSurvive RepeatedOnlyIfUndone
