SPECIFICATION TimeSpec
CONSTANTS
  DefaultKeep <- Half
  LookupSize = 1000
  Keys = {k1}
  Texts = {hello}
  NoText = NoText
  Tags = {a1, a2}
  Metadata = {}
  NoMetadata = NoMetadata
  Policy <- DefaultPolicy
  Absent = Absent
  Adapters = {a1, a2}
  MaxLoaded = 2
  Payloads <- Fresh
  Steps = {}
  Thresholds = {}
  MaxAge = 0
  Faults = {}
  Done = Done
  Raised = Raised
  Crashed = Crashed
  TopN = 1
  One = 64
  EvictionThreshold = 48
  Override <- AllIdentities
  Interval = 2
  MaxIdle = 5
  Deltas = {}
  Boosts = {}
  LeastSalience = 0
  Edits = {}
  Levels = {}
  HintLists = {}
  NoKey = NoKey
  Threads = {t1, t2}
  MaxClock = 5
  LastWrite = 2
  Free = Free
SYMMETRY Symmetry
INVARIANTS OvercountIsBounded NoTimeTwice LosesLessThanHalf TickLeavesOrder
PROPERTIES OwnThresholdDecides 
