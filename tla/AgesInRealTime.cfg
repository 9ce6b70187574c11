SPECIFICATION TimeSpec
CONSTANTS
  DefaultKeep <- Half
  LookupSize = 1000
  Keys = {k1}
  Texts = {hello}
  NoText = NoText
  Tags = {a1, a2, a3}
  Metadata = {}
  NoMetadata = NoMetadata
  Policy <- DefaultPolicy
  Absent = Absent
  Adapters = {a1, a2, a3}
  MaxLoaded = 2
  Payloads <- Fresh
  Steps = {}
  Thresholds = {}
  MaxAge = 0
  Faults = {}
  Done = Done
  Raised = Raised
  Crashed = Crashed
  TopN = 1
  One = 64
  EvictionThreshold = 48
  Override <- AllIdentities
  Interval = 2
  MaxIdle = 4
  Deltas = {}
  Boosts = {}
  LeastSalience = 0
  Edits = {}
  Levels = {}
  HintLists = {}
  NoKey = NoKey
  Threads = {t1}
  MaxClock = 4
  LastWrite = 2
  Free = Free
SYMMETRY Symmetry
INVARIANT AgesInRealTime
