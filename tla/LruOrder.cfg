SPECIFICATION LruSpec
CONSTANTS
  DefaultKeep <- Half
  LookupSize = 1000
  Keys = {k1}
  Texts = {hello}
  NoText = NoText
  Tags = {}
  Metadata = {}
  NoMetadata = NoMetadata
  Policy <- HalfLife
  Absent = Absent
  Adapters = {a1, a2, a3}
  MaxLoaded = 2
  Payloads <- AnyPayloads
  Steps = {1}
  Thresholds = {3,5}
  MaxAge = 1
  Faults = {"save", "load"}
  Done = Done
  Raised = Raised
  Crashed = Crashed
SYMMETRY Symmetry
INVARIANTS TypeOK SlotsRespected CleanMeansSwept
PROPERTIES RefinesMemoryStore EvictsLeastRecent
