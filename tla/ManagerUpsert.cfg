SPECIFICATION Spec
CONSTANTS
  DefaultKeep <- Half
  LookupSize = 1000
  Keys = {k1}
  Texts = {hello}
  NoText = NoText
  Tags = {}
  Metadata = {}
  NoMetadata = NoMetadata
  Policy <- HalfLife
  Absent = Absent
  Adapters = {a1, a2}
  MaxLoaded = 2
  Payloads <- TextPayloads
  Steps <- StepCounts
  Thresholds = {2, 3}
  MaxAge = 2
  Faults = {}
  Done = Done
  Raised = Raised
  Crashed = Crashed
PROPERTY SaveReplacesAllRows
