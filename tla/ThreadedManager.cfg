SPECIFICATION Spec
CONSTANTS
  DefaultKeep <- Half
  LookupSize = 1000
  Keys = {k1}
  Texts = {hello}
  NoText = NoText
  Tags = {}
  Metadata = {}
  NoMetadata = NoMetadata
  Policy <- DefaultPolicy
  Absent = Absent
  Adapters <- Smiths
  MaxLoaded = 1
  Payloads <- Fresh
  Threads = {t1, t2}
  Callers = {t1, t2}
  Free = Free
INVARIANTS TypeOK OverrunIsBounded PendingIsRunning SafeInTurns
PROPERTY PrefetchEnds
