SPECIFICATION Spec
CONSTANTS
  DefaultKeep <- Half
  LookupSize = 1000
  Keys = {k1, k2, k3}
  Texts = {hello}
  NoText = NoText
  Tags = {}
  Metadata = {}
  NoMetadata = NoMetadata
  Policy <- DefaultPolicy
  Absent = Absent
  Threads = {t1, t2}
  Payloads <- Fresh
  Steps = {1}
  Threshold = 2
  MaxAge = 1
SYMMETRY Symmetry
INVARIANT LeftAloneIsLive
PROPERTIES UntouchedAsAlone RemovesLiveOnlyIfTouched
