SPECIFICATION RekeySpec
CONSTANTS
  quote = quote
  DefaultKeep <- Half
  LookupSize = 1000
  OldKeys = {k1, k2}
  Keys <- AllKeys
  Texts <- Words
  NoText = NoText
  Tags = {quote}
  Metadata = {}
  NoMetadata = NoMetadata
  Policy <- DefaultPolicy
  Absent = Absent
  Adapters = {a1}
  MaxLoaded = 1
  Payloads <- Rivals
  Steps = {}
  Thresholds = {}
  MaxAge = 0
  Faults = {}
  Done = Done
  Raised = Raised
  Crashed = Crashed
  Lower <- LowerCase
  Asked <- Questions
  MaxRows = 4
  Characters <- Quotes
SYMMETRY Symmetry
INVARIANT RekeyTypeOK
PROPERTIES FoundByHash LosesToMoreSalient MostSalientStays LatinTextsKeepApart SkipsExactly HitsAreRight SimilarityIsJaccard
