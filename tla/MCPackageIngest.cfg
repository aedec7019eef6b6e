CONSTANTS
  Packages = {"p", "q"}
  Members = {"media", "json"}
  Json = "json"
  Bytes = {"v", "w", "j", "j2", "k"}
  Bound <- MCBound
  NoDir = NoDir
  Missing = Missing
  None = None
  Ingesters = {i1, i2}
  MaxEdits = 2
  MaxFaults = 1
  MaxCrashes = 1
  MaxCalls = 2
SPECIFICATION Spec
SYMMETRY Symmetry
CHECK_DEADLOCK FALSE
INVARIANTS
  CatalogIsCustodied
  CleanReplayCatalogs
