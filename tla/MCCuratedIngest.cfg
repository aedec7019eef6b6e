CONSTANTS
  v = v
  w = w
  wide = wide
  junk = junk
  Bytes = {v, w, wide, junk}
  Torn = Torn
  Canonical = Canonical
  Size <- MCSize
  FactsOf <- MCFacts
  NoVideo = "none"
  Mismatched = {"16:9"}
  Texts = {"t"}
  NoDir = NoDir
  Missing = Missing
  None = None
  Ingesters = {i1, i2}
  MaxEdits = 2
  MaxFaults = 1
  MaxCrashes = 1
  MaxCalls = 2
SPECIFICATION Spec
SYMMETRY Symmetry
CHECK_DEADLOCK FALSE
INVARIANTS
  CatalogIsCustodied
  FactsAreOfBytes
  CleanImportCatalogs
PROPERTIES
  ImplementsCustody
