CONSTANTS
  Ingesters = {i1, i2}
  Requests = {"a", "b", "c", "d", "e"}
  Kinds = {"horizontal", "vertical"}
  Content <- MCContent
  Checked <- MCChecked
  Fingerprint <- MCFingerprint
  NoRow = NoRow
  None = None
  MaxCalls = 3
  MaxCrashes = 1
  MaxReleases = 2
SPECIFICATION Spec
SYMMETRY Symmetry
CHECK_DEADLOCK FALSE
INVARIANTS
  SerialIsWhole
  TornIsReported
  NobodyStuck
  SemanticsVerified
  CompleteIsReleased
PROPERTIES
  PlacementFixed
