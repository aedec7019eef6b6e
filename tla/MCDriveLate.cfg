CONSTANTS
  Packages = {p1}
  Members = {"media", "json"}
  Json = "json"
  Bytes = {"v", "j", "k"}
  Bound <- MCBound
  NoDir = NoDir
  Missing = Missing
  None = None
  Writers = {w1, w2}
  Locks = {"host"}
  LockOf <- MCOneLock
  StageIds = {s1, s2}
  MaxFaults = 2
  MaxCrashes = 1
  MaxEdits = 1
  MaxCalls = 1
  WeakRemote = TRUE
SPECIFICATION FairSpec
CHECK_DEADLOCK FALSE
INVARIANTS
  IndInv
  FinalFaithful
  StagingAccounted
PROPERTIES
  CallsEnd
