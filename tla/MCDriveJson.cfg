CONSTANTS
  Packages = {p1}
  Members = {"media", "json"}
  Json = "json"
  Bytes = {"v", "j", "k"}
  Bound <- MCBound
  NoDir = NoDir
  Missing = Missing
  None = None
  Writers = {w1}
  Locks = {"host"}
  LockOf <- MCOneLock
  StageIds = {s1, s2}
  MaxFaults = 1
  MaxCrashes = 1
  MaxEdits = 1
  MaxCalls = 1
  WeakRemote = FALSE
SPECIFICATION Spec
CHECK_DEADLOCK FALSE
INVARIANTS
  FinalJsonBound
