CONSTANTS
  Packages = {p1}
  Members = {"media", "json"}
  Json = "json"
  Bytes = {"v", "j", "k"}
  Bound <- MCBound
  NoDir = NoDir
  Missing = Missing
  None = None
  Writers = {w1, w2}
  Locks = {"host"}
  LockOf <- MCOneLock
  StageIds = {s1, s2, s3, s4}
  MaxFaults = 1
  MaxCrashes = 1
  MaxEdits = 1
  MaxCalls = 2
  WeakRemote = FALSE
SPECIFICATION Spec
SYMMETRY Symmetry
CHECK_DEADLOCK FALSE
INVARIANTS
  OneLockInv
  CleanCallSucceeds
PROPERTIES
  FinalUntouched
  ImplementsCustody
