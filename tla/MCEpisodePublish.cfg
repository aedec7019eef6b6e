CONSTANTS
  Texts = {"a", "a2", "b"}
  PrintOf <- MCPrintOf
  None = None
  First <- MCFirst
  Outputs <- MCOutputs
  Operators = {o1, o2}
  N = 2
  MaxEdits = 1
  MaxFaults = 1
  MaxCommands = 3
SPECIFICATION Spec
SYMMETRY Symmetry
CHECK_DEADLOCK FALSE
INVARIANTS
  GateHolds
  CleanPublishCatalogs
  PreflightPredicts
