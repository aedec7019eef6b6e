CONSTANTS
  Texts = {"a", "a2", "b"}
  PrintOf <- MCPrintOf
  None = None
  First <- MCInOrder
  Outputs <- MCRewritten
  Operators = {o1}
  N = 1
  MaxEdits = 1
  MaxFaults = 1
  MaxCommands = 3
SPECIFICATION Spec
SYMMETRY Symmetry
CHECK_DEADLOCK FALSE
INVARIANTS
  PassIsVerified
