CONSTANTS
  Texts = {"a", "a2", "b"}
  PrintOf <- MCPrintOf
  None = None
  First <- MCFirst
  Outputs <- MCOutputs
  N = 3
  Unplaceable = {2}
  Limits = {1, 2, 3}
  MaxEdits = 1
  MaxFaults = 1
  MaxBatches = 2
SPECIFICATION Spec
CHECK_DEADLOCK FALSE
INVARIANTS
  SummaryIsTrue
  SelectionIsFirstReady
  CatalogIsReported
  CleanBatchCatalogsAll
