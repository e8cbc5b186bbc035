CONSTANTS
  Locals <- MCLocals
  Globals <- MCGlobals
  Programs <- MCPrograms
  HashOrders <- MCHashOrders
  MAX_PIPELINE_ITERATIONS = 8
  Source = "restore"
SPECIFICATION Spec
INVARIANT
  WriteBackCompletes
